SPECIFICATION FairSpec
CONSTANTS
  Callers = {c1, c2}
  MaxCycle = 2
  Words = 2
INVARIANTS
  Fresh
  MonotoneReads
PROPERTIES
  OncePerCycle
  CallReturns
