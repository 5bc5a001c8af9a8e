SPECIFICATION Spec
CONSTANTS
  Callers = {c1, c2}
  MaxCycle = 1
  Words = 3
INVARIANTS
  NoTornRead
