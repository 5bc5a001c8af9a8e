-------------------------- MODULE MCLeaderElection --------------------------
(* Four electors: the first one, and three that are started again.         *)
EXTENDS LeaderElection

(* CanStep says of an elector what ENABLED says of its steps, but for Acquire and Lose. *)
CanStepIsEnabled ==
  ~crashed => \A e \in Elector : CanStep(e) <=> ENABLED (ContextDone(e) \/ Callback(e))
=============================================================================
