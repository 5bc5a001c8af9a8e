---------------------------- MODULE MCCycleCache ----------------------------
(* A small instance of CycleCache for TLC: callers as model values.        *)
EXTENDS CycleCache

(* CanStep says of a call what ENABLED says of its steps. *)
CanStepIsEnabled == \A c \in Callers : CanStep(c) <=> ENABLED Step(c)
=============================================================================
