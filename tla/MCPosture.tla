------------------------------ MODULE MCPosture ------------------------------
(* Small instances of Posture for TLC. *)
EXTENDS Posture

CONSTANTS f1, f2

TwoFetchers == {f1, f2}
OrgAndDirect == [f \in TwoFetchers |-> IF f = f1 THEN "org" ELSE "direct"]

(* StageCanStep and PublisherCanStep say what ENABLED says of the steps that lose nothing. *)
CanStepIsEnabled ==
  /\ \A s \in Stages : StageCanStep(s) <=> ENABLED (StageReceive(s) \/ StageSends(s) \/ StageEnds(s))
  /\ publisher = "select" => (PublisherCanStep <=> ENABLED PublisherStep)
=============================================================================
