-------------------------- MODULE MCVulnerability --------------------------
(* Two iterations, and two instances: with two volumes, and without any.   *)
EXTENDS Vulnerability

CONSTANTS n1, n2, v1, v2

MCVolumes == {<<n1, v1>>, <<n1, v2>>}

(* CanStep says of a pipeline what ENABLED says of its steps. *)
CanStepIsEnabled ==
  \A i \in Iter : (\E g \in Stage : CanStep(i, g)) <=> ENABLED (PipelineStep(i) \/ TakeEvents(i))
=============================================================================
