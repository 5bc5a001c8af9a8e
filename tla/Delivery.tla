------------------------------ MODULE Delivery ------------------------------
(***************************************************************************)
(* What the posture pipeline promises: a resource is published at most     *)
(* once, only after a fetcher sent it, and never after the publisher       *)
(* returned.                                                               *)
(***************************************************************************)
CONSTANT Resources

VARIABLES status,   \* where each resource is
          open      \* the publisher is running

vars == <<status, open>>

Status == {"new", "accepted", "published", "lost"}

Is(s) == {r \in Resources : status[r] = s}
Set(S, s) == status' = [r \in Resources |-> IF r \in S THEN s ELSE status[r]]

Init == status = [r \in Resources |-> "new"] /\ open = TRUE

Accept == \E r \in Is("new") : Set({r}, "accepted") /\ UNCHANGED open
Lose == \E r \in Is("accepted") : Set({r}, "lost") /\ UNCHANGED open
Publish == open /\ \E S \in SUBSET Is("accepted") : Set(S, "published") /\ open' \in BOOLEAN

Next == Accept \/ Lose \/ Publish

Spec == Init /\ [][Next]_vars
=============================================================================
