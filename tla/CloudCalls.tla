----------------------------- MODULE CloudCalls -----------------------------
(* What the inventory modules of the three clouds share.  The account is   *)
(* fixed: in each place (a region of AWS, a project of GCP, a subscription *)
(* of Azure) the names Name exist.  What varies is how the cloud answers:  *)
(* the calls in fails return an error; of the others, those in unset       *)
(* answer truthfully that there is no such configuration.  A call is a     *)
(* pair of an operation and a subject, a subject a pair of a place and a   *)
(* name; Whole stands where there is no place (a call about everything) or *)
(* no name (a call about the whole place).  A call read page by page is    *)
(* one call: an error on any page discards the pages before it.            *)
(* told is what the rules can see of a resource after its encoding to      *)
(* JSON: "set" or "unset", or "nil" when the resource says nothing.        *)
EXTENDS FiniteSets

CONSTANTS Place, Name, Whole

ASSUME PlaceAssumption == Whole \notin Place \cup Name

VARIABLES task,   \* the fetcher that runs
          fails, unset

Things == Place \X Name
Globals == {Whole} \X Name
Global == <<Whole, Whole>>
Wide(r) == <<r, Whole>>
Wides == {Wide(r) : r \in Place}
Within(r) == {r} \X Name

Call(ops, subjects) == ops \X subjects
Fails(op, s) == <<op, s>> \in fails
Truth(op, s) == IF <<op, s>> \in unset THEN "unset" ELSE "set"
Says(op, s) == IF Fails(op, s) THEN "nil" ELSE Truth(op, s)

(* nil and an empty answer are encoded the same.                           *)
Blur(v) == IF v = "nil" THEN "unset" ELSE v

Resource(type, s, told) == [type |-> type, at |-> s, told |-> told]
=============================================================================
