----------------------------- MODULE Supervisor -----------------------------
(***************************************************************************)
(* What the launcher promises to libbeat and to the beaters it supervises, *)
(* without its channels and its WaitGroup: beaters run one at a time, none *)
(* is started once the launcher has an outcome, and "graceful" is never    *)
(* reported while a beater is still running.                               *)
(***************************************************************************)
CONSTANTS Beaters,    \* identities of the beater runs
          Reports,    \* what a launcher may report when it returns
          Deaths      \* the panics that may end the process

VARIABLES live,       \* the beaters whose Run is executing
          outcome     \* "none" until the launcher stops supervising

supervisorVars == <<live, outcome>>

Init == live = {} /\ outcome = "none"

(* A beater starts only when no other beater runs and nothing was decided. *)
Start(b) ==
  /\ live = {} /\ outcome = "none"
  /\ live' = {b}
  /\ UNCHANGED outcome

(* Run of a beater returns, before or after the launcher decides. *)
Return(b) ==
  /\ b \in live
  /\ live' = live \ {b}
  /\ UNCHANGED outcome

(* The launcher reports why it stopped supervising, once; a graceful      *)
(* report leaves no beater running.                                        *)
Report(o) ==
  /\ outcome = "none"
  /\ o = "graceful" => live = {}
  /\ outcome' = o
  /\ UNCHANGED live

(* The process dies: nothing is promised about when. *)
Die(o) ==
  /\ outcome \notin Deaths
  /\ outcome' = o
  /\ UNCHANGED live

Next == \/ \E b \in Beaters : Start(b) \/ Return(b)
        \/ \E o \in Reports : Report(o)
        \/ \E o \in Deaths : Die(o)

Spec == Init /\ [][Next]_supervisorVars
=============================================================================
