--------------------------- MODULE LeaderElection ---------------------------
(***************************************************************************)
(* uniqueness/leaderelection.go, as k8sbenchmark uses it: Run starts an    *)
(* elector goroutine and waits; an elector that stopped leading starts the *)
(* next one, unless the context is done; Stop cancels the context and      *)
(* waits for the electors with a WaitGroup.  The electors are numbered in  *)
(* the order in which they are started.                                    *)
(***************************************************************************)
EXTENDS Integers

CONSTANT MaxElectors  \* bound on the electors that are started

ASSUME ElectorAssumption == MaxElectors \in Nat \ {0}

VARIABLES
  run,        \* where k8sbenchmark.Run is
  last,       \* the number of the elector started last
  elector,    \* where each goroutine of leader.Run is, OnStoppedLeading included
  added,      \* the electors that wg.Add(1) was called for
  wg,         \* the counter of m.wg
  cancelSet,  \* m.cancelFunc # nil
  cancelled,  \* newCtx is done
  stop,       \* where k8sbenchmark.Stop is
  overlap,    \* history: did Stop come between the start of an elector and its Add?
  crashed     \* a panic of the WaitGroup ended the process

electors == <<last, elector, added, wg>>
stopVars == <<cancelSet, cancelled, stop, overlap>>
vars == <<run, electors, stopVars, crashed>>

Elector == 1..MaxElectors
Contending == {"campaign", "lead"}

Init ==
  /\ run = "idle" /\ last = 0
  /\ elector = [e \in Elector |-> "off"]
  /\ added = {} /\ wg = 0
  /\ cancelSet = FALSE /\ cancelled = FALSE
  /\ stop = "idle" /\ overlap = FALSE /\ crashed = FALSE

Moves(e, from, to) ==
  /\ ~crashed /\ elector[e] = from
  /\ elector' = [elector EXCEPT ![e] = to]

-----------------------------------------------------------------------------
(* Run *)
Configure ==
  /\ ~crashed /\ run = "idle"
  /\ cancelSet' = TRUE
  /\ run' \in {"configured", "failed"}
  /\ UNCHANGED <<electors, cancelled, stop, overlap, crashed>>

(* go m.leader.Run(newCtx) *)
Start ==
  /\ ~crashed /\ run = "configured"
  /\ run' = "started" /\ last' = 1
  /\ elector' = [elector EXCEPT ![1] = "campaign"]
  /\ UNCHANGED <<added, wg, stopVars, crashed>>

(* m.wg.Add(1) *)
AddFirst ==
  /\ ~crashed /\ run = "started"
  /\ run' = "sleep" /\ added' = {1} /\ wg' = wg + 1
  /\ UNCHANGED <<last, elector, stopVars, crashed>>

(* FirstLeaderDeadline has passed: basebenchmark.Run starts the fetchers. *)
RunReturns ==
  /\ ~crashed /\ run = "sleep"
  /\ run' = "returned"
  /\ UNCHANGED <<electors, stopVars, crashed>>

-----------------------------------------------------------------------------
(* An elector: client-go acquires the lease and renews it.                 *)
Acquire(e) ==
  /\ ~cancelled /\ Moves(e, "campaign", "lead")
  /\ UNCHANGED <<run, last, added, wg, stopVars, crashed>>

(* What is left to do between two statements of the former elector, or of  *)
(* Run, is done within the RenewDeadline.                                  *)
Settled(e) == e \in added /\ (e > 1 => elector[e - 1] = "gone")

(* The lease was not renewed within the RenewDeadline.  (Bound: the last   *)
(* elector keeps it.)                                                      *)
Lose(e) ==
  /\ Settled(e) /\ e < MaxElectors /\ Moves(e, "lead", "stopped")
  /\ UNCHANGED <<run, last, added, wg, stopVars, crashed>>

(* leader.Run returns as its context is done. *)
ContextDone(e) ==
  /\ cancelled /\ \E from \in Contending : Moves(e, from, "stopped")
  /\ UNCHANGED <<run, last, added, wg, stopVars, crashed>>

(* Mutant: OnStoppedLeading always returns. *)
NeverReruns(e) ==
  /\ Moves(e, "stopped", "done")
  /\ UNCHANGED <<run, last, added, wg, stopVars, crashed>>

(* The select of OnStoppedLeading. *)
StoppedLeading(e) ==
  /\ Moves(e, "stopped", IF cancelled THEN "done" ELSE "rerun")
  /\ UNCHANGED <<run, last, added, wg, stopVars, crashed>>

(* go m.leader.Run(ctx) *)
Rerun(e) ==
  /\ ~crashed /\ elector[e] = "rerun"
  /\ elector' = [elector EXCEPT ![e] = "adding", ![last + 1] = "campaign"]
  /\ last' = last + 1
  /\ UNCHANGED <<run, added, wg, stopVars, crashed>>

(* Mutant: no wg.Add(1) for an elector that is started again. *)
AddNone(e) ==
  /\ Moves(e, "adding", "done")
  /\ UNCHANGED <<run, last, added, wg, stopVars, crashed>>

(* m.wg.Add(1) *)
AddNext(e) ==
  /\ Moves(e, "adding", "done")
  /\ added' = added \cup {e + 1} /\ wg' = wg + 1
  /\ UNCHANGED <<run, last, stopVars, crashed>>

(* Mutant: wg.Done is not deferred but called where the context is done;   *)
(* an elector that is run again returns without it.                        *)
DoneIfCancelled(e) ==
  /\ Moves(e, "done", "gone")
  /\ wg' = IF e = last THEN wg - 1 ELSE wg
  /\ crashed' = (wg = 0)
  /\ stop' = IF wg' = 0 /\ stop = "waiting" THEN "released" ELSE stop
  /\ UNCHANGED <<run, last, added, cancelSet, cancelled, overlap>>

(* The deferred m.wg.Done() panics below zero; at zero it lets Stop go on. *)
Done(e) ==
  /\ Moves(e, "done", "gone")
  /\ wg' = wg - 1 /\ crashed' = (wg = 0)
  /\ stop' = IF wg = 1 /\ stop = "waiting" THEN "released" ELSE stop
  /\ UNCHANGED <<run, last, added, cancelSet, cancelled, overlap>>

-----------------------------------------------------------------------------
(* Stop *)
Between == run \in {"idle", "configured", "started"}
           \/ \E e \in Elector : elector[e] \in {"rerun", "adding"}

StopCancels ==
  /\ ~crashed /\ stop = "idle"
  /\ IF cancelSet THEN cancelled' = TRUE /\ stop' = "wait"
                  ELSE stop' = "electorStopped" /\ UNCHANGED cancelled
  /\ overlap' = Between
  /\ UNCHANGED <<run, electors, cancelSet, crashed>>

(* Mutant: Stop does not wait. *)
WaitsForNobody ==
  /\ ~crashed /\ stop = "wait"
  /\ stop' = "electorStopped"
  /\ UNCHANGED <<run, electors, cancelSet, cancelled, overlap, crashed>>

(* m.wg.Wait() *)
Wait ==
  /\ ~crashed /\ stop = "wait"
  /\ stop' = IF wg = 0 THEN "electorStopped" ELSE "waiting"
  /\ UNCHANGED <<run, electors, cancelSet, cancelled, overlap, crashed>>

(* Wait panics if Add was called between its release and its return. *)
WaitReturns ==
  /\ ~crashed /\ stop = "released"
  /\ IF wg = 0 THEN stop' = "electorStopped" /\ UNCHANGED crashed
               ELSE crashed' = TRUE /\ UNCHANGED stop
  /\ UNCHANGED <<run, electors, cancelSet, cancelled, overlap>>

(* The rest of posture.Stop: the fetchers, then the context of the beater. *)
StopReturns ==
  /\ ~crashed /\ stop = "electorStopped"
  /\ stop' = "returned" /\ cancelled' = TRUE
  /\ UNCHANGED <<run, electors, cancelSet, overlap, crashed>>

-----------------------------------------------------------------------------
RunStep == Configure \/ Start \/ AddFirst \/ RunReturns
Callback(e) == StoppedLeading(e) \/ Rerun(e) \/ AddNext(e) \/ Done(e)
StopStep == Wait \/ WaitReturns \/ StopReturns

Next ==
  \/ RunStep \/ StopCancels \/ StopStep
  \/ \E e \in Elector : Acquire(e) \/ Lose(e) \/ ContextDone(e) \/ Callback(e)

Spec == Init /\ [][Next]_vars

(* Goroutines run, and client-go heeds its context. *)
FairSpec ==
  /\ Spec /\ WF_vars(RunStep) /\ WF_vars(StopStep)
  /\ \A e \in Elector : WF_vars(ContextDone(e)) /\ WF_vars(Callback(e))

-----------------------------------------------------------------------------
TypeOK ==
  /\ run \in {"idle", "configured", "failed", "started", "sleep", "returned"}
  /\ last \in 0..MaxElectors
  /\ elector \in [Elector -> {"off", "stopped", "rerun", "adding", "done", "gone"}
                              \cup Contending]
  /\ added \subseteq Elector /\ wg \in Int
  /\ {cancelSet, cancelled, overlap, crashed} \subseteq BOOLEAN
  /\ stop \in {"idle", "wait", "waiting", "released", "electorStopped", "returned"}

Alive(e) == elector[e] \notin {"off", "gone"}

(* Only the last two electors may not be through, and only the last one    *)
(* contends for the lease.                                                 *)
ElectorInv ==
  \A e \in Elector :
    /\ elector[e] = "rerun" => e < MaxElectors
    /\ e > last => elector[e] = "off" /\ e \notin added
    /\ e = last => elector[e] \notin {"off", "adding"}
    /\ e = last /\ elector[e] \in {"done", "gone"} => cancelled
    /\ e < last => elector[e] \in {"adding", "done", "gone"} /\ e \in added
    /\ e < last => (e + 1 \notin added <=> elector[e] = "adding")
    /\ e + 1 < last => elector[e] = "gone"
    /\ elector[e] \in {"rerun", "adding"} => Settled(e)
    /\ elector[e] = "stopped" => cancelled \/ (Settled(e) /\ e < MaxElectors)

(* The first elector is the one that Run started. *)
RunInv ==
  /\ last = 0 <=> run \in {"idle", "configured", "failed"}
  /\ last > 0 => (1 \notin added <=> run = "started")
  /\ ~cancelSet <=> run = "idle"

(* The WaitGroup counts the electors that it was told of and that are not  *)
(* through.                                                                *)
Count(e) == IF e < 1 THEN 0
            ELSE (IF e \in added THEN 1 ELSE 0) - (IF elector[e] = "gone" THEN 1 ELSE 0)
WgInv == wg = Count(last) + Count(last - 1)

(* When the context is done no elector will be started, but in the window. *)
CancelInv ==
  /\ stop \in {"wait", "waiting", "released", "returned"} => cancelled
  /\ stop = "electorStopped" /\ ~overlap => cancelled
  /\ cancelled => stop # "idle"
  /\ cancelled /\ ~overlap => ~Between

(* Wait was released, or returned at once, when no elector was left. *)
WaitInv ==
  stop \in {"released", "electorStopped", "returned"} /\ ~overlap => wg = 0

(* The electors, what the WaitGroup knows of them, and the context agree.  *)
ElectionInv == TypeOK /\ ElectorInv /\ RunInv /\ WgInv /\ CancelInv /\ WaitInv

(* "Stop is blocking until all go routines are finished": it is, unless it *)
(* came between the start of an elector and its wg.Add.                    *)
StopBlocks ==
  stop \in {"electorStopped", "returned"} /\ ~overlap => \A e \in Elector : ~Alive(e)

(* The WaitGroup panics only if Stop came in that window. *)
PanicsInWindow == crashed => overlap

(* "We re-run the manager to keep following leader status except for       *)
(* context cancellation events": an elector contends again and again.      *)
Follows == []<>(run = "failed" \/ cancelled \/ crashed
                \/ \E e \in Elector : elector[e] \in Contending)

(* Stop returns once it waits, or the WaitGroup panics. *)
StopEnds == stop = "wait" ~> crashed \/ stop = "returned"

(* What StopEnds rests on, beside fairness: while Stop waits, an elector   *)
(* that the WaitGroup counts is alive and can take its next step, be it in *)
(* that window or not; no Done is missed, and nobody waits for the lease.  *)
CanStep(e) == Alive(e) /\ (elector[e] \in Contending => cancelled)
StopNeverStuck == stop = "waiting" /\ ~crashed => \E e \in added : CanStep(e)
=============================================================================
