---------------------------- MODULE FetchManager ----------------------------
(***************************************************************************)
(* resources/fetching/manager and registry: a timer starts an iteration    *)
(* goroutine, the iteration starts one fetchSingle per registered key, and *)
(* fetchSingle starts the fetch itself, which it abandons at its deadline. *)
(***************************************************************************)
EXTENDS Naturals

CONSTANTS Keys,         \* keys of fetchers that may be registered
          Conditional,  \* those with a Condition (leader election)
          Initial,      \* those registered at the start
          HasUpdater,   \* does the registry have an updater (AWS organization)?
          MayHang,      \* fetchers that may ignore their context
          MaxIter       \* bound on the iterations

ASSUME ManagerAssumption ==
  /\ Conditional \subseteq Keys /\ Initial \subseteq Keys /\ MayHang \subseteq Keys
  /\ HasUpdater \in BOOLEAN /\ MaxIter \in Nat

VARIABLES
  loop,       \* fetchAndSleep: "select" or "returned"
  iterations, \* how many iterations the timer has started
  iter,       \* where each of them is
  reg,        \* keys of r.reg
  single,     \* where each fetchSingle is
  job,        \* where the goroutine that calls fetchProtected is
  cancelled,  \* m.ctx
  \* History, which no step reads:
  missed,     \* iterations for which ShouldRun or Run did not find a key in r.reg
  disturbed   \* iterations under which another one's Update took keys out of r.reg

history == <<missed, disturbed>>
managerVars == <<loop, iterations, iter, reg, single, job, cancelled, history>>

Iter == 1..MaxIter
Task == Iter \X Keys
Of(i) == {t \in Task : t[1] = i}
Verdicts == {"none", "skipped", "answered", "abandoned"}

ManagerInit ==
  /\ loop = "select" /\ iterations = 0
  /\ iter = [i \in Iter |-> "none"]
  /\ reg = IF HasUpdater THEN {} ELSE Initial
  /\ single = [t \in Task |-> "none"]
  /\ job = [t \in Task |-> "none"]
  /\ cancelled = FALSE
  /\ missed = {} /\ disturbed = {}

With(f, x, s) == [f EXCEPT ![x] = s]

-----------------------------------------------------------------------------
(* <-timer.C: reset the timer and go fetchIteration, even if the context   *)
(* is done as well.                                                        *)
StartIteration ==
  /\ loop = "select" /\ iterations < MaxIter
  /\ iterations' = iterations + 1
  /\ iter' = With(iter, iterations + 1, "update")
  /\ UNCHANGED <<loop, reg, single, job, cancelled, history>>

(* Mutant: ctx.Done is not looked at. *)
LoopGoesOn == FALSE

LoopReturns ==
  /\ loop = "select" /\ cancelled
  /\ loop' = "returned"
  /\ UNCHANGED <<iterations, iter, reg, single, job, cancelled, history>>

(* The map that the updater of iteration i made replaces r.reg: without an *)
(* updater, or if it fails, nothing changes.                               *)
Install(i) ==
  /\ reg' \in IF HasUpdater THEN SUBSET Keys ELSE {reg}
  /\ disturbed' = IF reg \subseteq reg' THEN disturbed
                  ELSE disturbed \cup {j \in Iter \ {i} : iter[j] \in {"keys", "wait", "ended"}}
  /\ UNCHANGED <<loop, iterations, single, job, cancelled, missed>>

(* Mutant: go Update(), whose map arrives while the iteration fetches. *)
UpdateInBackground(i) ==
  \/ iter[i] = "update" /\ iter' = With(iter, i, "keys")
     /\ UNCHANGED <<loop, iterations, reg, single, job, cancelled, history>>
  \/ iter[i] \in {"keys", "wait", "ended"} /\ iter' = iter /\ Install(i)

(* registry.Update *)
Update(i) ==
  /\ iter[i] = "update"
  /\ iter' = With(iter, i, "keys")
  /\ Install(i)

(* One goroutine per key registered now. *)
StartFetches(i) ==
  /\ iter[i] = "keys"
  /\ iter' = With(iter, i, "wait")
  /\ single' = [t \in Task |-> IF t[1] = i /\ t[2] \in reg THEN "check" ELSE single[t]]
  /\ UNCHANGED <<loop, iterations, reg, job, cancelled, history>>

(* wg.Wait *)
WaitDone(i) ==
  /\ iter[i] = "wait" /\ \A t \in Of(i) : single[t] \in Verdicts
  /\ iter' = With(iter, i, "ended")
  /\ UNCHANGED <<loop, iterations, reg, single, job, cancelled, history>>

-----------------------------------------------------------------------------
NoteMissed(t) ==
  /\ missed' = IF t[2] \in reg THEN missed ELSE missed \cup {t[1]}
  /\ UNCHANGED disturbed

(* fetchSingle: ShouldRun, with conditions that hold or not. *)
Skip(t) ==
  /\ single[t] = "check" /\ (t[2] \notin reg \/ t[2] \in Conditional)
  /\ single' = With(single, t, "skipped")
  /\ NoteMissed(t)
  /\ UNCHANGED <<loop, iterations, iter, reg, job, cancelled>>

Start(t) ==
  /\ single[t] = "check" /\ t[2] \in reg
  /\ single' = With(single, t, "select")
  /\ job' = With(job, t, "lookup")
  /\ UNCHANGED <<loop, iterations, iter, reg, cancelled, history>>

(* registry.Run: an Update in between may have unregistered the key. *)
Lookup(t) ==
  /\ job[t] = "lookup"
  /\ job' = With(job, t, IF t[2] \in reg THEN "fetch" ELSE "send")
  /\ NoteMissed(t)
  /\ UNCHANGED <<loop, iterations, iter, reg, single, cancelled>>

(* Fetch returns, fails or panics (and is recovered). *)
FetchEnds(t) ==
  /\ job[t] = "fetch"
  /\ job' = With(job, t, "send")
  /\ UNCHANGED <<loop, iterations, iter, reg, single, cancelled, history>>

(* Mutant: errCh has no buffer. *)
SendUnbuffered(t) ==
  /\ job[t] = "send" /\ single[t] = "select"
  /\ job' = With(job, t, "sent")
  /\ UNCHANGED <<loop, iterations, iter, reg, single, cancelled, history>>

(* errCh <- err: the buffer takes it, listened to or not. *)
SendResult(t) ==
  /\ job[t] = "send"
  /\ job' = With(job, t, "sent")
  /\ UNCHANGED <<loop, iterations, iter, reg, single, cancelled, history>>

Answer(t) ==
  /\ single[t] = "select" /\ job[t] = "sent"
  /\ single' = With(single, t, "answered")
  /\ UNCHANGED <<loop, iterations, iter, reg, job, cancelled, history>>

(* Mutant: no timeout. *)
AbandonCancelled(t) ==
  /\ single[t] = "select" /\ cancelled
  /\ single' = With(single, t, "abandoned")
  /\ UNCHANGED <<loop, iterations, iter, reg, job, cancelled, history>>

(* <-ctx.Done: the deadline passes or Stop was called; the fetch is left   *)
(* running.                                                                *)
Abandon(t) ==
  /\ single[t] = "select"
  /\ single' = With(single, t, "abandoned")
  /\ UNCHANGED <<loop, iterations, iter, reg, job, cancelled, history>>

-----------------------------------------------------------------------------
(* Manager.Stop.  (What the fetchers' own Stop does is not modelled here.) *)
ManagerStop ==
  /\ ~cancelled /\ cancelled' = TRUE
  /\ UNCHANGED <<loop, iterations, iter, reg, single, job, history>>

-----------------------------------------------------------------------------
IterStep(i) == Update(i) \/ StartFetches(i) \/ WaitDone(i)
SingleStep(t) == Skip(t) \/ Start(t) \/ Answer(t) \/ Abandon(t)
JobStep(t) == Lookup(t) \/ SendResult(t)

ManagerNext ==
  \/ StartIteration \/ LoopReturns \/ ManagerStop
  \/ \E i \in Iter : IterStep(i)
  \/ \E t \in Task : SingleStep(t) \/ JobStep(t) \/ FetchEnds(t)

ManagerSpec == ManagerInit /\ [][ManagerNext]_managerVars

(* Goroutines run, deadlines pass, the updater returns, and fetchers       *)
(* return unless they may hang.                                            *)
ManagerFairness ==
  /\ WF_managerVars(LoopReturns)
  /\ \A i \in Iter : WF_managerVars(IterStep(i))
  /\ \A t \in Task : /\ WF_managerVars(SingleStep(t)) /\ WF_managerVars(JobStep(t))
                     /\ t[2] \notin MayHang => WF_managerVars(FetchEnds(t))
ManagerFairSpec == ManagerSpec /\ ManagerFairness

-----------------------------------------------------------------------------
ManagerTypeOK ==
  /\ loop \in {"select", "returned"}
  /\ iterations \in 0..MaxIter
  /\ iter \in [Iter -> {"none", "update", "keys", "wait", "ended"}]
  /\ reg \subseteq Keys
  /\ single \in [Task -> Verdicts \cup {"check", "select"}]
  /\ job \in [Task -> {"none", "lookup", "fetch", "send", "sent"}]
  /\ cancelled \in BOOLEAN
  /\ missed \subseteq Iter /\ disturbed \subseteq Iter

(* Where an iteration is, where its fetches are, and where their           *)
(* goroutines are, agree.                                                  *)
TaskInv ==
  /\ \A i \in Iter : iter[i] = "none" <=> i > iterations
  /\ \A t \in Task : /\ single[t] # "none" => iter[t[1]] \in {"wait", "ended"}
                     /\ job[t] # "none" => single[t] \in {"select", "answered", "abandoned"}
                     /\ single[t] = "answered" => job[t] = "sent"

(* What an undisturbed iteration lists stays registered. *)
ListInv == \A t \in Task : single[t] # "none" /\ t[1] \notin disturbed => t[2] \in reg

MInv == ManagerTypeOK /\ TaskInv /\ ListInv

(* A fetcher that an iteration found in the map is missed by its ShouldRun *)
(* or Run, even if that call is late, only when another iteration's Update *)
(* took keys out of the map after this one's own: the iteration's own      *)
(* Update never takes a fetcher from it.                                   *)
MissedMeansDisturbed == missed \subseteq disturbed

(* Every iteration ends, though fetchers may hang for ever. *)
IterationEnds == \A i \in Iter : iter[i] = "update" ~> iter[i] = "ended"

(* "The buffer is required to avoid go-routine leaks in a case a fetcher   *)
(* timed out": the goroutine of a fetch that returned ends.                *)
NoLeak == \A t \in Task : job[t] = "send" ~> job[t] = "sent"

(* After Stop the loop returns and every iteration ends. *)
StopDrains ==
  cancelled ~> loop = "returned" /\ \A i \in Iter : iter[i] \in {"none", "ended"}

(* "The function must not get called in parallel." (fetchIteration) *)
NotInParallel ==
  \A i, j \in Iter : iter[i] \notin {"none", "ended"} /\ iter[j] \notin {"none", "ended"} => i = j
=============================================================================
