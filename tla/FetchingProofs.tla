---------------------------- MODULE FetchingProofs ----------------------------
(* The promises of the fetch manager, for every set of fetchers and number *)
(* of iterations; and of the Kubernetes fetcher, whose Fetches the manager *)
(* lets overlap, for any number of kinds and calls.                        *)
EXTENDS FetchManager, KubeFetcher, TLAPS

-----------------------------------------------------------------------------
(* The fetch manager.                                                      *)

(* Every step keeps iterations, fetches and goroutines in agreement, and   *)
(* misses a fetcher only in a disturbed iteration.                         *)
LEMMA ManagerStep == MInv /\ MissedMeansDisturbed /\ [ManagerNext]_managerVars => MInv' /\ MissedMeansDisturbed'
<1> SUFFICES ASSUME MInv, MissedMeansDisturbed, [ManagerNext]_managerVars PROVE MInv' /\ MissedMeansDisturbed'
  OBVIOUS
<1> USE ManagerAssumption DEF Iter, Task, MInv, ManagerTypeOK, TaskInv, ListInv, MissedMeansDisturbed, With, Verdicts, history
<1>1. CASE UNCHANGED managerVars
  BY <1>1 DEF managerVars
<1>2. CASE StartIteration
  BY <1>2 DEF StartIteration
<1>3. CASE LoopReturns
  BY <1>3 DEF LoopReturns
<1>4. CASE ManagerStop
  BY <1>4 DEF ManagerStop
<1>5. ASSUME NEW i \in Iter, Update(i) PROVE MInv' /\ MissedMeansDisturbed'
  <2>1. /\ iter[i] = "update" /\ iter' = [iter EXCEPT ![i] = "keys"] /\ reg' \subseteq Keys
        /\ UNCHANGED <<loop, iterations, single, job, cancelled, missed>>
    BY <1>5 DEF Update, Install
  <2>2. disturbed' \subseteq Iter /\ disturbed \subseteq disturbed'
    BY <1>5 DEF Update, Install
  <2>3. ~(reg \subseteq reg') =>
          \A j \in Iter \ {i} : iter[j] \in {"keys", "wait", "ended"} => j \in disturbed'
    BY <1>5 DEF Update, Install
  <2>4. TaskInv'
    BY <2>1
  <2>5. ListInv'
    <3> SUFFICES ASSUME NEW t \in Task, single[t] # "none", t[1] \notin disturbed'
                 PROVE  t[2] \in reg'
      BY <2>1
    <3>1. t[1] \in Iter /\ iter[t[1]] \in {"wait", "ended"} /\ t[2] \in reg
      BY <2>2
    <3> QED
      BY <3>1, <2>1, <2>3
  <2> QED
    BY <2>1, <2>2, <2>4, <2>5
<1>6. ASSUME NEW i \in Iter, StartFetches(i) PROVE MInv' /\ MissedMeansDisturbed'
  BY <1>6 DEF StartFetches
<1>7. ASSUME NEW i \in Iter, WaitDone(i) PROVE MInv' /\ MissedMeansDisturbed'
  BY <1>7 DEF WaitDone, Of
<1>8. ASSUME NEW t \in Task, Skip(t) PROVE MInv' /\ MissedMeansDisturbed'
  <2>1. /\ single[t] = "check" /\ single' = [single EXCEPT ![t] = "skipped"]
        /\ missed' = IF t[2] \in reg THEN missed ELSE missed \cup {t[1]}
        /\ UNCHANGED <<loop, iterations, iter, reg, job, cancelled, disturbed>>
    BY <1>8 DEF Skip, NoteMissed
  <2>2. t[1] \in Iter /\ (t[2] \notin reg => t[1] \in disturbed)
    BY <2>1
  <2>3. missed' \subseteq disturbed' /\ missed' \subseteq Iter
    <3>1. missed' \subseteq missed \cup {t[1]} /\ disturbed' = disturbed
      BY <2>1
    <3>2. missed \subseteq disturbed /\ missed \subseteq Iter
      OBVIOUS
    <3>3. CASE t[2] \in reg
      BY <2>1, <3>1, <3>2, <3>3
    <3>4. CASE t[2] \notin reg
      BY <2>2, <3>1, <3>2, <3>4
    <3> QED
      BY <3>3, <3>4
  <2>4. ListInv'
    BY <2>1
  <2>5. TaskInv' /\ single' \in [Task -> Verdicts \cup {"check", "select"}]
    BY <2>1
  <2> QED
    BY <2>1, <2>3, <2>4, <2>5
<1>9. ASSUME NEW t \in Task, Start(t) PROVE MInv' /\ MissedMeansDisturbed'
  BY <1>9 DEF Start
<1>10. ASSUME NEW t \in Task, Answer(t) PROVE MInv' /\ MissedMeansDisturbed'
  BY <1>10 DEF Answer
<1>11. ASSUME NEW t \in Task, Abandon(t) PROVE MInv' /\ MissedMeansDisturbed'
  BY <1>11 DEF Abandon
<1>12. ASSUME NEW t \in Task, Lookup(t) PROVE MInv' /\ MissedMeansDisturbed'
  <2>1. /\ job[t] = "lookup"
        /\ job' = [job EXCEPT ![t] = IF t[2] \in reg THEN "fetch" ELSE "send"]
        /\ missed' = IF t[2] \in reg THEN missed ELSE missed \cup {t[1]}
        /\ UNCHANGED <<loop, iterations, iter, reg, single, cancelled, disturbed>>
    BY <1>12 DEF Lookup, NoteMissed
  <2>2. t[1] \in Iter /\ (t[2] \notin reg => t[1] \in disturbed)
    BY <2>1
  <2>3. missed' \subseteq disturbed' /\ missed' \subseteq Iter
    <3>1. missed' \subseteq missed \cup {t[1]} /\ disturbed' = disturbed
      BY <2>1
    <3>2. missed \subseteq disturbed /\ missed \subseteq Iter
      OBVIOUS
    <3>3. CASE t[2] \in reg
      BY <2>1, <3>1, <3>2, <3>3
    <3>4. CASE t[2] \notin reg
      BY <2>2, <3>1, <3>2, <3>4
    <3> QED
      BY <3>3, <3>4
  <2>4. TaskInv' /\ job' \in [Task -> {"none", "lookup", "fetch", "send", "sent"}]
    BY <2>1
  <2> QED
    BY <2>1, <2>3, <2>4
<1>13. ASSUME NEW t \in Task, SendResult(t) PROVE MInv' /\ MissedMeansDisturbed'
  BY <1>13 DEF SendResult
<1>14. ASSUME NEW t \in Task, FetchEnds(t) PROVE MInv' /\ MissedMeansDisturbed'
  BY <1>14 DEF FetchEnds
<1> QED
  BY <1>1, <1>2, <1>3, <1>4, <1>5, <1>6, <1>7, <1>8, <1>9, <1>10, <1>11, <1>12, <1>13, <1>14 DEF ManagerNext, IterStep, SingleStep, JobStep

(* The invariant holds of every behaviour. *)
LEMMA ManagerInvariant == ManagerSpec => [](MInv /\ MissedMeansDisturbed)
<1> USE ManagerAssumption DEF Iter, Task
<1>1. ManagerInit => MInv /\ MissedMeansDisturbed
  <2> SUFFICES ASSUME ManagerInit PROVE MInv /\ MissedMeansDisturbed
    OBVIOUS
  <2>1. iterations = 0 /\ iter = [i \in Iter |-> "none"] /\ \A t \in Task : t[1] \in Iter
    BY DEF ManagerInit
  <2>2. ManagerTypeOK
    <3>1. reg \subseteq Keys
      BY DEF ManagerInit
    <3>2. single \in [Task -> Verdicts \cup {"check", "select"}]
      BY DEF ManagerInit, Verdicts
    <3>3. job \in [Task -> {"none", "lookup", "fetch", "send", "sent"}]
      BY DEF ManagerInit
    <3>4. iter \in [Iter -> {"none", "update", "keys", "wait", "ended"}]
      BY <2>1
    <3>5. loop \in {"select", "returned"} /\ cancelled \in BOOLEAN
      BY DEF ManagerInit
    <3>6. iterations \in 0..MaxIter
      BY <2>1
    <3>7. missed \subseteq Iter /\ disturbed \subseteq Iter
      BY DEF ManagerInit
    <3> QED
      BY <3>1, <3>2, <3>3, <3>4, <3>5, <3>6, <3>7 DEF ManagerTypeOK
  <2>3. TaskInv /\ ListInv
    BY <2>1 DEF ManagerInit, TaskInv, ListInv
  <2>4. MissedMeansDisturbed
    BY DEF ManagerInit, MissedMeansDisturbed
  <2> QED
    BY <2>2, <2>3, <2>4 DEF MInv
<1> QED
  BY <1>1, ManagerStep, PTL DEF ManagerSpec

(* Type correctness and the agreement of an iteration with its fetches:    *)
(* nothing of an iteration runs before its keys were read, a skipped       *)
(* fetcher is never fetched, and what an undisturbed iteration listed      *)
(* stays registered.                                                       *)
THEOREM ManagerMInv == ManagerSpec => []MInv
  BY ManagerInvariant, PTL

(* An iteration misses a fetcher it listed only if another iteration's     *)
(* Update took keys out of the map in between.                             *)
THEOREM ManagerMissedMeansDisturbed == ManagerSpec => []MissedMeansDisturbed
  BY ManagerInvariant, PTL

-----------------------------------------------------------------------------
(* The Kubernetes fetcher.                                                 *)

Running(c) == pc[c] \notin Over

(* Calls are numbered in the order in which they start, and the Once a     *)
(* call has taken has a smaller number than the call.                      *)
OrderInv ==
  /\ \A c, d \in Call : c < d /\ pc[d] # "none" => pc[c] # "none"
  /\ \A n \in Call : n <= lock => pc[n] # "none"
  /\ \A c \in Call : pc[c] # "none" => mine[c] < c /\ mine[c] <= lock

(* A Once is replaced exactly when initWatchers failed under it, and one   *)
(* call at a time, under the latest Once, is between the two.              *)
OnceInv ==
  /\ \A n \in Onces : n < lock => n \in failed
  /\ \A n \in Onces : n > lock => once[n] = "new"
  /\ \A n \in failed : once[n] = "done"
  /\ \A c \in Call : pc[c] = "init" => mine[c] = lock /\ once[lock] = "running"
  /\ \A c \in Call : pc[c] = "reset" => mine[c] = lock /\ lock \in failed
  /\ \A c, d \in Call : pc[c] \in {"init", "reset"} /\ pc[d] \in {"init", "reset"} => c = d
  /\ \A c \in Call : pc[c] = "collect" => once[mine[c]] = "done"

(* Watchers belong to Onces up to the latest; when initWatchers has ended  *)
(* under that one without an error, the list is complete.                  *)
WatcherInv ==
  /\ \A w \in watchers \cup live : w[1] <= lock
  /\ once[lock] = "done" /\ lock \notin failed => \A k \in Kind : <<lock, k>> \in watchers

(* Whoever used a Once that failed overlapped the call it failed for.      *)
OverlapInv ==
  /\ \A c, d \in Call : c # d /\ Running(c) /\ Running(d) => d \in overlaps[c]
  /\ \A n \in failed : \E d \in Call :
       /\ mine[d] = n /\ pc[d] \in {"reset", "failed"}
       /\ n = lock => pc[d] = "reset"
       /\ \A c \in Call : pc[c] \in {"do", "collect"} /\ mine[c] = n => d \in overlaps[c]

KInv == TypeOK /\ OrderInv /\ OnceInv /\ WatcherInv /\ OverlapInv /\ CompleteOrOverlapped

LEMMA KInit == Init => KInv
<1> SUFFICES ASSUME Init PROVE KInv
  OBVIOUS
<1>0. 0 \in Onces
  BY KubeAssumption DEF Onces
<1>1. TypeOK
  BY <1>0 DEF Init, TypeOK, Over
<1> USE KubeAssumption DEF Init, Call, Onces
<1>2. OrderInv /\ CompleteOrOverlapped
  BY DEF OrderInv, CompleteOrOverlapped
<1>3. OnceInv /\ WatcherInv
  BY DEF OnceInv, WatcherInv
<1>4. OverlapInv
  BY DEF OverlapInv, Running, Over
<1> QED
  BY <1>1, <1>2, <1>3, <1>4 DEF KInv

-----------------------------------------------------------------------------
(* Whoever has failed stays so, and an overlap is not forgotten.           *)
LEMMA KComplete ==
  ASSUME KInv,
         \A d \in Call : pc[d] \in {"reset", "failed"} => pc'[d] \in {"reset", "failed"},
         \A d \in Call : pc[d] = "done" => overlaps[d] \subseteq overlaps'[d],
         \A d \in Call : pc'[d] = "done" /\ reported'[d] # Kind => pc[d] = "done" /\ reported[d] # Kind
  PROVE  CompleteOrOverlapped'
<1> SUFFICES ASSUME NEW d \in Call, pc'[d] = "done", reported'[d] # Kind
             PROVE  \E e \in overlaps'[d] : pc'[e] \in {"reset", "failed"}
  BY DEF CompleteOrOverlapped
<1>1. PICK e \in overlaps[d] : pc[e] \in {"reset", "failed"}
  BY DEF KInv, CompleteOrOverlapped
<1>2. e \in Call
  BY <1>1 DEF KInv, TypeOK
<1> QED
  BY <1>1, <1>2

LEMMA KStutter ==
  ASSUME KInv, UNCHANGED <<pc, lock, once, mine, watchers, failed, overlaps, reported>>,
         live' \subseteq live, crashed' \in BOOLEAN
  PROVE  KInv'
  BY KubeAssumption
  DEF KInv, TypeOK, OrderInv, OnceInv, WatcherInv, OverlapInv, CompleteOrOverlapped, Running, Watcher

LEMMA KFetch ==
  ASSUME KInv, NEW c \in Call, Fetch(c)
  PROVE  KInv'
<1> USE KubeAssumption
<1>a. /\ pc[c] = "none" /\ \A d \in 1..(c - 1) : pc[d] # "none"
      /\ pc' \in [Call -> Over \cup {"do", "init", "reset", "collect"}]
      /\ pc'[c] = "do" /\ \A d \in Call \ {c} : pc'[d] = pc[d]
      /\ mine'[c] = lock /\ \A d \in Call \ {c} : mine'[d] = mine[d]
      /\ mine' \in [Call -> Onces]
  BY DEF KInv, TypeOK, Fetch, Goto, At
<1>b. /\ overlaps' \in [Call -> SUBSET Call]
      /\ overlaps'[c] = {e \in Call : Running(e)}
      /\ \A d \in Call \ {c} : overlaps'[d] = IF Running(d) THEN overlaps[d] \cup {c} ELSE overlaps[d]
  BY DEF KInv, TypeOK, Fetch, Running
<1>c. UNCHANGED <<lock, once, watchers, live, failed, reported, crashed>>
  BY DEF Fetch
<1>lt. lock < c
  BY <1>a DEF KInv, OrderInv, TypeOK, Call, Onces
<1>1. TypeOK'
  BY <1>a, <1>b, <1>c DEF KInv, TypeOK
<1>2. OrderInv'
  <2>1. \A d, e \in Call : d < e /\ pc'[e] # "none" => pc'[d] # "none"
    BY <1>a DEF KInv, OrderInv, Call
  <2>2. \A n \in Call : n <= lock' => pc'[n] # "none"
    BY <1>a, <1>c DEF KInv, OrderInv
  <2>3. \A d \in Call : pc'[d] # "none" => mine'[d] < d /\ mine'[d] <= lock'
    BY <1>a, <1>c, <1>lt DEF KInv, OrderInv, TypeOK, Onces
  <2> QED
    BY <2>1, <2>2, <2>3 DEF OrderInv
<1>3. OnceInv'
  BY <1>a, <1>c DEF KInv, OnceInv
<1>4. WatcherInv'
  BY <1>c DEF KInv, WatcherInv
<1>5. OverlapInv'
  <2>1. \A d, e \in Call : d # e /\ Running(d)' /\ Running(e)' => e \in overlaps'[d]
    BY <1>a, <1>b DEF KInv, OverlapInv, Running, Over
  <2>2. ASSUME NEW n \in failed
        PROVE  \E d \in Call :
                 /\ mine'[d] = n /\ pc'[d] \in {"reset", "failed"}
                 /\ n = lock => pc'[d] = "reset"
                 /\ \A e \in Call : pc'[e] \in {"do", "collect"} /\ mine'[e] = n => d \in overlaps'[e]
    <3>1. PICK d \in Call : /\ mine[d] = n /\ pc[d] \in {"reset", "failed"}
                            /\ n = lock => pc[d] = "reset"
                            /\ \A e \in Call : pc[e] \in {"do", "collect"} /\ mine[e] = n => d \in overlaps[e]
      BY DEF KInv, OverlapInv
    <3>2. d # c
      BY <3>1, <1>a
    <3>3. lock = n => d \in overlaps'[c]
      BY <3>1, <1>b DEF Running, Over
    <3> QED
      BY <3>1, <3>2, <3>3, <1>a, <1>b
  <2> QED
    BY <2>1, <2>2, <1>c DEF OverlapInv
<1>6. CompleteOrOverlapped'
  BY <1>a, <1>b, <1>c, KComplete
<1> QED
  BY <1>1, <1>2, <1>3, <1>4, <1>5, <1>6 DEF KInv

(* The steps of a call that is under way: it goes from one place to another *)
(* that is also running.                                                   *)
LEMMA KRuns ==
  ASSUME KInv, NEW c \in Call, Running(c),
         NEW to \in {"init", "reset", "collect"},
         pc' = [pc EXCEPT ![c] = to], to = "collect" => mine[c] \notin failed \/ pc[c] = "do",
         pc[c] \notin {"reset", "collect"},
         UNCHANGED <<lock, mine, overlaps, reported, failed>>
  PROVE  OrderInv' /\ OverlapInv' /\ CompleteOrOverlapped'
<1>a. /\ \A d \in Call \ {c} : pc'[d] = pc[d]
      /\ pc'[c] = to /\ pc[c] \in {"do", "init"}
  BY DEF KInv, TypeOK, Running
<1>1. OrderInv'
  BY <1>a DEF KInv, OrderInv, TypeOK
<1>2. OverlapInv'
  <2>1. \A d, e \in Call : d # e /\ Running(d)' /\ Running(e)' => e \in overlaps'[d]
    BY <1>a DEF KInv, OverlapInv, Running, Over
  <2>2. ASSUME NEW n \in failed
        PROVE  \E d \in Call :
                 /\ mine[d] = n /\ pc'[d] \in {"reset", "failed"}
                 /\ n = lock => pc'[d] = "reset"
                 /\ \A e \in Call : pc'[e] \in {"do", "collect"} /\ mine[e] = n => d \in overlaps[e]
    <3>1. PICK d \in Call : /\ mine[d] = n /\ pc[d] \in {"reset", "failed"}
                            /\ n = lock => pc[d] = "reset"
                            /\ \A e \in Call : pc[e] \in {"do", "collect"} /\ mine[e] = n => d \in overlaps[e]
      BY DEF KInv, OverlapInv
    <3> QED
      BY <3>1, <1>a
  <2> QED
    BY <2>1, <2>2 DEF OverlapInv
<1>3. CompleteOrOverlapped'
  BY <1>a, KComplete
<1> QED
  BY <1>1, <1>2, <1>3

LEMMA KDo ==
  ASSUME KInv, NEW c \in Call, Do(c)
  PROVE  KInv'
<1> USE KubeAssumption
<1>a. /\ pc[c] = "do" /\ once[mine[c]] = "new"
      /\ pc' \in [Call -> Over \cup {"do", "init", "reset", "collect"}]
      /\ pc' = [pc EXCEPT ![c] = "init"]
      /\ pc'[c] = "init" /\ \A d \in Call \ {c} : pc'[d] = pc[d]
      /\ once' \in [Onces -> {"new", "running", "done"}]
      /\ once'[mine[c]] = "running" /\ \A n \in Onces \ {mine[c]} : once'[n] = once[n]
      /\ watchers' = {}
  BY DEF KInv, TypeOK, Do, Goto, At
<1>b. UNCHANGED <<lock, mine, live, failed, overlaps, reported, crashed>>
  BY DEF Do
<1>n. mine[c] = lock /\ lock \in Onces /\ lock \notin failed
  <2>1. mine[c] \in Onces /\ lock \in Onces /\ mine[c] <= lock
    BY <1>a DEF KInv, TypeOK, OrderInv
  <2>2. mine[c] \notin failed
    BY <1>a DEF KInv, OnceInv
  <2> QED
    BY <2>1, <2>2 DEF KInv, OnceInv, Onces
<1>1. TypeOK'
  BY <1>a, <1>b DEF KInv, TypeOK
<1>2. OrderInv' /\ OverlapInv' /\ CompleteOrOverlapped'
  BY <1>a, <1>b, KRuns DEF Running, Over
<1>3. OnceInv'
  <2>1. \A d \in Call : pc[d] \notin {"init", "reset"}
    BY <1>a, <1>n DEF KInv, OnceInv
  <2>2. \A n \in Onces : n > lock => n # lock
    BY <1>n DEF Onces
  <2> QED
    BY <1>a, <1>b, <1>n, <2>1, <2>2 DEF KInv, OnceInv, TypeOK
<1>4. WatcherInv'
  BY <1>a, <1>b, <1>n DEF KInv, WatcherInv
<1> QED
  BY <1>1, <1>2, <1>3, <1>4 DEF KInv

LEMMA KDoReturns ==
  ASSUME KInv, NEW c \in Call, DoReturns(c)
  PROVE  KInv'
<1> USE KubeAssumption
<1>a. /\ pc[c] = "do" /\ once[mine[c]] = "done"
      /\ pc' \in [Call -> Over \cup {"do", "init", "reset", "collect"}]
      /\ pc' = [pc EXCEPT ![c] = "collect"]
      /\ pc'[c] = "collect" /\ \A d \in Call \ {c} : pc'[d] = pc[d]
  BY DEF KInv, TypeOK, DoReturns, Goto, At
<1>b. UNCHANGED <<lock, once, mine, watchers, live, failed, overlaps, reported, crashed>>
  BY DEF DoReturns
<1>1. TypeOK'
  BY <1>a, <1>b DEF KInv, TypeOK
<1>2. OrderInv' /\ OverlapInv' /\ CompleteOrOverlapped'
  BY <1>a, <1>b, KRuns DEF Running, Over
<1>3. OnceInv'
  BY <1>a, <1>b DEF KInv, OnceInv
<1>4. WatcherInv'
  BY <1>b DEF KInv, WatcherInv
<1> QED
  BY <1>1, <1>2, <1>3, <1>4 DEF KInv

LEMMA KInitWatcher ==
  ASSUME KInv, NEW c \in Call, InitWatcher(c)
  PROVE  KInv'
<1> USE KubeAssumption
<1>1. PICK k \in Kind : /\ watchers' = watchers \cup {<<mine[c], k>>}
                        /\ live' = live \cup {<<mine[c], k>>}
  BY DEF InitWatcher
<1>a. pc[c] = "init" /\ pc' = pc
  BY DEF InitWatcher, Goto, At, KInv, TypeOK
<1>b. UNCHANGED <<pc, lock, once, mine, failed, overlaps, reported, crashed>>
  BY <1>a DEF InitWatcher
<1>n. mine[c] = lock /\ lock \in Onces /\ once[lock] = "running"
  BY <1>a DEF KInv, TypeOK, OnceInv
<1>2. TypeOK'
  BY <1>1, <1>b, <1>n DEF KInv, TypeOK, Watcher
<1>3. WatcherInv'
  BY <1>1, <1>b, <1>n DEF KInv, WatcherInv, Onces
<1>4. OrderInv' /\ OnceInv' /\ OverlapInv' /\ CompleteOrOverlapped'
  BY <1>b DEF KInv, OrderInv, OnceInv, OverlapInv, CompleteOrOverlapped, Running
<1> QED
  BY <1>2, <1>3, <1>4 DEF KInv

LEMMA KInitFails ==
  ASSUME KInv, NEW c \in Call, InitFails(c)
  PROVE  KInv'
<1> USE KubeAssumption
<1>a. /\ pc[c] = "init"
      /\ pc' \in [Call -> Over \cup {"do", "init", "reset", "collect"}]
      /\ pc'[c] = "reset" /\ \A d \in Call \ {c} : pc'[d] = pc[d]
      /\ once' \in [Onces -> {"new", "running", "done"}]
      /\ once'[mine[c]] = "done" /\ \A n \in Onces \ {mine[c]} : once'[n] = once[n]
      /\ failed' = failed \cup {mine[c]}
  BY DEF KInv, TypeOK, InitFails, Goto, At
<1>b. UNCHANGED <<lock, mine, watchers, live, overlaps, reported, crashed>>
  BY DEF InitFails
<1>n. mine[c] = lock /\ lock \in Onces /\ once[lock] = "running" /\ lock \notin failed
  BY <1>a DEF KInv, TypeOK, OnceInv
<1>1. TypeOK'
  BY <1>a, <1>b, <1>n DEF KInv, TypeOK
<1>2. OrderInv'
  BY <1>a, <1>b DEF KInv, OrderInv, TypeOK
<1>3. OnceInv'
  <2>1. \A d \in Call \ {c} : pc[d] \notin {"init", "reset"}
    BY <1>a DEF KInv, OnceInv
  <2>2. \A n \in Onces : n > lock => n # lock
    BY <1>n DEF Onces
  <2> QED
    BY <1>a, <1>b, <1>n, <2>1, <2>2 DEF KInv, OnceInv, TypeOK
<1>4. WatcherInv'
  BY <1>a, <1>b, <1>n DEF KInv, WatcherInv
<1>5. OverlapInv'
  <2>1. \A d, e \in Call : d # e /\ Running(d)' /\ Running(e)' => e \in overlaps'[d]
    BY <1>a, <1>b DEF KInv, OverlapInv, Running, Over
  <2>2. \A e \in Call : pc'[e] \in {"do", "collect"} => c \in overlaps[e]
    BY <1>a DEF KInv, OverlapInv, Running, Over
  <2>3. ASSUME NEW n \in failed
        PROVE  \E d \in Call :
                 /\ mine[d] = n /\ pc'[d] \in {"reset", "failed"}
                 /\ n = lock => pc'[d] = "reset"
                 /\ \A e \in Call : pc'[e] \in {"do", "collect"} /\ mine[e] = n => d \in overlaps[e]
    <3>1. PICK d \in Call : /\ mine[d] = n /\ pc[d] \in {"reset", "failed"}
                            /\ n = lock => pc[d] = "reset"
                            /\ \A e \in Call : pc[e] \in {"do", "collect"} /\ mine[e] = n => d \in overlaps[e]
      BY DEF KInv, OverlapInv
    <3> QED
      BY <3>1, <1>a
  <2> QED
    BY <2>1, <2>2, <2>3, <1>a, <1>b, <1>n DEF OverlapInv
<1>6. CompleteOrOverlapped'
  BY <1>a, <1>b, KComplete
<1> QED
  BY <1>1, <1>2, <1>3, <1>4, <1>5, <1>6 DEF KInv

LEMMA KInitEnds ==
  ASSUME KInv, NEW c \in Call, InitEnds(c)
  PROVE  KInv'
<1> USE KubeAssumption
<1>a. /\ pc[c] = "init" /\ Started(c) = Kind
      /\ pc' \in [Call -> Over \cup {"do", "init", "reset", "collect"}]
      /\ pc' = [pc EXCEPT ![c] = "collect"]
      /\ pc'[c] = "collect" /\ \A d \in Call \ {c} : pc'[d] = pc[d]
      /\ once' \in [Onces -> {"new", "running", "done"}]
      /\ once'[mine[c]] = "done" /\ \A n \in Onces \ {mine[c]} : once'[n] = once[n]
  BY DEF KInv, TypeOK, InitEnds, Goto, At
<1>b. UNCHANGED <<lock, mine, watchers, live, failed, overlaps, reported, crashed>>
  BY DEF InitEnds
<1>n. mine[c] = lock /\ lock \in Onces /\ once[lock] = "running" /\ lock \notin failed
  BY <1>a DEF KInv, TypeOK, OnceInv
<1>1. TypeOK'
  BY <1>a, <1>b DEF KInv, TypeOK
<1>2. OrderInv' /\ OverlapInv' /\ CompleteOrOverlapped'
  BY <1>a, <1>b, <1>n, KRuns DEF Running, Over
<1>3. OnceInv'
  <2>1. \A d \in Call \ {c} : pc[d] \notin {"init", "reset"}
    BY <1>a DEF KInv, OnceInv
  <2>2. \A n \in Onces : n > lock => n # lock
    BY <1>n DEF Onces
  <2> QED
    BY <1>a, <1>b, <1>n, <2>1, <2>2 DEF KInv, OnceInv, TypeOK
<1>4. WatcherInv'
  BY <1>a, <1>b, <1>n DEF KInv, WatcherInv, Started
<1> QED
  BY <1>1, <1>2, <1>3, <1>4 DEF KInv

LEMMA KReset ==
  ASSUME KInv, NEW c \in Call, Reset(c)
  PROVE  KInv'
<1> USE KubeAssumption
<1>a. /\ pc[c] = "reset"
      /\ pc' \in [Call -> Over \cup {"do", "init", "reset", "collect"}]
      /\ pc'[c] = "failed" /\ \A d \in Call \ {c} : pc'[d] = pc[d]
      /\ lock' = lock + 1
  BY DEF KInv, TypeOK, Reset, Goto, At, Over
<1>b. UNCHANGED <<once, mine, watchers, live, failed, overlaps, reported, crashed>>
  BY DEF Reset
<1>n. /\ mine[c] = lock /\ lock \in Onces /\ once[lock] = "done"
      /\ lock < c /\ lock + 1 \in Onces /\ lock + 1 \in Call
  BY <1>a DEF KInv, TypeOK, OnceInv, OrderInv, Call, Onces
<1>1. TypeOK'
  BY <1>a, <1>b, <1>n DEF KInv, TypeOK
<1>f. lock \in failed
  BY <1>a DEF KInv, OnceInv
<1>2. OrderInv'
  <2>1. pc[lock + 1] # "none"
    BY <1>a, <1>n DEF KInv, OrderInv, Call, Onces
  <2>2. \A d \in Call : pc'[d] = "none" <=> pc[d] = "none"
    BY <1>a
  <2>3. \A n \in Call : n <= lock + 1 => pc[n] # "none"
    BY <1>n, <2>1 DEF KInv, OrderInv, Call, Onces
  <2>4. \A d \in Call : pc[d] # "none" => mine[d] < d /\ mine[d] <= lock + 1
    BY <1>n DEF KInv, OrderInv, TypeOK, Onces
  <2> QED
    BY <1>a, <1>b, <2>2, <2>3, <2>4 DEF KInv, OrderInv
<1>3. OnceInv'
  BY <1>a, <1>b, <1>n, <1>f DEF KInv, OnceInv, TypeOK, Onces
<1>4. WatcherInv'
  <2>1. once[lock + 1] = "new"
    BY <1>n DEF KInv, OnceInv, Onces
  <2>2. \A w \in watchers \cup live : w[1] \in Onces /\ w[1] <= lock
    BY DEF KInv, TypeOK, WatcherInv, Watcher
  <2> QED
    BY <1>a, <1>b, <1>n, <2>1, <2>2 DEF WatcherInv, Onces
<1>5. OverlapInv'
  <2>1. \A d, e \in Call : d # e /\ Running(d)' /\ Running(e)' => e \in overlaps'[d]
    BY <1>a, <1>b DEF KInv, OverlapInv, Running, Over
  <2>2. ASSUME NEW n \in failed
        PROVE  \E d \in Call :
                 /\ mine[d] = n /\ pc'[d] \in {"reset", "failed"}
                 /\ n = lock' => pc'[d] = "reset"
                 /\ \A e \in Call : pc'[e] \in {"do", "collect"} /\ mine[e] = n => d \in overlaps[e]
    <3>1. PICK d \in Call : /\ mine[d] = n /\ pc[d] \in {"reset", "failed"}
                            /\ \A e \in Call : pc[e] \in {"do", "collect"} /\ mine[e] = n => d \in overlaps[e]
      BY DEF KInv, OverlapInv
    <3>2. n # lock'
      BY <1>a, <1>n DEF KInv, OnceInv, Onces
    <3> QED
      BY <3>1, <3>2, <1>a
  <2> QED
    BY <2>1, <2>2, <1>b DEF OverlapInv
<1>6. CompleteOrOverlapped'
  BY <1>a, <1>b, KComplete
<1> QED
  BY <1>1, <1>2, <1>3, <1>4, <1>5, <1>6 DEF KInv

LEMMA KGetKubeData ==
  ASSUME KInv, NEW c \in Call, GetKubeData(c)
  PROVE  KInv'
<1> USE KubeAssumption
<1>a. /\ pc[c] = "collect"
      /\ pc' \in [Call -> Over \cup {"do", "init", "reset", "collect"}]
      /\ pc'[c] = "done" /\ \A d \in Call \ {c} : pc'[d] = pc[d]
      /\ reported' \in [Call -> SUBSET Kind]
      /\ reported'[c] = {w[2] : w \in watchers}
      /\ \A d \in Call \ {c} : reported'[d] = reported[d]
  <2>1. {w[2] : w \in watchers} \subseteq Kind
    BY DEF KInv, TypeOK, Watcher
  <2> QED
    BY <2>1 DEF KInv, TypeOK, GetKubeData, Goto, At, Over
<1>b. UNCHANGED <<lock, once, mine, watchers, live, failed, overlaps, crashed>>
  BY DEF GetKubeData
<1>n. mine[c] \in Onces /\ lock \in Onces /\ mine[c] <= lock /\ once[mine[c]] = "done"
  BY <1>a DEF KInv, TypeOK, OnceInv, OrderInv
<1>1. TypeOK'
  BY <1>a, <1>b DEF KInv, TypeOK
<1>2. OrderInv'
  BY <1>a, <1>b DEF KInv, OrderInv, TypeOK
<1>3. OnceInv' /\ WatcherInv'
  BY <1>a, <1>b DEF KInv, OnceInv, WatcherInv
<1>4. OverlapInv'
  <2>1. \A d, e \in Call : d # e /\ Running(d)' /\ Running(e)' => e \in overlaps'[d]
    BY <1>a, <1>b DEF KInv, OverlapInv, Running, Over
  <2>2. ASSUME NEW n \in failed
        PROVE  \E d \in Call :
                 /\ mine[d] = n /\ pc'[d] \in {"reset", "failed"}
                 /\ n = lock => pc'[d] = "reset"
                 /\ \A e \in Call : pc'[e] \in {"do", "collect"} /\ mine[e] = n => d \in overlaps[e]
    <3>1. PICK d \in Call : /\ mine[d] = n /\ pc[d] \in {"reset", "failed"}
                            /\ n = lock => pc[d] = "reset"
                            /\ \A e \in Call : pc[e] \in {"do", "collect"} /\ mine[e] = n => d \in overlaps[e]
      BY DEF KInv, OverlapInv
    <3> QED
      BY <3>1, <1>a
  <2> QED
    BY <2>1, <2>2, <1>b DEF OverlapInv
<1>5. CompleteOrOverlapped'
  <2>1. ASSUME mine[c] \in failed
        PROVE  \E d \in overlaps'[c] : pc'[d] \in {"reset", "failed"}
    <3>1. PICK d \in Call : pc[d] \in {"reset", "failed"} /\ d \in overlaps[c]
      BY <2>1, <1>a DEF KInv, OverlapInv
    <3> QED
      BY <3>1, <1>a, <1>b
  <2>2. ASSUME mine[c] \notin failed
        PROVE  reported'[c] = Kind
    <3>1. mine[c] = lock
      BY <2>2, <1>n DEF KInv, OnceInv, Onces
    <3>2. \A k \in Kind : <<lock, k>> \in watchers
      BY <3>1, <2>2, <1>n DEF KInv, WatcherInv
    <3>3. ASSUME NEW k \in Kind PROVE \E w \in watchers : k = w[2]
      BY <3>2
    <3> QED
      BY <3>3, <1>a DEF KInv, TypeOK, Watcher
  <2>3. ASSUME NEW d \in Call \ {c}, pc'[d] = "done", reported'[d] # Kind
        PROVE  \E e \in overlaps'[d] : pc'[e] \in {"reset", "failed"}
    <3>1. PICK e \in overlaps[d] : pc[e] \in {"reset", "failed"}
      BY <2>3, <1>a DEF KInv, CompleteOrOverlapped
    <3>2. e \in Call
      BY <3>1 DEF KInv, TypeOK
    <3> QED
      BY <3>1, <3>2, <1>a, <1>b
  <2> QED
    BY <2>1, <2>2, <2>3 DEF CompleteOrOverlapped
<1> QED
  BY <1>1, <1>2, <1>3, <1>4, <1>5 DEF KInv

-----------------------------------------------------------------------------
LEMMA KNext == KInv /\ [Next]_vars => KInv'
<1> SUFFICES ASSUME KInv, [Next]_vars PROVE KInv'
  OBVIOUS
<1>1. CASE UNCHANGED vars
  BY <1>1, KStutter DEF vars, KInv, TypeOK
<1>2. CASE Stop
  BY <1>2, KStutter DEF Stop, KInv, TypeOK
<1>3. ASSUME NEW c \in Call, NEW d \in Call, TornList(c, d)
      PROVE  KInv'
  BY <1>3, KStutter DEF TornList
<1>4. ASSUME NEW c \in Call,
             \/ Fetch(c) \/ Do(c) \/ DoReturns(c) \/ InitWatcher(c) \/ InitFails(c) \/ InitEnds(c)
             \/ Reset(c) \/ GetKubeData(c)
      PROVE  KInv'
  BY <1>4, KFetch, KDo, KDoReturns, KInitWatcher, KInitFails, KInitEnds, KReset, KGetKubeData
<1> QED
  BY <1>1, <1>2, <1>3, <1>4 DEF Next, Step

(* The inductive invariant of the Kubernetes fetcher.                      *)
THEOREM KubeInvariant == Spec => []KInv
  BY KInit, KNext, PTL DEF Spec

(* Type correctness; each Once that is made was asked for by a call.       *)
THEOREM KubeTypeOK == Spec => []TypeOK
<1>1. KInv => TypeOK
  BY DEF KInv
<1> QED
  BY <1>1, KubeInvariant, PTL

(* A Fetch that returns without error reported every kind, unless it       *)
(* overlapped one whose watchers failed.                                   *)
THEOREM KubeComplete == Spec => []CompleteOrOverlapped
<1>1. KInv => CompleteOrOverlapped
  BY DEF KInv
<1> QED
  BY <1>1, KubeInvariant, PTL

(* No kind is watched twice, but for the leftovers of failed attempts.     *)
THEOREM KubeWatchedOnce == Spec => []WatchedOnce
<1>1. KInv => WatchedOnce
  <2> SUFFICES ASSUME KInv, NEW v \in live, NEW w \in live, v[2] = w[2], v # w
               PROVE  v[1] \in failed \/ w[1] \in failed
    BY DEF WatchedOnce
  <2>1. v \in Onces \X Kind /\ w \in Onces \X Kind /\ lock \in Onces
    BY DEF KInv, TypeOK, Watcher
  <2>2. v[1] # w[1]
    BY <2>1
  <2>3. v[1] <= lock /\ w[1] <= lock
    BY DEF KInv, WatcherInv
  <2> QED
    BY <2>1, <2>2, <2>3, KubeAssumption DEF KInv, OnceInv, Onces
<1> QED
  BY <1>1, KubeInvariant, PTL
=============================================================================
