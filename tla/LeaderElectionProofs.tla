------------------------ MODULE LeaderElectionProofs ------------------------
(***************************************************************************)
(* Proofs about leader election: ElectionInv is inductive, for any number  *)
(* of electors, and with it what Stop and the WaitGroup promise.           *)
(***************************************************************************)
EXTENDS LeaderElection, TLAPS

(* What happens to the goroutine of one elector leaves the others alone. *)
LEMMA MovesEffect ==
  ASSUME TypeOK, NEW e \in Elector, NEW from, NEW to \in {"off", "stopped", "rerun", "adding",
         "done", "gone"} \cup Contending, Moves(e, from, to)
  PROVE  /\ ~crashed /\ elector[e] = from /\ elector'[e] = to
         /\ elector' \in [Elector -> {"off", "stopped", "rerun", "adding", "done", "gone"}
                                     \cup Contending]
         /\ \A f \in Elector : f # e => elector'[f] = elector[f]
  BY DEF Moves, TypeOK

(* Only the last two electors count. *)
LEMMA Through ==
  ASSUME ElectionInv, wg = 0, cancelled, ~overlap
  PROVE  \A e \in Elector : ~Alive(e)
<1>1. last \in 0..MaxElectors /\ MaxElectors \in Nat /\ added \subseteq Elector
  BY ElectorAssumption DEF ElectionInv, TypeOK
<1>2. \A e \in Elector : e \in Int /\ e >= 1 /\ e <= MaxElectors
  BY <1>1 DEF Elector
<1>3. ~Between
  BY DEF ElectionInv, CancelInv
<1>4. last > 0 => last \in Elector /\ last \in added
  <2>1. CASE last = 1
    BY <2>1, <1>1, <1>3 DEF ElectionInv, RunInv, Between, Elector
  <2>2. CASE last > 1
    <3>1. last \in Elector /\ last - 1 \in Elector /\ last - 1 < last /\ (last - 1) + 1 = last
      BY <2>2, <1>1 DEF Elector
    <3>2. elector[last - 1] # "adding"
      BY <3>1, <1>3 DEF Between
    <3> QED
      BY <3>1, <3>2 DEF ElectionInv, ElectorInv
  <2> QED
    BY <2>1, <2>2, <1>1
<1>5. last > 1 => last - 1 \in Elector /\ last - 1 \in added
  BY <1>1 DEF ElectionInv, ElectorInv, Elector
<1>6. Count(last) \in {0, 1} /\ Count(last - 1) \in {0, 1}
  BY <1>1, <1>4, <1>5 DEF Count
<1>7. Count(last) = 0 /\ Count(last - 1) = 0
  BY <1>6 DEF ElectionInv, WgInv
<1>8. (last > 0 => elector[last] = "gone") /\ (last > 1 => elector[last - 1] = "gone")
  BY <1>1, <1>4, <1>5, <1>7 DEF Count
<1> SUFFICES ASSUME NEW e \in Elector PROVE elector[e] \in {"off", "gone"}
  BY DEF Alive
<1>9. CASE e > last
  BY <1>9 DEF ElectionInv, ElectorInv
<1>10. CASE e = last \/ e = last - 1
  BY <1>10, <1>8, <1>2, <1>1
<1>11. CASE e + 1 < last
  BY <1>11 DEF ElectionInv, ElectorInv
<1> QED
  BY <1>9, <1>10, <1>11, <1>1, <1>2

(* The initial state satisfies the invariant. *)
LEMMA ElectionInit == Init => ElectionInv /\ PanicsInWindow
<1> SUFFICES ASSUME Init PROVE ElectionInv /\ PanicsInWindow
  OBVIOUS
<1>1. MaxElectors \in Nat /\ \A e \in Elector : e \in Int /\ e >= 1
  BY ElectorAssumption DEF Elector
<1>2. TypeOK
  <2>1. last \in 0..MaxElectors
    BY <1>1 DEF Init
  <2>2. elector \in [Elector -> {"off", "stopped", "rerun", "adding", "done", "gone"}
                               \cup Contending]
    BY DEF Init
  <2>3. {cancelSet, cancelled, overlap, crashed} \subseteq BOOLEAN
    BY DEF Init
  <2> QED
    BY <2>1, <2>2, <2>3 DEF Init, TypeOK
<1>3. ElectorInv /\ RunInv
  BY <1>1 DEF Init, ElectorInv, RunInv
<1>4. WgInv /\ CancelInv /\ WaitInv
  BY DEF Init, WgInv, CancelInv, WaitInv, Count
<1> QED
  BY <1>2, <1>3, <1>4 DEF Init, ElectionInv, PanicsInWindow

(* Every step preserves it. *)
LEMMA ElectionStep ==
  ElectionInv /\ PanicsInWindow /\ [Next]_vars => (ElectionInv /\ PanicsInWindow)'
<1> SUFFICES ASSUME ElectionInv, PanicsInWindow, [Next]_vars
             PROVE  (ElectionInv /\ PanicsInWindow)'
  OBVIOUS
<1>inv. TypeOK /\ ElectorInv /\ RunInv /\ WgInv /\ CancelInv /\ WaitInv
  BY DEF ElectionInv
<1>num. /\ last \in 0..MaxElectors /\ MaxElectors \in Nat /\ MaxElectors >= 1
        /\ \A e \in Elector : e \in Int /\ e >= 1 /\ e <= MaxElectors
  BY <1>inv, ElectorAssumption DEF TypeOK, Elector
<1>type. /\ elector \in [Elector -> {"off", "stopped", "rerun", "adding", "done", "gone"}
                                     \cup Contending]
         /\ added \subseteq Elector /\ wg \in Int
  BY <1>inv DEF TypeOK
<1>win. stop \in {"released", "electorStopped", "returned"} /\ ~overlap => ~Between
  BY <1>inv DEF CancelInv
<1>between. /\ run \in {"idle", "configured", "started"} => Between
            /\ \A e \in Elector : elector[e] \in {"rerun", "adding"} => Between
  BY DEF Between
<1>last. \A e \in Elector : elector[e] \in Contending \cup {"stopped", "rerun"} => e = last
  BY <1>inv, <1>num DEF ElectorInv, Contending
<1>1. CASE Configure
  <2>1. TypeOK'
    BY <1>1, <1>inv, <1>num DEF TypeOK, Configure, electors, stopVars, Contending, Elector
  <2>2. ElectorInv'
    BY <1>1, <1>inv, <1>num DEF ElectorInv, Settled, Configure, electors, stopVars, Contending, Elector
  <2>3. RunInv'
    BY <1>1, <1>inv, <1>num DEF RunInv, Configure, electors, stopVars
  <2>4. WgInv'
    BY <1>1, <1>inv, <1>num DEF WgInv, Count, Configure, electors, stopVars, Contending, Elector
  <2>5. CancelInv'
    BY <1>1, <1>inv, <1>num DEF CancelInv, Between, Configure, electors, stopVars, Contending, Elector
  <2>6. WaitInv'
    BY <1>1, <1>inv, <1>num DEF WaitInv, Count, WgInv, Between, Configure, electors, stopVars
  <2>7. PanicsInWindow'
    BY <1>1, <1>inv, <1>num DEF PanicsInWindow, Between, Configure, electors, stopVars
  <2> QED
    BY <2>1, <2>2, <2>3, <2>4, <2>5, <2>6, <2>7 DEF ElectionInv
<1>2. CASE Start
  <2>a. /\ run = "configured" /\ run' = "started" /\ last = 0 /\ last' = 1 /\ 1 \in Elector
        /\ elector' = [elector EXCEPT ![1] = "campaign"]
        /\ added' = added /\ wg' = wg
        /\ UNCHANGED <<cancelSet, cancelled, stop, overlap>>
    BY <1>2, <1>inv, <1>num DEF Start, stopVars, RunInv, Elector
  <2>b. /\ elector'[1] = "campaign" /\ \A e \in Elector : e # 1 => elector'[e] = elector[e]
        /\ \A e \in Elector : elector[e] = "off" /\ e \notin added
    BY <2>a, <1>inv, <1>num, <1>type DEF ElectorInv
  <2>1. TypeOK'
    BY <1>2, <1>inv, <1>num DEF TypeOK, Start, electors, stopVars, Contending, Elector
  <2>2. ElectorInv'
    BY <2>a, <2>b, <1>inv, <1>num DEF ElectorInv
  <2>3. RunInv'
    BY <2>a, <2>b, <1>inv DEF RunInv
  <2>4. WgInv'
    BY <2>a, <2>b, <1>inv DEF WgInv, Count
  <2>5. CancelInv'
    BY <1>2, <1>inv, <1>num DEF CancelInv, Between, Start, electors, stopVars, Contending, Elector
  <2>6. WaitInv'
    BY <1>2, <1>inv, <1>num DEF WaitInv, Count, WgInv, Between, Start, electors, stopVars
  <2>7. PanicsInWindow'
    BY <1>2, <1>inv, <1>num DEF PanicsInWindow, Between, Start, electors, stopVars
  <2> QED
    BY <2>1, <2>2, <2>3, <2>4, <2>5, <2>6, <2>7 DEF ElectionInv
<1>3. CASE AddFirst
  <2>a. /\ run = "started" /\ run' = "sleep" /\ last' = last /\ elector' = elector
        /\ added' = {1} /\ wg' = wg + 1 /\ 1 \in Elector /\ 1 \notin added
        /\ UNCHANGED <<cancelSet, cancelled, stop, overlap>>
    BY <1>3, <1>inv, <1>num DEF AddFirst, stopVars, RunInv, Elector
  <2>b. last = 1
    BY <2>a, <1>inv, <1>num DEF ElectorInv, RunInv
  <2>c. \A e \in Elector : e # 1 => e \notin added
    BY <2>b, <1>inv, <1>num DEF ElectorInv
  <2>d. \A e \in Elector : e + 1 # 1
    BY <1>num
  <2>1. TypeOK'
    BY <1>3, <1>inv, <1>num DEF TypeOK, AddFirst, electors, stopVars, Contending, Elector
  <2>2. ElectorInv'
    BY <2>a, <2>b, <2>c, <2>d, <1>inv, <1>num DEF ElectorInv, Settled
  <2>3. RunInv'
    BY <1>3, <1>inv, <1>num DEF RunInv, AddFirst, electors, stopVars
  <2>4. WgInv'
    BY <2>a, <2>b, <2>c, <1>inv DEF WgInv, Count
  <2>5. CancelInv'
    BY <1>3, <1>inv, <1>num DEF CancelInv, Between, AddFirst, electors, stopVars, Contending, Elector
  <2>6. WaitInv'
    BY <2>a, <1>win, <1>between DEF WaitInv
  <2>7. PanicsInWindow'
    BY <1>3, <1>inv, <1>num DEF PanicsInWindow, Between, AddFirst, electors, stopVars
  <2> QED
    BY <2>1, <2>2, <2>3, <2>4, <2>5, <2>6, <2>7 DEF ElectionInv
<1>4. CASE RunReturns
  <2>1. TypeOK'
    BY <1>4, <1>inv, <1>num DEF TypeOK, RunReturns, electors, stopVars, Contending, Elector
  <2>2. ElectorInv'
    BY <1>4, <1>inv, <1>num DEF ElectorInv, Settled, RunReturns, electors, stopVars, Contending, Elector
  <2>3. RunInv'
    BY <1>4, <1>inv, <1>num DEF RunInv, RunReturns, electors, stopVars
  <2>4. WgInv'
    BY <1>4, <1>inv, <1>num DEF WgInv, Count, RunReturns, electors, stopVars, Contending, Elector
  <2>5. CancelInv'
    BY <1>4, <1>inv, <1>num DEF CancelInv, Between, RunReturns, electors, stopVars, Contending, Elector
  <2>6. WaitInv'
    BY <1>4, <1>inv, <1>num DEF WaitInv, Count, WgInv, Between, RunReturns, electors, stopVars
  <2>7. PanicsInWindow'
    BY <1>4, <1>inv, <1>num DEF PanicsInWindow, Between, RunReturns, electors, stopVars
  <2> QED
    BY <2>1, <2>2, <2>3, <2>4, <2>5, <2>6, <2>7 DEF ElectionInv
<1>5. CASE StopCancels
  <2>a. /\ stop = "idle" /\ overlap' = Between
        /\ \/ cancelSet /\ cancelled' = TRUE /\ stop' = "wait"
           \/ ~cancelSet /\ stop' = "electorStopped" /\ cancelled' = cancelled
        /\ UNCHANGED <<run, last, elector, added, wg, cancelSet, crashed>>
    BY <1>5 DEF StopCancels, electors
  <2>b. Between' = Between /\ (~cancelSet => Between)
    BY <2>a, <1>inv DEF Between, RunInv
  <2>c. ~cancelled
    BY <2>a, <1>inv DEF CancelInv
  <2>1. TypeOK'
    <3>1. cancelled' \in BOOLEAN /\ Between \in BOOLEAN
      BY <2>a, <1>inv DEF TypeOK, Between
    <3> QED
      BY <2>a, <1>inv, <3>1 DEF TypeOK
  <2>2. ElectorInv'
    BY <1>5, <1>inv, <1>num DEF ElectorInv, Settled, StopCancels, electors, stopVars, Contending, Elector
  <2>3. RunInv'
    BY <1>5, <1>inv, <1>num DEF RunInv, StopCancels, electors, stopVars
  <2>4. WgInv'
    BY <1>5, <1>inv, <1>num DEF WgInv, Count, StopCancels, electors, stopVars, Contending, Elector
  <2>5. CancelInv'
    BY <2>a, <2>b, <2>c DEF CancelInv
  <2>6. WaitInv'
    BY <2>a, <2>b DEF WaitInv
  <2>7. PanicsInWindow'
    BY <1>5, <1>inv, <1>num DEF PanicsInWindow, Between, StopCancels, electors, stopVars
  <2> QED
    BY <2>1, <2>2, <2>3, <2>4, <2>5, <2>6, <2>7 DEF ElectionInv
<1>6. CASE Wait
  <2>1. TypeOK'
    BY <1>6, <1>inv, <1>num DEF TypeOK, Wait, electors, stopVars, Contending, Elector
  <2>2. ElectorInv'
    BY <1>6, <1>inv, <1>num DEF ElectorInv, Settled, Wait, electors, stopVars, Contending, Elector
  <2>3. RunInv'
    BY <1>6, <1>inv, <1>num DEF RunInv, Wait, electors, stopVars
  <2>4. WgInv'
    BY <1>6, <1>inv, <1>num DEF WgInv, Count, Wait, electors, stopVars, Contending, Elector
  <2>5. CancelInv'
    BY <1>6, <1>inv, <1>num DEF CancelInv, Between, Wait, electors, stopVars, Contending, Elector
  <2>6. WaitInv'
    BY <1>6, <1>inv, <1>num DEF WaitInv, Count, WgInv, Between, Wait, electors, stopVars
  <2>7. PanicsInWindow'
    BY <1>6, <1>inv, <1>num DEF PanicsInWindow, Between, Wait, electors, stopVars
  <2> QED
    BY <2>1, <2>2, <2>3, <2>4, <2>5, <2>6, <2>7 DEF ElectionInv
<1>7. CASE WaitReturns
  <2>1. TypeOK'
    BY <1>7, <1>inv, <1>num DEF TypeOK, WaitReturns, electors, stopVars, Contending, Elector
  <2>2. ElectorInv'
    BY <1>7, <1>inv, <1>num DEF ElectorInv, Settled, WaitReturns, electors, stopVars, Contending, Elector
  <2>3. RunInv'
    BY <1>7, <1>inv, <1>num DEF RunInv, WaitReturns, electors, stopVars
  <2>4. WgInv'
    BY <1>7, <1>inv, <1>num DEF WgInv, Count, WaitReturns, electors, stopVars, Contending, Elector
  <2>5. CancelInv'
    BY <1>7, <1>inv, <1>num DEF CancelInv, Between, WaitReturns, electors, stopVars, Contending, Elector
  <2>6. WaitInv'
    BY <1>7, <1>inv, <1>num DEF WaitInv, Count, WgInv, Between, WaitReturns, electors, stopVars
  <2>7. PanicsInWindow'
    <3>1. wg # 0 => overlap
      BY <1>7, <1>inv DEF WaitReturns, WaitInv
    <3>2. (wg # 0 \/ crashed' = crashed) /\ overlap' = overlap
      BY <1>7 DEF WaitReturns
    <3> QED
      BY <3>1, <3>2 DEF PanicsInWindow
  <2> QED
    BY <2>1, <2>2, <2>3, <2>4, <2>5, <2>6, <2>7 DEF ElectionInv
<1>8. CASE StopReturns
  <2>1. TypeOK'
    BY <1>8, <1>inv, <1>num DEF TypeOK, StopReturns, electors, stopVars, Contending, Elector
  <2>2. ElectorInv'
    BY <1>8, <1>inv, <1>num DEF ElectorInv, Settled, StopReturns, electors, stopVars, Contending, Elector
  <2>3. RunInv'
    BY <1>8, <1>inv, <1>num DEF RunInv, StopReturns, electors, stopVars
  <2>4. WgInv'
    BY <1>8, <1>inv, <1>num DEF WgInv, Count, StopReturns, electors, stopVars, Contending, Elector
  <2>5. CancelInv'
    BY <1>8, <1>inv, <1>num DEF CancelInv, Between, StopReturns, electors, stopVars, Contending, Elector
  <2>6. WaitInv'
    BY <1>8, <1>inv, <1>num DEF WaitInv, Count, WgInv, Between, StopReturns, electors, stopVars
  <2>7. PanicsInWindow'
    BY <1>8, <1>inv, <1>num DEF PanicsInWindow, Between, StopReturns, electors, stopVars
  <2> QED
    BY <2>1, <2>2, <2>3, <2>4, <2>5, <2>6, <2>7 DEF ElectionInv
<1>9. ASSUME NEW e \in Elector, Acquire(e)
      PROVE  (ElectionInv /\ PanicsInWindow)'
  <2>1. TypeOK'
    BY <1>9, <1>inv, <1>num DEF TypeOK, Acquire, Moves, stopVars, Contending, Elector
  <2>2. ElectorInv'
    BY <1>9, <1>inv, <1>num DEF ElectorInv, Settled, Acquire, Moves, stopVars, Contending, Elector
  <2>3. RunInv'
    BY <1>9, <1>inv, <1>num DEF RunInv, Acquire, Moves, stopVars
  <2>4. WgInv'
    BY <1>9, <1>inv, <1>num DEF WgInv, Count, Acquire, Moves, stopVars, Contending, Elector
  <2>5. CancelInv'
    BY <1>9, <1>inv, <1>num DEF CancelInv, Between, Acquire, Moves, stopVars, Contending, Elector
  <2>6. WaitInv'
    BY <1>9, <1>inv, <1>num DEF WaitInv, Count, WgInv, Between, Acquire, Moves, stopVars
  <2>7. PanicsInWindow'
    BY <1>9, <1>inv, <1>num DEF PanicsInWindow, Between, Acquire, Moves, stopVars
  <2> QED
    BY <2>1, <2>2, <2>3, <2>4, <2>5, <2>6, <2>7 DEF ElectionInv
<1>10. ASSUME NEW e \in Elector, Lose(e)
      PROVE  (ElectionInv /\ PanicsInWindow)'
  <2>1. TypeOK'
    BY <1>10, <1>inv, <1>num DEF TypeOK, Lose, Moves, stopVars, Contending, Elector
  <2>2. ElectorInv'
    BY <1>10, <1>inv, <1>num DEF ElectorInv, Settled, Lose, Moves, stopVars, Contending, Elector
  <2>3. RunInv'
    BY <1>10, <1>inv, <1>num DEF RunInv, Lose, Moves, stopVars
  <2>4. WgInv'
    BY <1>10, <1>inv, <1>num DEF WgInv, Count, Lose, Moves, stopVars, Contending, Elector
  <2>5. CancelInv'
    BY <1>10, <1>inv, <1>num DEF CancelInv, Between, Lose, Moves, stopVars, Contending, Elector
  <2>6. WaitInv'
    BY <1>10, <1>inv, <1>num DEF WaitInv, Count, WgInv, Between, Lose, Moves, stopVars
  <2>7. PanicsInWindow'
    BY <1>10, <1>inv, <1>num DEF PanicsInWindow, Between, Lose, Moves, stopVars
  <2> QED
    BY <2>1, <2>2, <2>3, <2>4, <2>5, <2>6, <2>7 DEF ElectionInv
<1>11. ASSUME NEW e \in Elector, ContextDone(e)
      PROVE  (ElectionInv /\ PanicsInWindow)'
  <2>1. TypeOK'
    BY <1>11, <1>inv, <1>num DEF TypeOK, ContextDone, Moves, stopVars, Contending, Elector
  <2>2. ElectorInv'
    BY <1>11, <1>inv, <1>num DEF ElectorInv, Settled, ContextDone, Moves, stopVars, Contending, Elector
  <2>3. RunInv'
    BY <1>11, <1>inv, <1>num DEF RunInv, ContextDone, Moves, stopVars
  <2>4. WgInv'
    BY <1>11, <1>inv, <1>num DEF WgInv, Count, ContextDone, Moves, stopVars, Contending, Elector
  <2>5. CancelInv'
    BY <1>11, <1>inv, <1>num DEF CancelInv, Between, ContextDone, Moves, stopVars, Contending, Elector
  <2>6. WaitInv'
    BY <1>11, <1>inv, <1>num DEF WaitInv, Count, WgInv, Between, ContextDone, Moves, stopVars
  <2>7. PanicsInWindow'
    BY <1>11, <1>inv, <1>num DEF PanicsInWindow, Between, ContextDone, Moves, stopVars
  <2> QED
    BY <2>1, <2>2, <2>3, <2>4, <2>5, <2>6, <2>7 DEF ElectionInv
<1>12. ASSUME NEW e \in Elector, StoppedLeading(e)
      PROVE  (ElectionInv /\ PanicsInWindow)'
  <2>1. TypeOK'
    BY <1>12, <1>inv, <1>num DEF TypeOK, StoppedLeading, Moves, stopVars, Contending, Elector
  <2>2. ElectorInv'
    <3>1. /\ elector[e] = "stopped" /\ e = last
          /\ elector' = [elector EXCEPT ![e] = IF cancelled THEN "done" ELSE "rerun"]
          /\ UNCHANGED <<last, added, cancelled>>
      BY <1>12, <1>last DEF StoppedLeading, Moves, stopVars
    <3>2. /\ elector'[e] = IF cancelled THEN "done" ELSE "rerun"
          /\ \A f \in Elector : f # e => elector'[f] = elector[f]
      BY <3>1, <1>type
    <3>3. ~cancelled => Settled(e) /\ Settled(e)'
      <4>1. ~cancelled => Settled(e)
        BY <3>1, <1>inv DEF ElectorInv
      <4>2. e > 1 => e - 1 \in Elector /\ e - 1 # e
        BY <1>num DEF Elector
      <4> QED
        BY <4>1, <4>2, <3>1, <3>2 DEF Settled
    <3> SUFFICES ASSUME NEW f \in Elector
                 PROVE  ElectorInv!(f)'
      BY DEF ElectorInv
    <3>4. CASE f = e
      BY <3>4, <3>1, <3>2, <3>3, <1>inv, <1>num DEF ElectorInv
    <3>5. CASE f # e
      BY <3>5, <3>1, <3>2, <1>inv, <1>num, <1>last DEF ElectorInv, Settled
    <3> QED
      BY <3>4, <3>5
  <2>3. RunInv'
    BY <1>12, <1>inv, <1>num DEF RunInv, StoppedLeading, Moves, stopVars
  <2>4. WgInv'
    BY <1>12, <1>inv, <1>num DEF WgInv, Count, StoppedLeading, Moves, stopVars, Contending, Elector
  <2>5. CancelInv'
    BY <1>12, <1>inv, <1>num DEF CancelInv, Between, StoppedLeading, Moves, stopVars, Contending, Elector
  <2>6. WaitInv'
    BY <1>12, <1>inv, <1>num DEF WaitInv, Count, WgInv, Between, StoppedLeading, Moves, stopVars
  <2>7. PanicsInWindow'
    BY <1>12, <1>inv, <1>num DEF PanicsInWindow, Between, StoppedLeading, Moves, stopVars
  <2> QED
    BY <2>1, <2>2, <2>3, <2>4, <2>5, <2>6, <2>7 DEF ElectionInv
<1>13. ASSUME NEW e \in Elector, Rerun(e)
      PROVE  (ElectionInv /\ PanicsInWindow)'
  <2>a. /\ elector[e] = "rerun" /\ e = last /\ last' = e + 1
        /\ elector' = [elector EXCEPT ![e] = "adding", ![e + 1] = "campaign"]
        /\ UNCHANGED <<run, added, wg, cancelSet, cancelled, stop, overlap>>
    BY <1>13, <1>last DEF Rerun, stopVars
  <2>b. e < MaxElectors /\ e \in added /\ (e > 1 => elector[e - 1] = "gone")
    BY <2>a, <1>inv DEF ElectorInv, Settled
  <2>c. e + 1 \in Elector /\ e + 1 # e /\ e + 1 \in 0..MaxElectors
    BY <2>b, <1>num DEF Elector
  <2>d. /\ elector'[e] = "adding" /\ elector'[e + 1] = "campaign"
        /\ \A f \in Elector : f # e /\ f # e + 1 => elector'[f] = elector[f]
    BY <2>a, <2>c, <1>type
  <2>e. e + 1 \notin added /\ elector[e + 1] = "off"
    BY <2>a, <2>c, <1>inv, <1>num DEF ElectorInv
  <2>g. e \in Int /\ last = e /\ last' = e + 1 /\ added' = added /\ cancelled' = cancelled
    BY <2>a, <1>num
  <2>1. TypeOK'
    <3>1. elector' \in [Elector -> {"off", "stopped", "rerun", "adding", "done", "gone"}
                                   \cup Contending]
      BY <2>a, <2>c, <1>type DEF Contending
    <3> QED
      BY <2>a, <2>c, <1>13, <1>inv, <3>1 DEF TypeOK, Rerun
  <2>2. ElectorInv'
    <3> SUFFICES ASSUME NEW f \in Elector
                 PROVE  ElectorInv!(f)'
      BY DEF ElectorInv
    <3>1. CASE f = e
      <4>1. e < e + 1 /\ e + 1 # e /\ ~(e + 1 < e + 1)
        BY <2>g
      <4>2. elector[e - 1]' = elector[e - 1] \/ e <= 1
        <5>1. e > 1 => e - 1 \in Elector /\ e - 1 # e /\ e - 1 # e + 1
          BY <1>num DEF Elector
        <5> QED
          BY <5>1, <2>d, <2>g
      <4>3. Settled(e)'
        BY <4>2, <2>b, <2>g DEF Settled
      <4> QED
        BY <3>1, <4>1, <4>3, <2>b, <2>d, <2>e, <2>g
    <3>2. CASE f = e + 1
      BY <3>2, <2>a, <2>b, <2>c, <2>d, <2>e, <1>num, <1>inv DEF ElectorInv
    <3>3. CASE f < e
      <4>1. e > 1 /\ f # e /\ f # e + 1 /\ elector'[f] = elector[f] /\ f < last
        <5>1. f >= 1 /\ f \in Int
          BY <1>num
        <5>2. e > 1 /\ f # e /\ f # e + 1 /\ f < last
          BY <5>1, <3>3, <2>g
        <5> QED
          BY <5>2, <2>d
      <4>2. f + 1 = e => elector[f] = "gone"
        <5>1. f + 1 = e => f = e - 1
          BY <1>num
        <5> QED
          BY <4>1, <2>b, <5>1
      <4>3. f + 1 < e => elector[f] = "gone"
        BY <2>a, <1>inv DEF ElectorInv
      <4>4. elector[f] = "gone"
        BY <4>2, <4>3, <3>3, <1>num
      <4> QED
        BY <4>1, <4>4, <3>3, <2>a, <1>inv, <1>num DEF ElectorInv
    <3>4. CASE f > e + 1
      <4>1. f # e /\ f # e + 1 /\ f > last /\ f > last'
        BY <3>4, <2>g, <1>num
      <4>2. elector'[f] = "off" /\ f \notin added'
        BY <4>1, <2>d, <2>g, <1>inv DEF ElectorInv
      <4> QED
        BY <4>1, <4>2, <2>g, <1>num
    <3> QED
      BY <3>1, <3>2, <3>3, <3>4, <1>num
  <2>3. RunInv'
    BY <2>a, <1>inv, <1>num DEF RunInv
  <2>4. WgInv'
    <3>1. Count(e - 1) = 0
      <4>1. e > 1 => e - 1 \in Elector /\ e - 1 < last
        BY <2>a, <1>num DEF Elector
      <4>2. e > 1 => e - 1 \in added
        BY <4>1, <1>inv DEF ElectorInv
      <4> QED
        BY <4>2, <2>b, <1>num DEF Count
    <3>2. Count(e) = 1 /\ Count(e)' = 1 /\ Count(e + 1)' = 0
      BY <2>a, <2>b, <2>c, <2>d, <2>e, <1>num DEF Count
    <3>3. (e + 1) - 1 = e
      BY <1>num
    <3> QED
      BY <3>1, <3>2, <3>3, <2>a, <1>inv DEF WgInv, Count
  <2>5. CancelInv'
    BY <1>13, <1>inv, <1>num DEF CancelInv, Between, Rerun, Moves, stopVars, Contending, Elector
  <2>6. WaitInv'
    BY <1>13, <1>inv, <1>num DEF WaitInv, Count, WgInv, Between, Rerun, Moves, stopVars
  <2>7. PanicsInWindow'
    BY <1>13, <1>inv, <1>num DEF PanicsInWindow, Between, Rerun, Moves, stopVars
  <2> QED
    BY <2>1, <2>2, <2>3, <2>4, <2>5, <2>6, <2>7 DEF ElectionInv
<1>14. ASSUME NEW e \in Elector, AddNext(e)
      PROVE  (ElectionInv /\ PanicsInWindow)'
  <2>a. /\ elector[e] = "adding" /\ elector' = [elector EXCEPT ![e] = "done"]
        /\ added' = added \cup {e + 1} /\ wg' = wg + 1
        /\ UNCHANGED <<run, last, cancelSet, cancelled, stop, overlap>>
    BY <1>14 DEF AddNext, Moves, stopVars
  <2>b. e + 1 = last /\ e < last /\ e + 1 \notin added /\ e \in added
    BY <2>a, <1>inv, <1>num DEF ElectorInv
  <2>c. e + 1 \in Elector /\ e + 1 # e /\ e = last - 1
    BY <2>b, <1>num DEF Elector
  <2>d. elector'[e] = "done" /\ \A f \in Elector : f # e => elector'[f] = elector[f]
    BY <2>a, <1>type
  <2>1. TypeOK'
    <3>1. elector' \in [Elector -> {"off", "stopped", "rerun", "adding", "done", "gone"}
                                   \cup Contending]
      BY <2>a, <1>type
    <3>2. wg + 1 \in Int
      BY <1>type
    <3> QED
      BY <2>a, <2>c, <3>1, <3>2, <1>14, <1>inv DEF TypeOK, AddNext
  <2>2. ElectorInv'
    <3> SUFFICES ASSUME NEW f \in Elector
                 PROVE  ElectorInv!(f)'
      BY DEF ElectorInv
    <3>1. CASE f = e
      BY <3>1, <2>a, <2>b, <2>d, <1>num
    <3>2. CASE f = e + 1
      <4>1. elector[f] \notin {"rerun", "stopped"} \/ cancelled
        BY <3>2, <2>b, <1>inv DEF ElectorInv, Settled
      <4>2. elector[f] # "rerun"
        BY <3>2, <2>b, <1>inv DEF ElectorInv, Settled
      <4> QED
        BY <3>2, <4>1, <4>2, <2>a, <2>b, <2>c, <2>d, <1>num, <1>inv DEF ElectorInv
    <3>3. CASE f < e
      <4>1. elector[f] = "gone" /\ f \in added /\ f # e /\ f + 1 # e + 1 /\ f + 1 < last
        BY <3>3, <2>b, <1>inv, <1>num DEF ElectorInv
      <4> QED
        BY <4>1, <3>3, <2>a, <2>b, <2>d, <1>inv, <1>num DEF ElectorInv
    <3>4. CASE f > e + 1
      BY <3>4, <2>a, <2>b, <2>d, <1>num, <1>inv DEF ElectorInv
    <3> QED
      BY <3>1, <3>2, <3>3, <3>4, <1>num
  <2>3. RunInv'
    BY <1>14, <1>inv, <1>num DEF RunInv, AddNext, Moves, stopVars
  <2>4. WgInv'
    <3>1. Count(last)' = Count(last) + 1 /\ Count(last - 1)' = Count(last - 1)
      BY <2>a, <2>b, <2>c, <2>d, <1>num DEF Count
    <3>2. Count(last) \in Int /\ Count(last - 1) \in Int
      BY DEF Count
    <3> QED
      BY <3>1, <3>2, <2>a, <1>inv DEF WgInv
  <2>5. CancelInv'
    BY <1>14, <1>inv, <1>num DEF CancelInv, Between, AddNext, Moves, stopVars, Contending, Elector
  <2>6. WaitInv'
    BY <2>a, <1>win, <1>between DEF WaitInv
  <2>7. PanicsInWindow'
    BY <1>14, <1>inv, <1>num DEF PanicsInWindow, Between, AddNext, Moves, stopVars
  <2> QED
    BY <2>1, <2>2, <2>3, <2>4, <2>5, <2>6, <2>7 DEF ElectionInv
<1>15. ASSUME NEW e \in Elector, Done(e)
      PROVE  (ElectionInv /\ PanicsInWindow)'
  <2>a. /\ elector[e] = "done" /\ elector' = [elector EXCEPT ![e] = "gone"]
        /\ wg' = wg - 1 /\ crashed' = (wg = 0) /\ ~crashed
        /\ stop' = IF wg = 1 /\ stop = "waiting" THEN "released" ELSE stop
        /\ UNCHANGED <<run, last, added, cancelSet, cancelled, overlap>>
    BY <1>15 DEF Done, Moves
  <2>b. elector'[e] = "gone" /\ \A f \in Elector : f # e => elector'[f] = elector[f]
    BY <2>a, <1>type
  <2>c. e = last \/ e = last - 1
    BY <2>a, <1>inv, <1>num DEF ElectorInv
  <2>d. Count(last) \in Int /\ Count(last - 1) \in Int
    BY DEF Count
  <2>e. Count(e)' = Count(e) - 1 /\ \A f \in {last, last - 1} : f # e => Count(f)' = Count(f)
    <3>1. Count(e)' = Count(e) - 1
      BY <2>a, <2>b, <1>num DEF Count
    <3>2. ASSUME NEW f \in {last, last - 1}, f # e PROVE Count(f)' = Count(f)
      <4>1. f < 1 \/ f \in Elector
        BY <1>num DEF Elector
      <4> QED
        BY <4>1, <3>2, <2>a, <2>b DEF Count
    <3> QED
      BY <3>1, <3>2
  <2>f. wg = 0 => overlap
    <3> SUFFICES ASSUME ~overlap PROVE wg >= 1
      BY <1>type
    <3>1. e = last => ~Between
      BY <2>a, <1>inv DEF ElectorInv, CancelInv
    <3>2. last \in Elector /\ last > 0
      BY <2>c, <1>num DEF Elector
    <3>3. e < last => e \in added /\ e + 1 \in added
      BY <2>a, <1>inv DEF ElectorInv
    <3>4. last \in added
      <4>1. CASE e = last - 1
        BY <4>1, <3>3, <1>num
      <4>2. CASE e = last /\ last = 1
        BY <4>2, <3>1, <1>inv, <1>between DEF RunInv
      <4>3. CASE e = last /\ last > 1
        <5>1. last - 1 \in Elector /\ last - 1 < last /\ (last - 1) + 1 = last
          BY <4>3, <1>num DEF Elector
        <5>2. elector[last - 1] # "adding"
          BY <4>3, <5>1, <3>1, <1>between
        <5> QED
          BY <5>1, <5>2, <1>inv DEF ElectorInv
      <4> QED
        BY <4>1, <4>2, <4>3, <2>c, <1>num
    <3>5. last > 1 => last - 1 \in added
      BY <3>2, <1>inv, <1>num DEF ElectorInv, Elector
    <3>6. Count(last) >= 0 /\ Count(last - 1) >= 0
      BY <3>4, <3>5, <1>num DEF Count
    <3>7. Count(e) = 1
      BY <3>3, <3>4, <2>a, <2>c, <1>num DEF Count
    <3> QED
      BY <3>6, <3>7, <2>c, <2>d, <1>inv DEF WgInv
  <2>1. TypeOK'
    BY <1>15, <1>inv, <1>num DEF TypeOK, Done, Moves, stopVars, Contending, Elector
  <2>2. ElectorInv'
    BY <1>15, <1>inv, <1>num DEF ElectorInv, Settled, Done, Moves, stopVars, Contending, Elector
  <2>3. RunInv'
    BY <1>15, <1>inv, <1>num DEF RunInv, Done, Moves, stopVars
  <2>4. WgInv'
    <3>1. last # last - 1
      BY <1>num
    <3> QED
      BY <3>1, <2>a, <2>c, <2>d, <2>e, <1>inv DEF WgInv
  <2>5. CancelInv'
    BY <1>15, <1>inv, <1>num DEF CancelInv, Between, Done, Moves, stopVars, Contending, Elector
  <2>6. WaitInv'
    <3>1. stop \in {"released", "electorStopped", "returned"} /\ ~overlap => wg = 0
      BY <1>inv DEF WaitInv
    <3> QED
      BY <3>1, <2>a, <2>f, <1>type DEF WaitInv
  <2>7. PanicsInWindow'
    BY <2>a, <2>f DEF PanicsInWindow
  <2> QED
    BY <2>1, <2>2, <2>3, <2>4, <2>5, <2>6, <2>7 DEF ElectionInv
<1>16. CASE UNCHANGED vars
  <2>1. TypeOK'
    BY <1>16, <1>inv, <1>num DEF TypeOK, vars, electors, stopVars, Contending, Elector
  <2>2. ElectorInv'
    BY <1>16, <1>inv, <1>num DEF ElectorInv, Settled, vars, electors, stopVars, Contending, Elector
  <2>3. RunInv'
    BY <1>16, <1>inv, <1>num DEF RunInv, vars, electors, stopVars
  <2>4. WgInv'
    BY <1>16, <1>inv, <1>num DEF WgInv, Count, vars, electors, stopVars, Contending, Elector
  <2>5. CancelInv'
    BY <1>16, <1>inv, <1>num DEF CancelInv, Between, vars, electors, stopVars, Contending, Elector
  <2>6. WaitInv'
    BY <1>16, <1>inv, <1>num DEF WaitInv, Count, WgInv, Between, vars, electors, stopVars
  <2>7. PanicsInWindow'
    BY <1>16, <1>inv, <1>num DEF PanicsInWindow, Between, vars, electors, stopVars
  <2> QED
    BY <2>1, <2>2, <2>3, <2>4, <2>5, <2>6, <2>7 DEF ElectionInv
<1> QED
  BY <1>1, <1>2, <1>3, <1>4, <1>5, <1>6, <1>7, <1>8, <1>9, <1>10, <1>11, <1>12, <1>13, <1>14, <1>15, <1>16 DEF Next, RunStep, StopStep, Callback

-----------------------------------------------------------------------------
(* The electors, the WaitGroup and the context agree, however many electors *)
(* are started.                                                            *)
THEOREM LeaderElectionInv == Spec => []ElectionInv
  BY ElectionInit, ElectionStep, PTL DEF Spec

(* The WaitGroup of the electors panics only if Stop came between the      *)
(* start of an elector and its wg.Add.                                     *)
THEOREM LeaderElectionPanics == Spec => []PanicsInWindow
  BY ElectionInit, ElectionStep, PTL DEF Spec

(* When Stop has come outside that window, and has returned, no elector    *)
(* is left.                                                                *)
THEOREM LeaderElectionStopBlocks == Spec => []StopBlocks
<1>1. ElectionInv => StopBlocks
  <2> SUFFICES ASSUME ElectionInv, stop \in {"electorStopped", "returned"}, ~overlap
               PROVE  \A e \in Elector : ~Alive(e)
    BY DEF StopBlocks
  <2>1. wg = 0 /\ cancelled
    BY DEF ElectionInv, WaitInv, CancelInv
  <2> QED
    BY <2>1, Through
<1> QED
  BY <1>1, LeaderElectionInv, PTL
-----------------------------------------------------------------------------
(* The counter is never negative, and not zero while Stop waits for it.    *)
StillCounting == ~crashed => wg >= 0 /\ (stop = "waiting" => wg > 0)

(* Add only counts up; Done at one releases Stop, and at zero it panics.   *)
LEMMA CountingStep == TypeOK /\ StillCounting /\ [Next]_vars => StillCounting'
<1> SUFFICES ASSUME TypeOK, StillCounting, [Next]_vars PROVE StillCounting'
  OBVIOUS
<1> USE DEF StillCounting
<1>wg. wg \in Int
  BY DEF TypeOK
<1>1. CASE Wait \/ WaitReturns \/ StopReturns \/ StopCancels
  BY <1>1, <1>wg DEF Wait, WaitReturns, StopReturns, StopCancels, electors
<1>2. CASE AddFirst
  BY <1>2, <1>wg DEF AddFirst, stopVars
<1>3. ASSUME NEW e \in Elector, AddNext(e) PROVE StillCounting'
  BY <1>3, <1>wg DEF AddNext, Moves, stopVars
<1>4. ASSUME NEW e \in Elector, Done(e) PROVE StillCounting'
  <2>1. ~crashed /\ wg' = wg - 1 /\ wg >= 0
    BY <1>4 DEF Done, Moves
  <2>2. CASE wg = 0
    <3>1. crashed'
      BY <1>4, <2>2 DEF Done
    <3> QED
      BY <3>1
  <2>3. CASE wg # 0
    <3>1. stop' = "waiting" => wg # 1
      BY <1>4 DEF Done
    <3> QED
      BY <1>wg, <2>1, <2>3, <3>1
  <2> QED
    BY <2>2, <2>3
<1>5. CASE Configure \/ Start \/ RunReturns
  BY <1>5 DEF Configure, Start, RunReturns, electors, stopVars
<1>6. ASSUME NEW e \in Elector,
             Acquire(e) \/ Lose(e) \/ ContextDone(e) \/ StoppedLeading(e) \/ Rerun(e)
      PROVE  StillCounting'
  BY <1>6 DEF Acquire, Lose, ContextDone, StoppedLeading, Rerun, stopVars
<1>7. CASE UNCHANGED vars
  BY <1>7 DEF vars, electors, stopVars
<1> QED
  BY <1>1, <1>2, <1>3, <1>4, <1>5, <1>6, <1>7 DEF Next, RunStep, StopStep, Callback

(* Whenever Stop waits, an elector that the WaitGroup counts can go on: no *)
(* Done is missed, and no elector waits for the lease any more.            *)
THEOREM LeaderElectionStopNeverStuck == Spec => []StopNeverStuck
<1>1. Init => StillCounting
  BY DEF Init, StillCounting
<1>2. ElectionInv => TypeOK
  BY DEF ElectionInv
<1>3. ElectionInv /\ StillCounting => StopNeverStuck
  <2> SUFFICES ASSUME ElectionInv, StillCounting, stop = "waiting", ~crashed
               PROVE  \E e \in added : CanStep(e)
    BY DEF StopNeverStuck
  <2>1. last \in 0..MaxElectors /\ MaxElectors \in Nat /\ added \subseteq Elector /\ cancelled
    BY ElectorAssumption DEF ElectionInv, TypeOK, CancelInv
  <2>2. Count(last) + Count(last - 1) > 0
    BY DEF StillCounting, ElectionInv, WgInv
  <2>3. Count(last) \in Int /\ Count(last - 1) \in Int
    BY DEF Count
  <2>4. PICK e \in {last, last - 1} : Count(e) > 0
    BY <2>2, <2>3
  <2>5. e >= 1 /\ e \in added /\ elector[e] # "gone"
    BY <2>1, <2>4 DEF Count
  <2>6. elector[e] # "off"
    BY <2>1, <2>5 DEF ElectionInv, ElectorInv, Elector
  <2> QED
    BY <2>1, <2>5, <2>6 DEF CanStep, Alive
<1> QED
  BY <1>1, <1>2, <1>3, CountingStep, LeaderElectionInv, PTL DEF Spec
=============================================================================
