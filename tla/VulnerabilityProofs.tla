------------------------ MODULE VulnerabilityProofs ------------------------
(***************************************************************************)
(* Proofs about the vulnerability flavor: VInv is inductive, and with it   *)
(* the promises about snapshots, pipelines and events.                     *)
(***************************************************************************)
EXTENDS Vulnerability, TLAPS

(* The promises, which VInv makes inductive. *)
Promises == NoUseAfterDelete /\ NoSnapshotForgotten /\ OnePipeline /\ NothingLost

Place == {"off", "work", "select", "send", "closed"}
Thing == Instances \cup Snapshot

(* The five stages, as numbers. *)
LEMMA Stages ==
  /\ Stage = {1, 2, 3, 4, 5} /\ Iter \subseteq Nat
  /\ Fetch = 1 /\ Replicate = 2 /\ Verify = 3 /\ Scan = 4 /\ Create = 5
  BY VulnerabilityAssumption DEF Stage, Iter, Fetch, Replicate, Verify, Scan, Create

(* A worker's own snapshots are snapshots, of that worker. *)
LEMMA OwnSnapshots == \A i \in Iter : \A s \in Own(i) : s \in Snapshot /\ s[1] = i
  BY DEF Own, Snapshot

(* Every snapshot is some worker's own. *)
LEMMA SnapshotOwner == \A s \in Snapshot : s[1] \in Iter /\ s \in Own(s[1])
  BY DEF Own, Snapshot

(* Goto moves one goroutine, and leaves the others where they are. *)
LEMMA GotoEffect ==
  ASSUME TypeOK, NEW i \in Iter, NEW g \in Stage, NEW a \in Place, NEW h \in SUBSET Thing,
         Goto(i, g, a, h)
  PROVE  /\ at' \in [Iter -> [Stage -> Place]] /\ at'[i][g] = a
         /\ hand' \in [Iter -> [Stage -> SUBSET Thing]] /\ hand'[i][g] = h
         /\ \A j \in Iter, f \in Stage : j # i \/ f # g =>
              at'[j][f] = at[j][f] /\ hand'[j][f] = hand[j][f]
<1>1. at \in [Iter -> [Stage -> Place]] /\ hand \in [Iter -> [Stage -> SUBSET Thing]]
  BY DEF TypeOK, Place, Thing
<1>2. at' = [at EXCEPT ![i][g] = a] /\ hand' = [hand EXCEPT ![i][g] = h]
  BY DEF Goto
<1>3. at' \in [Iter -> [Stage -> Place]] /\ hand' \in [Iter -> [Stage -> SUBSET Thing]]
  BY <1>1, <1>2
<1> QED
  BY <1>1, <1>2, <1>3

(* A rendezvous moves a thing from a goroutine to the next one. *)
LEMMA HandoverEffect ==
  ASSUME TypeOK, NEW i \in Iter, NEW g \in Fetch..Scan, Handover(i, g)
  PROVE  \E x \in hand[i][g] :
         /\ at[i][g] = "send" /\ at[i][g + 1] = "select"
         /\ at' \in [Iter -> [Stage -> Place]] /\ hand' \in [Iter -> [Stage -> SUBSET Thing]]
         /\ at'[i][g + 1] = "work" /\ hand'[i][g + 1] = {x}
         /\ hand'[i][g] = hand[i][g] \ {x}
         /\ at'[i][g] = "send" \/ (at'[i][g] \in {"select", "closed"} /\ hand'[i][g] = {})
         /\ at'[i][g] = "closed" => g = Fetch
         /\ \A j \in Iter, f \in Stage : j # i \/ f \notin {g, g + 1} =>
              at'[j][f] = at[j][f] /\ hand'[j][f] = hand[j][f]
<1>1. at \in [Iter -> [Stage -> Place]] /\ hand \in [Iter -> [Stage -> SUBSET Thing]]
  BY DEF TypeOK, Place, Thing
<1>2. g \in Stage /\ g + 1 \in Stage /\ g # g + 1
  BY DEF Stage, Fetch, Scan, Create
<1> DEFINE rest(x) == hand[i][g] \ {x}
           next(x) == IF rest(x) # {} THEN "send" ELSE IF g = Fetch THEN "closed" ELSE "select"
<1>3. PICK x \in hand[i][g] :
         /\ at' = [at EXCEPT ![i][g] = next(x), ![i][g + 1] = "work"]
         /\ hand' = [hand EXCEPT ![i][g] = rest(x), ![i][g + 1] = {x}]
  BY DEF Handover
<1>4. at[i][g] = "send" /\ at[i][g + 1] = "select"
  BY DEF Handover
<1>5. x \in Thing /\ rest(x) \in SUBSET Thing /\ next(x) \in Place
  BY <1>1, <1>2 DEF Place
<1> HIDE DEF next
<1>6. /\ at' \in [Iter -> [Stage -> Place]] /\ at'[i][g + 1] = "work" /\ at'[i][g] = next(x)
      /\ \A j \in Iter, f \in Stage : j # i \/ f \notin {g, g + 1} => at'[j][f] = at[j][f]
  BY <1>1, <1>2, <1>3, <1>5 DEF Place
<1>7. /\ hand' \in [Iter -> [Stage -> SUBSET Thing]]
      /\ hand'[i][g + 1] = {x} /\ hand'[i][g] = rest(x)
      /\ \A j \in Iter, f \in Stage : j # i \/ f \notin {g, g + 1} => hand'[j][f] = hand[j][f]
  BY <1>1, <1>2, <1>3, <1>5
<1>8. /\ next(x) = "send" \/ (next(x) \in {"select", "closed"} /\ rest(x) = {})
      /\ next(x) = "closed" => g = Fetch
  <2>1. CASE rest(x) = {}
    BY <2>1 DEF next
  <2>2. CASE rest(x) # {}
    <3>1. next(x) = "send"
      BY <2>2 DEF next
    <3> QED
      BY <3>1
  <2> QED
    BY <2>1, <2>2
<1> QED
  BY <1>4, <1>6, <1>7, <1>8

-----------------------------------------------------------------------------
(* The initial state satisfies the invariant and the promises. *)
LEMMA VulnerabilityInit == Init => VInv /\ Promises
<1> SUFFICES ASSUME Init PROVE VInv /\ Promises
  OBVIOUS
<1> USE VulnerabilityAssumption, Stages DEF Init
<1>1. TypeOK
  <2>1. iterations \in 0..MaxIter
    BY SMT
  <2>2. at \in [Iter -> [Stage -> {"off", "work", "select", "send", "closed"}]]
    OBVIOUS
  <2>3. hand \in [Iter -> [Stage -> SUBSET (Instances \cup Snapshot)]]
    OBVIOUS
  <2>4. /\ worker \in [Iter -> {"none", "starting", "pipeline", "clean", "deleting", "ended"}]
        /\ listed \in [Iter -> SUBSET Snapshot]
    OBVIOUS
  <2> QED
    BY <2>1, <2>2, <2>3, <2>4 DEF TypeOK
<1>2. \A i \in Iter, g \in Stage : at[i][g] = "off" /\ hand[i][g] = {}
  OBVIOUS
<1>3. HandInv /\ PhaseInv /\ CycleInv /\ ChainInv
  BY <1>2 DEF HandInv, PhaseInv, CycleInv, ChainInv, Running
<1>4. ListInv /\ NoUseAfterDelete
  BY <1>2 DEF ListInv, NoUseAfterDelete, InUse
<1>5. DeliveryInv /\ NothingLost /\ NoSnapshotForgotten
  BY DEF DeliveryInv, NothingLost, NoSnapshotForgotten
<1>6. OnePipeline
  BY <1>2 DEF OnePipeline, Running
<1> QED
  BY <1>1, <1>3, <1>4, <1>5, <1>6 DEF VInv, Promises

(* The next-state relation preserves the invariant and the promises. *)
LEMMA VulnerabilityStep == VInv /\ Promises /\ [Next]_vars => VInv' /\ Promises'
<1> SUFFICES ASSUME VInv, Promises, [Next]_vars
             PROVE  (VInv /\ Promises)'
  OBVIOUS
<1>inv. /\ TypeOK /\ HandInv /\ PhaseInv /\ ListInv /\ CycleInv /\ ChainInv /\ DeliveryInv
        /\ NoUseAfterDelete /\ NoSnapshotForgotten /\ OnePipeline
  BY DEF VInv, Promises
<1>places. {"send", "select", "closed"} \subseteq Place /\ Fetch..Create = Stage
  BY DEF Place, Stage
<1>lost. DeliveryInv' => NothingLost'
  BY DEF DeliveryInv, NothingLost
<1>1. CASE IterationStarts
  <2>a. /\ repeater = "select" /\ repeater' = "handle"
        /\ iterations' = iterations + 1 /\ iterations + 1 \in Iter
        /\ iterations \in Nat /\ iterations + 1 \in 0..MaxIter
        /\ worker' \in [Iter -> {"none", "starting", "pipeline", "clean", "deleting", "ended"}]
        /\ worker[iterations + 1] = "none" /\ worker'[iterations + 1] = "starting"
        /\ \A j \in Iter : j # iterations + 1 => worker'[j] = worker[j]
    BY <1>1, <1>inv, VulnerabilityAssumption, Stages DEF IterationStarts, TypeOK,
       PhaseInv, At, Iter
  <2>b. UNCHANGED <<buffer, unpublished, cancelled, at, hand, listed, undeleted>>
    BY <1>1 DEF IterationStarts, flavor
  <2>r. \A j \in Iter : Running(j)' <=> Running(j)
    BY <2>b DEF Running
  <2>w. \A j \in Iter : OnTheWay(j) \subseteq OnTheWay(j)'
    BY <1>inv, <2>a, <2>b, Stages DEF OnTheWay, HandInv
  <2>u. \A j \in Iter : InUse(j)' \subseteq InUse(j)
    BY <1>inv, <2>a, <2>b, Stages DEF InUse, HandInv
  <2>1. TypeOK'
    BY <1>inv, <2>a, <2>b, OwnSnapshots DEF TypeOK, Place, Thing
  <2>2. HandInv'
    BY <1>inv, <2>a, <2>b, Stages DEF HandInv
  <2>3. (PhaseInv /\ OnePipeline)'
    BY <1>inv, <2>a, <2>b, Stages, <2>r DEF PhaseInv, OnePipeline
  <2>4. CycleInv'
    BY <1>inv, <2>a, <2>b, Stages, <2>r DEF CycleInv
  <2>5. ChainInv'
    BY <1>inv, <2>a, <2>b, Stages DEF ChainInv
  <2>6. ListInv'
    BY <1>inv, <2>a, <2>b, Stages DEF ListInv, InUse
  <2>7. NoUseAfterDelete'
    BY <1>inv, <2>a, <2>b, <2>u DEF NoUseAfterDelete
  <2>8. NoSnapshotForgotten'
    BY <1>inv, <2>a, <2>b, SnapshotOwner DEF NoSnapshotForgotten, ListInv, TypeOK
  <2>9. DeliveryInv'
    BY <1>inv, <2>a, <2>b, <2>w DEF DeliveryInv, PhaseInv
  <2> QED
    BY <2>1, <2>2, <2>3, <2>4, <2>5, <2>6, <2>7, <2>8, <2>9, <1>lost DEF VInv, Promises
<1>2. CASE IterationFails
  <2>a. /\ iterations' = iterations + 1 /\ iterations + 1 \in Iter
        /\ iterations \in Nat /\ iterations + 1 \in 0..MaxIter
        /\ cancelled' = TRUE /\ repeater' = "returned"
    BY <1>2, <1>inv, VulnerabilityAssumption, Stages DEF IterationFails, TypeOK,
       Iter
  <2>b. UNCHANGED <<buffer, unpublished, worker, at, hand, listed, undeleted>>
    BY <1>2 DEF IterationFails, flavor
  <2>r. \A j \in Iter : Running(j)' <=> Running(j)
    BY <2>b DEF Running
  <2>w. \A j \in Iter : OnTheWay(j) \subseteq OnTheWay(j)'
    BY <1>inv, <2>a, <2>b, Stages DEF OnTheWay, HandInv
  <2>u. \A j \in Iter : InUse(j)' \subseteq InUse(j)
    BY <1>inv, <2>a, <2>b, Stages DEF InUse, HandInv
  <2>1. TypeOK'
    BY <1>inv, <2>a, <2>b, OwnSnapshots DEF TypeOK, Place, Thing
  <2>2. HandInv'
    BY <1>inv, <2>a, <2>b, Stages DEF HandInv
  <2>3. (PhaseInv /\ OnePipeline)'
    BY <1>inv, <2>a, <2>b, Stages, <2>r DEF PhaseInv, OnePipeline
  <2>4. CycleInv'
    BY <1>inv, <2>a, <2>b, Stages, <2>r DEF CycleInv
  <2>5. ChainInv'
    BY <1>inv, <2>a, <2>b, Stages DEF ChainInv
  <2>6. ListInv'
    BY <1>inv, <2>a, <2>b, Stages DEF ListInv, InUse
  <2>7. NoUseAfterDelete'
    BY <1>inv, <2>a, <2>b, <2>u DEF NoUseAfterDelete
  <2>8. NoSnapshotForgotten'
    BY <1>inv, <2>a, <2>b DEF NoSnapshotForgotten
  <2>9. DeliveryInv'
    BY <1>inv, <2>a, <2>b, <2>w DEF DeliveryInv, PhaseInv
  <2> QED
    BY <2>1, <2>2, <2>3, <2>4, <2>5, <2>6, <2>7, <2>8, <2>9, <1>lost DEF VInv, Promises
<1>3. CASE RepeaterReturns
  <2>a. /\ cancelled /\ repeater = "select" /\ repeater' = "returned"
    BY <1>3, <1>inv, VulnerabilityAssumption, Stages DEF RepeaterReturns, TypeOK
  <2>b. UNCHANGED <<iterations, buffer, unpublished, cancelled, worker, at, hand, listed, undeleted>>
    BY <1>3 DEF RepeaterReturns, flavor
  <2>r. \A j \in Iter : Running(j)' <=> Running(j)
    BY <2>b DEF Running
  <2>w. \A j \in Iter : OnTheWay(j) \subseteq OnTheWay(j)'
    BY <1>inv, <2>a, <2>b, Stages DEF OnTheWay, HandInv
  <2>u. \A j \in Iter : InUse(j)' \subseteq InUse(j)
    BY <1>inv, <2>a, <2>b, Stages DEF InUse, HandInv
  <2>1. TypeOK'
    BY <1>inv, <2>a, <2>b, OwnSnapshots DEF TypeOK, Place, Thing
  <2>2. HandInv'
    BY <1>inv, <2>a, <2>b, Stages DEF HandInv
  <2>3. (PhaseInv /\ OnePipeline)'
    BY <1>inv, <2>a, <2>b, Stages, <2>r DEF PhaseInv, OnePipeline
  <2>4. CycleInv'
    BY <1>inv, <2>a, <2>b, Stages, <2>r DEF CycleInv
  <2>5. ChainInv'
    BY <1>inv, <2>a, <2>b, Stages DEF ChainInv
  <2>6. ListInv'
    BY <1>inv, <2>a, <2>b, Stages DEF ListInv, InUse
  <2>7. NoUseAfterDelete'
    BY <1>inv, <2>a, <2>b, <2>u DEF NoUseAfterDelete
  <2>8. NoSnapshotForgotten'
    BY <1>inv, <2>a, <2>b DEF NoSnapshotForgotten
  <2>9. DeliveryInv'
    BY <1>inv, <2>a, <2>b, <2>w DEF DeliveryInv, PhaseInv
  <2> QED
    BY <2>1, <2>2, <2>3, <2>4, <2>5, <2>6, <2>7, <2>8, <2>9, <1>lost DEF VInv, Promises
<1>4. CASE Flush
  <2>a. /\ repeater = "handle" /\ buffer' = {} /\ unpublished' = unpublished \ buffer
    BY <1>4, <1>inv, VulnerabilityAssumption, Stages DEF Flush, TypeOK
  <2>b. UNCHANGED <<repeater, iterations, cancelled, worker, at, hand, listed, undeleted>>
    BY <1>4 DEF Flush, flavor
  <2>r. \A j \in Iter : Running(j)' <=> Running(j)
    BY <2>b DEF Running
  <2>w. \A j \in Iter : OnTheWay(j) \subseteq OnTheWay(j)'
    BY <1>inv, <2>a, <2>b, Stages DEF OnTheWay, HandInv
  <2>u. \A j \in Iter : InUse(j)' \subseteq InUse(j)
    BY <1>inv, <2>a, <2>b, Stages DEF InUse, HandInv
  <2>1. TypeOK'
    BY <1>inv, <2>a, <2>b, OwnSnapshots DEF TypeOK, Place, Thing
  <2>2. HandInv'
    BY <1>inv, <2>a, <2>b, Stages DEF HandInv
  <2>3. (PhaseInv /\ OnePipeline)'
    BY <1>inv, <2>a, <2>b, Stages, <2>r DEF PhaseInv, OnePipeline
  <2>4. CycleInv'
    BY <1>inv, <2>a, <2>b, Stages, <2>r DEF CycleInv
  <2>5. ChainInv'
    BY <1>inv, <2>a, <2>b, Stages DEF ChainInv
  <2>6. ListInv'
    BY <1>inv, <2>a, <2>b, Stages DEF ListInv, InUse
  <2>7. NoUseAfterDelete'
    BY <1>inv, <2>a, <2>b, <2>u DEF NoUseAfterDelete
  <2>8. NoSnapshotForgotten'
    BY <1>inv, <2>a, <2>b DEF NoSnapshotForgotten
  <2>9. DeliveryInv'
    BY <1>inv, <2>a, <2>b, <2>w DEF DeliveryInv, PhaseInv
  <2> QED
    BY <2>1, <2>2, <2>3, <2>4, <2>5, <2>6, <2>7, <2>8, <2>9, <1>lost DEF VInv, Promises
<1>5. CASE HandlingEnds
  <2>a. /\ repeater = "handle" /\ repeater' = "select"
        /\ buffer' = {} /\ unpublished' = unpublished \ buffer
        /\ cancelled \/ at[iterations][Create] = "closed"
    BY <1>5, <1>inv, VulnerabilityAssumption, Stages DEF HandlingEnds, TypeOK
  <2>b. UNCHANGED <<iterations, cancelled, worker, at, hand, listed, undeleted>>
    BY <1>5 DEF HandlingEnds, flavor
  <2>r. \A j \in Iter : Running(j)' <=> Running(j)
    BY <2>b DEF Running
  <2>c. ASSUME ~cancelled
        PROVE  \A g \in Stage : at[iterations][g] = "closed" /\ hand[iterations][g] = {}
    <3>1. iterations \in Iter /\ at[iterations][5] = "closed"
      BY <1>inv, <2>a, <2>c, Stages DEF PhaseInv
    <3>2. \A g \in {2, 3, 4, 5} : at[iterations][g] = "closed" => at[iterations][g - 1] = "closed"
      BY <1>inv, <2>c, <3>1, Stages DEF ChainInv
    <3>3. 5 - 1 = 4 /\ 4 - 1 = 3 /\ 3 - 1 = 2 /\ 2 - 1 = 1
      OBVIOUS
    <3>4. \A g \in Stage : at[iterations][g] = "closed"
      BY <3>1, <3>2, <3>3, Stages
    <3> QED
      BY <1>inv, <3>1, <3>4 DEF HandInv
  <2>d. ~cancelled => ~Running(iterations) /\ worker[iterations] # "starting"
    BY <1>inv, <2>a, <2>c, Stages DEF Running, PhaseInv
  <2>w. \A j \in Iter : OnTheWay(j) \subseteq OnTheWay(j)'
    BY <1>inv, <2>a, <2>b, Stages DEF OnTheWay, HandInv
  <2>u. \A j \in Iter : InUse(j)' \subseteq InUse(j)
    BY <1>inv, <2>a, <2>b, Stages DEF InUse, HandInv
  <2>1. TypeOK'
    BY <1>inv, <2>a, <2>b, OwnSnapshots DEF TypeOK, Place, Thing
  <2>2. HandInv'
    BY <1>inv, <2>a, <2>b, Stages DEF HandInv
  <2>3. (PhaseInv /\ OnePipeline)'
    BY <1>inv, <2>a, <2>b, Stages, <2>r DEF PhaseInv, OnePipeline
  <2>4. CycleInv'
    BY <1>inv, <2>a, <2>b, <2>d, <2>r DEF CycleInv
  <2>5. ChainInv'
    BY <1>inv, <2>a, <2>b, Stages DEF ChainInv
  <2>6. ListInv'
    BY <1>inv, <2>a, <2>b, Stages DEF ListInv, InUse
  <2>7. NoUseAfterDelete'
    BY <1>inv, <2>a, <2>b, <2>u DEF NoUseAfterDelete
  <2>8. NoSnapshotForgotten'
    BY <1>inv, <2>a, <2>b DEF NoSnapshotForgotten
  <2>9. DeliveryInv'
    BY <1>inv, <2>a, <2>b, <2>c, Stages DEF DeliveryInv, OnTheWay
  <2> QED
    BY <2>1, <2>2, <2>3, <2>4, <2>5, <2>6, <2>7, <2>8, <2>9, <1>lost DEF VInv, Promises
<1>6. CASE Stop
  <2>a. /\ cancelled' = TRUE
    BY <1>6, <1>inv, VulnerabilityAssumption, Stages DEF Stop, TypeOK
  <2>b. UNCHANGED <<repeater, iterations, buffer, unpublished, worker, at, hand, listed, undeleted>>
    BY <1>6 DEF Stop, flavor
  <2>r. \A j \in Iter : Running(j)' <=> Running(j)
    BY <2>b DEF Running
  <2>w. \A j \in Iter : OnTheWay(j) \subseteq OnTheWay(j)'
    BY <1>inv, <2>a, <2>b, Stages DEF OnTheWay, HandInv
  <2>u. \A j \in Iter : InUse(j)' \subseteq InUse(j)
    BY <1>inv, <2>a, <2>b, Stages DEF InUse, HandInv
  <2>1. TypeOK'
    BY <1>inv, <2>a, <2>b, OwnSnapshots DEF TypeOK, Place, Thing
  <2>2. HandInv'
    BY <1>inv, <2>a, <2>b, Stages DEF HandInv
  <2>3. (PhaseInv /\ OnePipeline)'
    BY <1>inv, <2>a, <2>b, Stages, <2>r DEF PhaseInv, OnePipeline
  <2>4. CycleInv'
    BY <1>inv, <2>a, <2>b, Stages, <2>r DEF CycleInv
  <2>5. ChainInv'
    BY <1>inv, <2>a, <2>b, Stages DEF ChainInv
  <2>6. ListInv'
    BY <1>inv, <2>a, <2>b, Stages DEF ListInv, InUse
  <2>7. NoUseAfterDelete'
    BY <1>inv, <2>a, <2>b, <2>u DEF NoUseAfterDelete
  <2>8. NoSnapshotForgotten'
    BY <1>inv, <2>a, <2>b DEF NoSnapshotForgotten
  <2>9. DeliveryInv'
    BY <1>inv, <2>a, <2>b, <2>w DEF DeliveryInv, PhaseInv
  <2> QED
    BY <2>1, <2>2, <2>3, <2>4, <2>5, <2>6, <2>7, <2>8, <2>9, <1>lost DEF VInv, Promises
<1>7. ASSUME NEW i \in Iter, TakeEvents(i)
      PROVE  (VInv /\ Promises)'
  <2>a. PICK a \in {"select"}, h \in {{}} :
          /\ Goto(i, Create, a, h) /\ at[i][Create] = "send"
          /\ hand[i][Create] \subseteq Own(i)
          /\ repeater = "handle" /\ i = iterations
          /\ \/ buffer' = buffer \cup hand[i][Create] /\ unpublished' = unpublished
             \/ buffer' = {} /\ unpublished' = unpublished \ (buffer \cup hand[i][Create])
    BY <1>7, <1>inv, Stages DEF TakeEvents, ListInv
  <2>b. a \in Place /\ Create \in Stage /\ h \in SUBSET Thing
    BY <2>a, <1>places, Stages, OwnSnapshots DEF Thing
  <2>c. /\ at' \in [Iter -> [Stage -> Place]] /\ at'[i][Create] = a
        /\ hand' \in [Iter -> [Stage -> SUBSET Thing]] /\ hand'[i][Create] = h
        /\ \A j \in Iter, f \in Stage : j # i \/ f # Create =>
             at'[j][f] = at[j][f] /\ hand'[j][f] = hand[j][f]
    BY <2>a, <2>b, <1>inv, GotoEffect
  <2>d. UNCHANGED <<repeater, iterations, cancelled, worker, listed, undeleted>>
    BY <1>7 DEF TakeEvents, flavor
  <2>w. OnTheWay(i) \subseteq OnTheWay(i)' \cup hand[i][Create]
    BY <1>inv, <2>a, <2>c, <2>d, Stages DEF OnTheWay, HandInv
  <2>u. \A j \in Iter : InUse(j)' \subseteq InUse(j)
    BY <1>inv, <2>a, <2>c, <2>d, Stages DEF InUse, HandInv
  <2>1. TypeOK'
    BY <1>inv, <2>a, <2>c, <2>d, OwnSnapshots DEF TypeOK, Place, Thing
  <2>2. HandInv'
    BY <1>inv, <2>a, <2>c, <2>d, Stages DEF HandInv
  <2>3. (PhaseInv /\ OnePipeline)'
    BY <1>inv, <2>a, <2>c, <2>d, Stages DEF PhaseInv, OnePipeline, Running
  <2>4. CycleInv'
    BY <1>inv, <2>a, <2>c, <2>d, Stages DEF CycleInv, Running
  <2>5. ChainInv'
    BY <1>inv, <2>a, <2>c, <2>d, Stages DEF ChainInv
  <2>6. ListInv'
    BY <1>inv, <2>a, <2>c, <2>d, Stages DEF ListInv, InUse
  <2>7. NoUseAfterDelete'
    BY <1>inv, <2>a, <2>c, <2>d, <2>u DEF NoUseAfterDelete
  <2>8. NoSnapshotForgotten'
    BY <1>inv, <2>a, <2>c, <2>d DEF NoSnapshotForgotten
  <2>9. DeliveryInv'
    BY <1>inv, <2>a, <2>d, <2>w DEF DeliveryInv
  <2> QED
    BY <2>1, <2>2, <2>3, <2>4, <2>5, <2>6, <2>7, <2>8, <2>9, <1>lost DEF VInv, Promises
<1>8. ASSUME NEW i \in Iter, FetchInstances(i)
      PROVE  (VInv /\ Promises)'
  <2>a. PICK a \in {"send", "closed"}, h \in SUBSET Instances :
          /\ Goto(i, Fetch, a, h) /\ at[i][Fetch] = "work"
          /\ a = "closed" => h = {}
    BY <1>8, <1>inv, Stages DEF FetchInstances, flavor
  <2>b. a \in Place /\ Fetch \in Stage /\ h \in SUBSET Thing
    BY <2>a, <1>places, Stages, OwnSnapshots DEF Thing
  <2>c. /\ at' \in [Iter -> [Stage -> Place]] /\ at'[i][Fetch] = a
        /\ hand' \in [Iter -> [Stage -> SUBSET Thing]] /\ hand'[i][Fetch] = h
        /\ \A j \in Iter, f \in Stage : j # i \/ f # Fetch =>
             at'[j][f] = at[j][f] /\ hand'[j][f] = hand[j][f]
    BY <2>a, <2>b, <1>inv, GotoEffect
  <2>d. UNCHANGED <<repeater, iterations, buffer, cancelled, unpublished, worker, listed, undeleted>>
    BY <1>8 DEF FetchInstances, flavor
  <2>w. \A j \in Iter : OnTheWay(j) \subseteq OnTheWay(j)'
    BY <1>inv, <2>a, <2>c, <2>d, Stages DEF OnTheWay, HandInv
  <2>u. \A j \in Iter : InUse(j)' \subseteq InUse(j)
    <3>1. \A j \in Iter, f \in {Replicate, Verify, Scan} :
            at'[j][f] = at[j][f] /\ hand'[j][f] = hand[j][f]
      BY <2>c, Stages
    <3> QED
      BY <3>1 DEF InUse
  <2>1. TypeOK'
    BY <1>inv, <2>a, <2>c, <2>d, OwnSnapshots DEF TypeOK, Place, Thing
  <2>2. HandInv'
    BY <1>inv, <2>a, <2>c, <2>d, Stages DEF HandInv
  <2>3. (PhaseInv /\ OnePipeline)'
    BY <1>inv, <2>a, <2>c, <2>d, Stages DEF PhaseInv, OnePipeline, Running
  <2>4. CycleInv'
    BY <1>inv, <2>a, <2>c, <2>d, Stages DEF CycleInv, Running
  <2>5. ChainInv'
    BY <1>inv, <2>a, <2>c, <2>d, Stages DEF ChainInv
  <2>6. ListInv'
    BY <1>inv, <2>a, <2>c, <2>d, Stages DEF ListInv, InUse
  <2>7. NoUseAfterDelete'
    BY <1>inv, <2>a, <2>c, <2>d, <2>u DEF NoUseAfterDelete
  <2>8. NoSnapshotForgotten'
    BY <1>inv, <2>a, <2>c, <2>d DEF NoSnapshotForgotten
  <2>9. DeliveryInv'
    BY <1>inv, <2>a, <2>c, <2>d, <2>w DEF DeliveryInv, PhaseInv
  <2> QED
    BY <2>1, <2>2, <2>3, <2>4, <2>5, <2>6, <2>7, <2>8, <2>9, <1>lost DEF VInv, Promises
<1>9. ASSUME NEW i \in Iter, SendInstance(i)
      PROVE  (VInv /\ Promises)'
  <2>a. Fetch \in Fetch..Scan /\ Handover(i, Fetch)
    BY <1>9, Stages DEF SendInstance
  <2>b. PICK x \in hand[i][Fetch] :
          /\ at[i][Fetch] = "send" /\ at[i][Fetch + 1] = "select"
          /\ at' \in [Iter -> [Stage -> Place]] /\ hand' \in [Iter -> [Stage -> SUBSET Thing]]
          /\ at'[i][Fetch + 1] = "work" /\ hand'[i][Fetch + 1] = {x}
          /\ hand'[i][Fetch] = hand[i][Fetch] \ {x}
          /\ \/ at'[i][Fetch] = "send"
             \/ (at'[i][Fetch] \in {"select", "closed"} /\ hand'[i][Fetch] = {})
          /\ \A j \in Iter, f \in Stage : j # i \/ f \notin {Fetch, Fetch + 1} =>
               at'[j][f] = at[j][f] /\ hand'[j][f] = hand[j][f]
    <3>1. ASSUME NEW g \in Fetch..Scan, Handover(i, g)
          PROVE  \E x \in hand[i][g] :
                   /\ at[i][g] = "send" /\ at[i][g + 1] = "select"
                   /\ at' \in [Iter -> [Stage -> Place]]
                   /\ hand' \in [Iter -> [Stage -> SUBSET Thing]]
                   /\ at'[i][g + 1] = "work" /\ hand'[i][g + 1] = {x}
                   /\ hand'[i][g] = hand[i][g] \ {x}
                   /\ \/ at'[i][g] = "send"
                      \/ (at'[i][g] \in {"select", "closed"} /\ hand'[i][g] = {})
                   /\ \A j \in Iter, f \in Stage : j # i \/ f \notin {g, g + 1} =>
                        at'[j][f] = at[j][f] /\ hand'[j][f] = hand[j][f]
      BY <3>1, <1>inv, HandoverEffect
    <3> QED
      BY <2>a, <3>1
  <2>c. UNCHANGED <<repeater, iterations, buffer, cancelled, unpublished, worker, listed, undeleted>>
    BY <2>a DEF Handover, flavor
  <2>w. \A j \in Iter : OnTheWay(j) \subseteq OnTheWay(j)'
    BY <1>inv, <2>b, <2>c, Stages DEF OnTheWay, HandInv
  <2>u. \A j \in Iter : InUse(j)' \subseteq InUse(j)
    BY <1>inv, <2>b, <2>c, Stages DEF InUse, HandInv
  <2>1. TypeOK'
    BY <1>inv, <2>b, <2>c, OwnSnapshots DEF TypeOK, Place, Thing
  <2>2. HandInv'
    <3> SUFFICES ASSUME NEW j \in Iter, NEW f \in Stage, at'[j][f] \in {"off", "select", "closed"}
                 PROVE  hand'[j][f] = {}
      BY DEF HandInv
    <3>1. CASE j # i \/ f \notin {Fetch, Fetch + 1}
      BY <1>inv, <2>b, <3>1 DEF HandInv
    <3>2. CASE j = i /\ f = Fetch
      BY <2>b, <3>2
    <3>3. CASE j = i /\ f = Fetch + 1
      BY <2>b, <3>3
    <3> QED
      BY <3>1, <3>2, <3>3
  <2>r. \A j \in Iter : Running(j)' => Running(j)
    <3> SUFFICES ASSUME NEW j \in Iter, NEW f \in Stage, at'[j][f] \notin {"off", "closed"}
                 PROVE  Running(j)
      BY DEF Running
    <3>1. CASE j # i \/ f \notin {Fetch, Fetch + 1}
      BY <2>b, <3>1 DEF Running
    <3>2. CASE j = i
      BY <2>b, <3>2, Stages DEF Running
    <3> QED
      BY <3>1, <3>2
  <2>p. Running(i) /\ worker[i] = "pipeline"
    BY <1>inv, <2>b, Stages DEF PhaseInv, Running
  <2>3. (PhaseInv /\ OnePipeline)'
    <3>1. OnePipeline'
      BY <1>inv, <2>r DEF OnePipeline
    <3>2. ASSUME NEW j \in Iter
          PROVE  /\ j > iterations' => worker'[j] = "none"
                 /\ worker'[j] \in {"none", "starting"} => \A f \in Stage : at'[j][f] = "off"
                 /\ Running(j)' => worker'[j] = "pipeline"
      <4>1. CASE j = i
        BY <1>inv, <2>c, <2>p, <4>1 DEF PhaseInv
      <4>2. CASE j # i
        BY <1>inv, <2>b, <2>c, <2>r, <4>2 DEF PhaseInv
      <4> QED
        BY <4>1, <4>2
    <3> QED
      BY <1>inv, <2>c, <3>1, <3>2 DEF PhaseInv
  <2>4. CycleInv'
    BY <1>inv, <2>b, <2>c, Stages DEF CycleInv, Running
  <2>5. ChainInv'
    BY <1>inv, <2>b, <2>c, Stages DEF ChainInv
  <2>6. ListInv'
    BY <1>inv, <2>b, <2>c, Stages DEF ListInv, InUse
  <2>7. NoUseAfterDelete'
    BY <1>inv, <2>b, <2>c, <2>u DEF NoUseAfterDelete
  <2>8. NoSnapshotForgotten'
    BY <1>inv, <2>b, <2>c DEF NoSnapshotForgotten
  <2>9. DeliveryInv'
    BY <1>inv, <2>b, <2>c, <2>w DEF DeliveryInv, PhaseInv
  <2> QED
    BY <2>1, <2>2, <2>3, <2>4, <2>5, <2>6, <2>7, <2>8, <2>9, <1>lost DEF VInv, Promises
<1>10. ASSUME NEW i \in Iter, CreateSnapshots(i)
      PROVE  (VInv /\ Promises)'
  <2>a. PICK a \in {"send", "select"}, h \in SUBSET Own(i) :
          /\ Goto(i, Replicate, a, h) /\ at[i][Replicate] = "work"
          /\ undeleted' = undeleted \cup h /\ (a = "select" => h = {})
          /\ listed' = [listed EXCEPT ![i] = listed[i] \cup h]
    <3>1. PICK V \in SUBSET Volumes :
            /\ undeleted' = undeleted \cup ({i} \X V)
            /\ listed' = [listed EXCEPT ![i] = listed[i] \cup ({i} \X V)]
            /\ Goto(i, Replicate, IF {i} \X V = {} THEN "select" ELSE "send", {i} \X V)
      BY <1>10 DEF CreateSnapshots, At
    <3>2. {i} \X V \in SUBSET Own(i)
      BY DEF Own
    <3>3. at[i][Replicate] = "work"
      BY <1>10 DEF CreateSnapshots
    <3> QED
      BY <3>1, <3>2, <3>3
  <2>b. a \in Place /\ Replicate \in Stage /\ h \in SUBSET Thing
    BY <2>a, <1>places, Stages, OwnSnapshots DEF Thing
  <2>c. /\ at' \in [Iter -> [Stage -> Place]] /\ at'[i][Replicate] = a
        /\ hand' \in [Iter -> [Stage -> SUBSET Thing]] /\ hand'[i][Replicate] = h
        /\ \A j \in Iter, f \in Stage : j # i \/ f # Replicate =>
             at'[j][f] = at[j][f] /\ hand'[j][f] = hand[j][f]
        /\ listed' \in [Iter -> SUBSET Snapshot] /\ listed'[i] = listed[i] \cup h
        /\ \A j \in Iter : j # i => listed'[j] = listed[j]
    <3>1. h \in SUBSET Snapshot
      BY <2>a, OwnSnapshots
    <3>2. listed \in [Iter -> SUBSET Snapshot]
      BY <1>inv DEF TypeOK
    <3> QED
      BY <2>a, <2>b, <1>inv, <3>1, <3>2, GotoEffect
  <2>d. UNCHANGED <<repeater, iterations, buffer, cancelled, unpublished, worker>>
    BY <1>10 DEF CreateSnapshots, flavor
  <2>e. /\ worker[i] = "pipeline" /\ \A s \in h : s[1] = i
    BY <1>inv, <2>a, Stages, OwnSnapshots DEF PhaseInv, Running
  <2>w. \A j \in Iter : OnTheWay(j) \subseteq OnTheWay(j)'
    BY <1>inv, <2>a, <2>c, <2>d, Stages DEF OnTheWay, HandInv
  <2>u. \A j \in Iter : InUse(j)' \subseteq InUse(j) \cup IF j = i THEN h ELSE {}
    BY <1>inv, <2>a, <2>c, <2>d, Stages DEF InUse, HandInv
  <2>1. TypeOK'
    BY <1>inv, <2>a, <2>c, <2>d, OwnSnapshots DEF TypeOK, Place, Thing
  <2>2. HandInv'
    BY <1>inv, <2>a, <2>c, <2>d, Stages DEF HandInv
  <2>3. (PhaseInv /\ OnePipeline)'
    BY <1>inv, <2>a, <2>c, <2>d, Stages DEF PhaseInv, OnePipeline, Running
  <2>4. CycleInv'
    BY <1>inv, <2>a, <2>c, <2>d, Stages DEF CycleInv, Running
  <2>5. ChainInv'
    BY <1>inv, <2>a, <2>c, <2>d, Stages DEF ChainInv
  <2>6. ListInv'
    <3>1. \A j \in Iter : InUse(j)' \cup hand'[j][Create] \cup listed'[j] \subseteq Own(j)
      BY <1>inv, <2>a, <2>c, <2>u, Stages DEF ListInv
    <3>2. ASSUME NEW s \in undeleted' PROVE s \in listed'[s[1]]
      <4>1. CASE s \in h
        BY <4>1, <2>c, <2>e
      <4>2. CASE s \in undeleted
        BY <4>2, <1>inv, <2>c, SnapshotOwner DEF ListInv, TypeOK
      <4> QED
        BY <3>2, <4>1, <4>2, <2>a
    <3> QED
      BY <3>1, <3>2 DEF ListInv
  <2>7. NoUseAfterDelete'
    BY <1>inv, <2>a, <2>u DEF NoUseAfterDelete
  <2>8. NoSnapshotForgotten'
    BY <1>inv, <2>a, <2>d, <2>e DEF NoSnapshotForgotten
  <2>9. DeliveryInv'
    BY <1>inv, <2>a, <2>c, <2>d, <2>w DEF DeliveryInv, PhaseInv
  <2> QED
    BY <2>1, <2>2, <2>3, <2>4, <2>5, <2>6, <2>7, <2>8, <2>9, <1>lost DEF VInv, Promises
<1>11. ASSUME NEW i \in Iter, SendSnapshot(i)
      PROVE  (VInv /\ Promises)'
  <2>a. Replicate \in Fetch..Scan /\ Handover(i, Replicate)
    BY <1>11, Stages DEF SendSnapshot
  <2>b. PICK x \in hand[i][Replicate] :
          /\ at[i][Replicate] = "send" /\ at[i][Replicate + 1] = "select"
          /\ at' \in [Iter -> [Stage -> Place]] /\ hand' \in [Iter -> [Stage -> SUBSET Thing]]
          /\ at'[i][Replicate + 1] = "work" /\ hand'[i][Replicate + 1] = {x}
          /\ hand'[i][Replicate] = hand[i][Replicate] \ {x}
          /\ \/ at'[i][Replicate] = "send"
             \/ (at'[i][Replicate] \in {"select", "closed"} /\ hand'[i][Replicate] = {})
          /\ at'[i][Replicate] = "closed" => Replicate = Fetch
          /\ \A j \in Iter, f \in Stage : j # i \/ f \notin {Replicate, Replicate + 1} =>
               at'[j][f] = at[j][f] /\ hand'[j][f] = hand[j][f]
    BY <2>a, <1>inv, HandoverEffect
  <2>c. UNCHANGED <<repeater, iterations, buffer, cancelled, unpublished, worker, listed, undeleted>>
    BY <2>a DEF Handover, flavor
  <2>w. \A j \in Iter : OnTheWay(j) \subseteq OnTheWay(j)'
    BY <1>inv, <2>b, <2>c, Stages DEF OnTheWay, HandInv
  <2>u. \A j \in Iter : InUse(j)' \subseteq InUse(j)
    BY <1>inv, <2>b, <2>c, Stages DEF InUse, HandInv
  <2>1. TypeOK'
    BY <1>inv, <2>b, <2>c, OwnSnapshots DEF TypeOK, Place, Thing
  <2>2. HandInv'
    <3> SUFFICES ASSUME NEW j \in Iter, NEW f \in Stage, at'[j][f] \in {"off", "select", "closed"}
                 PROVE  hand'[j][f] = {}
      BY DEF HandInv
    <3>1. CASE j # i \/ f \notin {Replicate, Replicate + 1}
      BY <1>inv, <2>b, <3>1 DEF HandInv
    <3>2. CASE j = i /\ f = Replicate
      BY <2>b, <3>2
    <3>3. CASE j = i /\ f = Replicate + 1
      BY <2>b, <3>3
    <3> QED
      BY <3>1, <3>2, <3>3
  <2>r. \A j \in Iter : Running(j)' => Running(j)
    <3> SUFFICES ASSUME NEW j \in Iter, NEW f \in Stage, at'[j][f] \notin {"off", "closed"}
                 PROVE  Running(j)
      BY DEF Running
    <3>1. CASE j # i \/ f \notin {Replicate, Replicate + 1}
      BY <2>b, <3>1 DEF Running
    <3>2. CASE j = i
      BY <2>b, <3>2, Stages DEF Running
    <3> QED
      BY <3>1, <3>2
  <2>p. Running(i) /\ worker[i] = "pipeline"
    BY <1>inv, <2>b, Stages DEF PhaseInv, Running
  <2>3. (PhaseInv /\ OnePipeline)'
    <3>1. OnePipeline'
      BY <1>inv, <2>r DEF OnePipeline
    <3>2. ASSUME NEW j \in Iter
          PROVE  /\ j > iterations' => worker'[j] = "none"
                 /\ worker'[j] \in {"none", "starting"} => \A f \in Stage : at'[j][f] = "off"
                 /\ Running(j)' => worker'[j] = "pipeline"
      <4>1. CASE j = i
        BY <1>inv, <2>c, <2>p, <4>1 DEF PhaseInv
      <4>2. CASE j # i
        BY <1>inv, <2>b, <2>c, <2>r, <4>2 DEF PhaseInv
      <4> QED
        BY <4>1, <4>2
    <3> QED
      BY <1>inv, <2>c, <3>1, <3>2 DEF PhaseInv
  <2>4. CycleInv'
    BY <1>inv, <2>b, <2>c, Stages DEF CycleInv, Running
  <2>5. ChainInv'
    BY <1>inv, <2>b, <2>c, Stages DEF ChainInv
  <2>6. ListInv'
    BY <1>inv, <2>b, <2>c, Stages DEF ListInv, InUse
  <2>7. NoUseAfterDelete'
    BY <1>inv, <2>b, <2>c, <2>u DEF NoUseAfterDelete
  <2>8. NoSnapshotForgotten'
    BY <1>inv, <2>b, <2>c DEF NoSnapshotForgotten
  <2>9. DeliveryInv'
    BY <1>inv, <2>b, <2>c, <2>w DEF DeliveryInv, PhaseInv
  <2> QED
    BY <2>1, <2>2, <2>3, <2>4, <2>5, <2>6, <2>7, <2>8, <2>9, <1>lost DEF VInv, Promises
<1>12. ASSUME NEW i \in Iter, VerifySnapshot(i)
      PROVE  (VInv /\ Promises)'
  <2>a. PICK a \in {"send", "select"}, h \in SUBSET Own(i) :
          /\ Goto(i, Verify, a, h) /\ at[i][Verify] = "work"
          /\ a = "select" => h = {}
          /\ h \subseteq hand[i][Verify]
    BY <1>12, <1>inv, Stages DEF VerifySnapshot, ListInv, InUse
  <2>b. a \in Place /\ Verify \in Stage /\ h \in SUBSET Thing
    BY <2>a, <1>places, Stages, OwnSnapshots DEF Thing
  <2>c. /\ at' \in [Iter -> [Stage -> Place]] /\ at'[i][Verify] = a
        /\ hand' \in [Iter -> [Stage -> SUBSET Thing]] /\ hand'[i][Verify] = h
        /\ \A j \in Iter, f \in Stage : j # i \/ f # Verify =>
             at'[j][f] = at[j][f] /\ hand'[j][f] = hand[j][f]
    BY <2>a, <2>b, <1>inv, GotoEffect
  <2>d. UNCHANGED <<repeater, iterations, buffer, cancelled, unpublished, worker, listed, undeleted>>
    BY <1>12 DEF VerifySnapshot, flavor
  <2>w. \A j \in Iter : OnTheWay(j) \subseteq OnTheWay(j)'
    BY <1>inv, <2>a, <2>c, <2>d, Stages DEF OnTheWay, HandInv
  <2>u. \A j \in Iter : InUse(j)' \subseteq InUse(j)
    BY <1>inv, <2>a, <2>c, <2>d, Stages DEF InUse, HandInv
  <2>1. TypeOK'
    BY <1>inv, <2>a, <2>c, <2>d, OwnSnapshots DEF TypeOK, Place, Thing
  <2>2. HandInv'
    BY <1>inv, <2>a, <2>c, <2>d, Stages DEF HandInv
  <2>3. (PhaseInv /\ OnePipeline)'
    BY <1>inv, <2>a, <2>c, <2>d, Stages DEF PhaseInv, OnePipeline, Running
  <2>4. CycleInv'
    BY <1>inv, <2>a, <2>c, <2>d, Stages DEF CycleInv, Running
  <2>5. ChainInv'
    BY <1>inv, <2>a, <2>c, <2>d, Stages DEF ChainInv
  <2>6. ListInv'
    BY <1>inv, <2>a, <2>c, <2>d, Stages DEF ListInv, InUse
  <2>7. NoUseAfterDelete'
    BY <1>inv, <2>a, <2>c, <2>d, <2>u DEF NoUseAfterDelete
  <2>8. NoSnapshotForgotten'
    BY <1>inv, <2>a, <2>c, <2>d DEF NoSnapshotForgotten
  <2>9. DeliveryInv'
    BY <1>inv, <2>a, <2>c, <2>d, <2>w DEF DeliveryInv, PhaseInv
  <2> QED
    BY <2>1, <2>2, <2>3, <2>4, <2>5, <2>6, <2>7, <2>8, <2>9, <1>lost DEF VInv, Promises
<1>13. ASSUME NEW i \in Iter, SendVerified(i)
      PROVE  (VInv /\ Promises)'
  <2>a. Verify \in Fetch..Scan /\ Handover(i, Verify)
    BY <1>13, Stages DEF SendVerified
  <2>b. PICK x \in hand[i][Verify] :
          /\ at[i][Verify] = "send" /\ at[i][Verify + 1] = "select"
          /\ at' \in [Iter -> [Stage -> Place]] /\ hand' \in [Iter -> [Stage -> SUBSET Thing]]
          /\ at'[i][Verify + 1] = "work" /\ hand'[i][Verify + 1] = {x}
          /\ hand'[i][Verify] = hand[i][Verify] \ {x}
          /\ \/ at'[i][Verify] = "send"
             \/ (at'[i][Verify] \in {"select", "closed"} /\ hand'[i][Verify] = {})
          /\ at'[i][Verify] = "closed" => Verify = Fetch
          /\ \A j \in Iter, f \in Stage : j # i \/ f \notin {Verify, Verify + 1} =>
               at'[j][f] = at[j][f] /\ hand'[j][f] = hand[j][f]
    BY <2>a, <1>inv, HandoverEffect
  <2>c. UNCHANGED <<repeater, iterations, buffer, cancelled, unpublished, worker, listed, undeleted>>
    BY <2>a DEF Handover, flavor
  <2>w. \A j \in Iter : OnTheWay(j) \subseteq OnTheWay(j)'
    BY <1>inv, <2>b, <2>c, Stages DEF OnTheWay, HandInv
  <2>u. \A j \in Iter : InUse(j)' \subseteq InUse(j)
    BY <1>inv, <2>b, <2>c, Stages DEF InUse, HandInv
  <2>1. TypeOK'
    BY <1>inv, <2>b, <2>c, OwnSnapshots DEF TypeOK, Place, Thing
  <2>2. HandInv'
    <3> SUFFICES ASSUME NEW j \in Iter, NEW f \in Stage, at'[j][f] \in {"off", "select", "closed"}
                 PROVE  hand'[j][f] = {}
      BY DEF HandInv
    <3>1. CASE j # i \/ f \notin {Verify, Verify + 1}
      BY <1>inv, <2>b, <3>1 DEF HandInv
    <3>2. CASE j = i /\ f = Verify
      BY <2>b, <3>2
    <3>3. CASE j = i /\ f = Verify + 1
      BY <2>b, <3>3
    <3> QED
      BY <3>1, <3>2, <3>3
  <2>3. (PhaseInv /\ OnePipeline)'
    BY <1>inv, <2>b, <2>c, Stages DEF PhaseInv, OnePipeline, Running
  <2>4. CycleInv'
    BY <1>inv, <2>b, <2>c, Stages DEF CycleInv, Running
  <2>5. ChainInv'
    BY <1>inv, <2>b, <2>c, Stages DEF ChainInv
  <2>6. ListInv'
    BY <1>inv, <2>b, <2>c, Stages DEF ListInv, InUse
  <2>7. NoUseAfterDelete'
    BY <1>inv, <2>b, <2>c, <2>u DEF NoUseAfterDelete
  <2>8. NoSnapshotForgotten'
    BY <1>inv, <2>b, <2>c DEF NoSnapshotForgotten
  <2>9. DeliveryInv'
    BY <1>inv, <2>b, <2>c, <2>w DEF DeliveryInv, PhaseInv
  <2> QED
    BY <2>1, <2>2, <2>3, <2>4, <2>5, <2>6, <2>7, <2>8, <2>9, <1>lost DEF VInv, Promises
<1>14. ASSUME NEW i \in Iter, ScanSnapshot(i)
      PROVE  (VInv /\ Promises)'
  <2>a. PICK a \in {"send", "select"}, h \in SUBSET Own(i) :
          /\ Goto(i, Scan, a, h) /\ at[i][Scan] = "work"
          /\ \/ a = "send" /\ h = hand[i][Scan]
                /\ unpublished' = unpublished \cup hand[i][Scan]
             \/ a = "select" /\ h = {} /\ unpublished' = unpublished
    BY <1>14, <1>inv, Stages DEF ScanSnapshot, ListInv, InUse
  <2>b. a \in Place /\ Scan \in Stage /\ h \in SUBSET Thing
    BY <2>a, <1>places, Stages, OwnSnapshots DEF Thing
  <2>c. /\ at' \in [Iter -> [Stage -> Place]] /\ at'[i][Scan] = a
        /\ hand' \in [Iter -> [Stage -> SUBSET Thing]] /\ hand'[i][Scan] = h
        /\ \A j \in Iter, f \in Stage : j # i \/ f # Scan =>
             at'[j][f] = at[j][f] /\ hand'[j][f] = hand[j][f]
    BY <2>a, <2>b, <1>inv, GotoEffect
  <2>d. UNCHANGED <<repeater, iterations, buffer, cancelled, worker, listed, undeleted>>
    BY <1>14 DEF ScanSnapshot, flavor
  <2>e. Running(i)
    BY <2>a, Stages DEF Running
  <2>w. \A j \in Iter : OnTheWay(j) \cup (IF j = i THEN unpublished' \ unpublished ELSE {}) \subseteq OnTheWay(j)'
    BY <1>inv, <2>a, <2>c, <2>d, Stages DEF OnTheWay, HandInv
  <2>u. \A j \in Iter : InUse(j)' \subseteq InUse(j)
    BY <1>inv, <2>a, <2>c, <2>d, Stages DEF InUse, HandInv
  <2>1. TypeOK'
    BY <1>inv, <2>a, <2>c, <2>d, OwnSnapshots DEF TypeOK, Place, Thing
  <2>2. HandInv'
    BY <1>inv, <2>a, <2>c, <2>d, Stages DEF HandInv
  <2>3. (PhaseInv /\ OnePipeline)'
    BY <1>inv, <2>a, <2>c, <2>d, Stages DEF PhaseInv, OnePipeline, Running
  <2>4. CycleInv'
    BY <1>inv, <2>a, <2>c, <2>d, Stages DEF CycleInv, Running
  <2>5. ChainInv'
    BY <1>inv, <2>a, <2>c, <2>d, Stages DEF ChainInv
  <2>6. ListInv'
    BY <1>inv, <2>a, <2>c, <2>d, Stages DEF ListInv, InUse
  <2>7. NoUseAfterDelete'
    BY <1>inv, <2>a, <2>c, <2>d, <2>u DEF NoUseAfterDelete
  <2>8. NoSnapshotForgotten'
    BY <1>inv, <2>a, <2>c, <2>d DEF NoSnapshotForgotten
  <2>9. DeliveryInv'
    BY <1>inv, <2>a, <2>d, <2>e, <2>w DEF DeliveryInv, CycleInv
  <2> QED
    BY <2>1, <2>2, <2>3, <2>4, <2>5, <2>6, <2>7, <2>8, <2>9, <1>lost DEF VInv, Promises
<1>15. ASSUME NEW i \in Iter, SendResults(i)
      PROVE  (VInv /\ Promises)'
  <2>a. Scan \in Fetch..Scan /\ Handover(i, Scan)
    BY <1>15, Stages DEF SendResults
  <2>b. PICK x \in hand[i][Scan] :
          /\ at[i][Scan] = "send" /\ at[i][Scan + 1] = "select"
          /\ at' \in [Iter -> [Stage -> Place]] /\ hand' \in [Iter -> [Stage -> SUBSET Thing]]
          /\ at'[i][Scan + 1] = "work" /\ hand'[i][Scan + 1] = {x}
          /\ hand'[i][Scan] = hand[i][Scan] \ {x}
          /\ \/ at'[i][Scan] = "send"
             \/ (at'[i][Scan] \in {"select", "closed"} /\ hand'[i][Scan] = {})
          /\ at'[i][Scan] = "closed" => Scan = Fetch
          /\ \A j \in Iter, f \in Stage : j # i \/ f \notin {Scan, Scan + 1} =>
               at'[j][f] = at[j][f] /\ hand'[j][f] = hand[j][f]
    BY <2>a, <1>inv, HandoverEffect
  <2>c. UNCHANGED <<repeater, iterations, buffer, cancelled, unpublished, worker, listed, undeleted>>
    BY <2>a DEF Handover, flavor
  <2>w. \A j \in Iter : OnTheWay(j) \subseteq OnTheWay(j)'
    BY <1>inv, <2>b, <2>c, Stages DEF OnTheWay, HandInv
  <2>u. \A j \in Iter : InUse(j)' \subseteq InUse(j)
    BY <1>inv, <2>b, <2>c, Stages DEF InUse, HandInv
  <2>1. TypeOK'
    BY <1>inv, <2>b, <2>c, OwnSnapshots DEF TypeOK, Place, Thing
  <2>2. HandInv'
    <3> SUFFICES ASSUME NEW j \in Iter, NEW f \in Stage, at'[j][f] \in {"off", "select", "closed"}
                 PROVE  hand'[j][f] = {}
      BY DEF HandInv
    <3>1. CASE j # i \/ f \notin {Scan, Scan + 1}
      BY <1>inv, <2>b, <3>1 DEF HandInv
    <3>2. CASE j = i /\ f = Scan
      BY <2>b, <3>2
    <3>3. CASE j = i /\ f = Scan + 1
      BY <2>b, <3>3
    <3> QED
      BY <3>1, <3>2, <3>3
  <2>3. (PhaseInv /\ OnePipeline)'
    BY <1>inv, <2>b, <2>c, Stages DEF PhaseInv, OnePipeline, Running
  <2>4. CycleInv'
    BY <1>inv, <2>b, <2>c, Stages DEF CycleInv, Running
  <2>5. ChainInv'
    BY <1>inv, <2>b, <2>c, Stages DEF ChainInv
  <2>6. ListInv'
    BY <1>inv, <2>b, <2>c, Stages DEF ListInv, InUse
  <2>7. NoUseAfterDelete'
    BY <1>inv, <2>b, <2>c, <2>u DEF NoUseAfterDelete
  <2>8. NoSnapshotForgotten'
    BY <1>inv, <2>b, <2>c DEF NoSnapshotForgotten
  <2>9. DeliveryInv'
    BY <1>inv, <2>b, <2>c, <2>w DEF DeliveryInv, PhaseInv
  <2> QED
    BY <2>1, <2>2, <2>3, <2>4, <2>5, <2>6, <2>7, <2>8, <2>9, <1>lost DEF VInv, Promises
<1>16. ASSUME NEW i \in Iter, CreateEvents(i)
      PROVE  (VInv /\ Promises)'
  <2>a. PICK a \in {"send"}, h \in SUBSET Own(i) :
          /\ Goto(i, Create, a, h) /\ at[i][Create] = "work"
          /\ h = hand[i][Create]
    BY <1>16, <1>inv, Stages DEF CreateEvents, ListInv
  <2>b. a \in Place /\ Create \in Stage /\ h \in SUBSET Thing
    BY <2>a, <1>places, Stages, OwnSnapshots DEF Thing
  <2>c. /\ at' \in [Iter -> [Stage -> Place]] /\ at'[i][Create] = a
        /\ hand' \in [Iter -> [Stage -> SUBSET Thing]] /\ hand'[i][Create] = h
        /\ \A j \in Iter, f \in Stage : j # i \/ f # Create =>
             at'[j][f] = at[j][f] /\ hand'[j][f] = hand[j][f]
    BY <2>a, <2>b, <1>inv, GotoEffect
  <2>d. UNCHANGED <<repeater, iterations, buffer, cancelled, unpublished, worker, listed, undeleted>>
    BY <1>16 DEF CreateEvents, flavor
  <2>w. \A j \in Iter : OnTheWay(j) \subseteq OnTheWay(j)'
    BY <1>inv, <2>a, <2>c, <2>d, Stages DEF OnTheWay, HandInv
  <2>u. \A j \in Iter : InUse(j)' \subseteq InUse(j)
    BY <1>inv, <2>a, <2>c, <2>d, Stages DEF InUse, HandInv
  <2>1. TypeOK'
    BY <1>inv, <2>a, <2>c, <2>d, OwnSnapshots DEF TypeOK, Place, Thing
  <2>2. HandInv'
    BY <1>inv, <2>a, <2>c, <2>d, Stages DEF HandInv
  <2>3. (PhaseInv /\ OnePipeline)'
    BY <1>inv, <2>a, <2>c, <2>d, Stages DEF PhaseInv, OnePipeline, Running
  <2>4. CycleInv'
    BY <1>inv, <2>a, <2>c, <2>d, Stages DEF CycleInv, Running
  <2>5. ChainInv'
    BY <1>inv, <2>a, <2>c, <2>d, Stages DEF ChainInv
  <2>6. ListInv'
    BY <1>inv, <2>a, <2>c, <2>d, Stages DEF ListInv, InUse
  <2>7. NoUseAfterDelete'
    BY <1>inv, <2>a, <2>c, <2>d, <2>u DEF NoUseAfterDelete
  <2>8. NoSnapshotForgotten'
    BY <1>inv, <2>a, <2>c, <2>d DEF NoSnapshotForgotten
  <2>9. DeliveryInv'
    BY <1>inv, <2>a, <2>c, <2>d, <2>w DEF DeliveryInv, PhaseInv
  <2> QED
    BY <2>1, <2>2, <2>3, <2>4, <2>5, <2>6, <2>7, <2>8, <2>9, <1>lost DEF VInv, Promises
<1>17. ASSUME NEW i \in Iter, NEW g \in Stage, StageEnds(i, g)
      PROVE  (VInv /\ Promises)'
  <2>a. PICK a \in {"closed"}, h \in {{}} :
          /\ Goto(i, g, a, h) /\ at[i][g] = "select"
          /\ g # Fetch /\ (cancelled \/ at[i][g - 1] = "closed")
    BY <1>17, <1>inv, Stages DEF StageEnds, flavor
  <2>b. a \in Place /\ g \in Stage /\ h \in SUBSET Thing
    BY <2>a, <1>places, Stages, OwnSnapshots DEF Thing
  <2>c. /\ at' \in [Iter -> [Stage -> Place]] /\ at'[i][g] = a
        /\ hand' \in [Iter -> [Stage -> SUBSET Thing]] /\ hand'[i][g] = h
        /\ \A j \in Iter, f \in Stage : j # i \/ f # g =>
             at'[j][f] = at[j][f] /\ hand'[j][f] = hand[j][f]
    BY <2>a, <2>b, <1>inv, GotoEffect
  <2>d. UNCHANGED <<repeater, iterations, buffer, cancelled, unpublished, worker, listed, undeleted>>
    BY <1>17 DEF StageEnds, flavor
  <2>w. \A j \in Iter : OnTheWay(j) \subseteq OnTheWay(j)'
    BY <1>inv, <2>a, <2>c, <2>d, Stages DEF OnTheWay, HandInv
  <2>u. \A j \in Iter : InUse(j)' \subseteq InUse(j)
    BY <1>inv, <2>a, <2>c, <2>d, Stages DEF InUse, HandInv
  <2>1. TypeOK'
    BY <1>inv, <2>a, <2>c, <2>d, OwnSnapshots DEF TypeOK, Place, Thing
  <2>2. HandInv'
    BY <1>inv, <2>a, <2>c, <2>d, Stages DEF HandInv
  <2>3. (PhaseInv /\ OnePipeline)'
    BY <1>inv, <2>a, <2>c, <2>d, Stages DEF PhaseInv, OnePipeline, Running
  <2>4. CycleInv'
    BY <1>inv, <2>a, <2>c, <2>d, Stages DEF CycleInv, Running
  <2>5. ChainInv'
    BY <1>inv, <2>a, <2>c, <2>d, Stages DEF ChainInv
  <2>6. ListInv'
    BY <1>inv, <2>a, <2>c, <2>d, Stages DEF ListInv, InUse
  <2>7. NoUseAfterDelete'
    BY <1>inv, <2>a, <2>c, <2>d, <2>u DEF NoUseAfterDelete
  <2>8. NoSnapshotForgotten'
    BY <1>inv, <2>a, <2>c, <2>d DEF NoSnapshotForgotten
  <2>9. DeliveryInv'
    BY <1>inv, <2>a, <2>c, <2>d, <2>w DEF DeliveryInv, PhaseInv
  <2> QED
    BY <2>1, <2>2, <2>3, <2>4, <2>5, <2>6, <2>7, <2>8, <2>9, <1>lost DEF VInv, Promises
<1>18. ASSUME NEW i \in Iter, NEW g \in Stage, SendCancelled(i, g)
      PROVE  (VInv /\ Promises)'
  <2>a. PICK a \in {"select", "closed"}, h \in {{}} :
          /\ Goto(i, g, a, h) /\ at[i][g] = "send"
          /\ cancelled
    BY <1>18, <1>inv, Stages DEF SendCancelled, flavor
  <2>b. a \in Place /\ g \in Stage /\ h \in SUBSET Thing
    BY <2>a, <1>places, Stages, OwnSnapshots DEF Thing
  <2>c. /\ at' \in [Iter -> [Stage -> Place]] /\ at'[i][g] = a
        /\ hand' \in [Iter -> [Stage -> SUBSET Thing]] /\ hand'[i][g] = h
        /\ \A j \in Iter, f \in Stage : j # i \/ f # g =>
             at'[j][f] = at[j][f] /\ hand'[j][f] = hand[j][f]
    BY <2>a, <2>b, <1>inv, GotoEffect
  <2>d. UNCHANGED <<repeater, iterations, buffer, cancelled, unpublished, worker, listed, undeleted>>
    BY <1>18 DEF SendCancelled, flavor
  <2>w. cancelled
    BY <1>inv, <2>a, <2>c, <2>d, Stages DEF OnTheWay, HandInv
  <2>u. \A j \in Iter : InUse(j)' \subseteq InUse(j)
    BY <1>inv, <2>a, <2>c, <2>d, Stages DEF InUse, HandInv
  <2>1. TypeOK'
    BY <1>inv, <2>a, <2>c, <2>d, OwnSnapshots DEF TypeOK, Place, Thing
  <2>2. HandInv'
    BY <1>inv, <2>a, <2>c, <2>d, Stages DEF HandInv
  <2>3. (PhaseInv /\ OnePipeline)'
    BY <1>inv, <2>a, <2>c, <2>d, Stages DEF PhaseInv, OnePipeline, Running
  <2>4. CycleInv'
    BY <1>inv, <2>a, <2>c, <2>d, Stages DEF CycleInv, Running
  <2>5. ChainInv'
    BY <1>inv, <2>a, <2>c, <2>d, Stages DEF ChainInv
  <2>6. ListInv'
    BY <1>inv, <2>a, <2>c, <2>d, Stages DEF ListInv, InUse
  <2>7. NoUseAfterDelete'
    BY <1>inv, <2>a, <2>c, <2>d, <2>u DEF NoUseAfterDelete
  <2>8. NoSnapshotForgotten'
    BY <1>inv, <2>a, <2>c, <2>d DEF NoSnapshotForgotten
  <2>9. DeliveryInv'
    BY <2>a, <2>d DEF DeliveryInv
  <2> QED
    BY <2>1, <2>2, <2>3, <2>4, <2>5, <2>6, <2>7, <2>8, <2>9, <1>lost DEF VInv, Promises
<1>19. ASSUME NEW i \in Iter, WorkerStarts(i)
      PROVE  (VInv /\ Promises)'
  <2>a. /\ worker' \in [Iter -> {"none", "starting", "pipeline", "clean", "deleting", "ended"}]
        /\ \A j \in Iter : j # i => worker'[j] = worker[j]
        /\ worker[i] = "starting"
        /\ worker'[i] = IF cancelled THEN "ended" ELSE "pipeline"
        /\ at' \in [Iter -> [Stage -> Place]]
        /\ \A j \in Iter : j # i => at'[j] = at[j]
        /\ \A g \in Stage : at'[i][g] = IF cancelled THEN "off" ELSE IF g = Fetch THEN "work" ELSE "select"
        /\ \A g \in Stage : at[i][g] = "off" /\ hand[i][g] = {}
    BY <1>19, <1>inv, VulnerabilityAssumption, Stages DEF WorkerStarts, TypeOK,
       PhaseInv, HandInv, At, Place
  <2>b. UNCHANGED <<repeater, iterations, buffer, cancelled, unpublished, hand, listed, undeleted>>
    BY <1>19 DEF WorkerStarts, flavor
  <2>c. /\ \A j \in Iter : j # i => (Running(j)' <=> Running(j))
        /\ ~Running(i) /\ (Running(i)' => ~cancelled)
    BY <1>inv, <2>a, Stages DEF Running
  <2>w. \A j \in Iter : OnTheWay(j) \subseteq OnTheWay(j)'
    BY <1>inv, <2>a, <2>b, Stages DEF OnTheWay, HandInv
  <2>u. \A j \in Iter : InUse(j)' \subseteq InUse(j)
    BY <1>inv, <2>a, <2>b, Stages DEF InUse, HandInv
  <2>1. TypeOK'
    BY <1>inv, <2>a, <2>b, OwnSnapshots DEF TypeOK, Place, Thing
  <2>2. HandInv'
    BY <1>inv, <2>a, <2>b, Stages DEF HandInv
  <2>3. (PhaseInv /\ OnePipeline)'
    BY <1>inv, <2>a, <2>b, <2>c DEF PhaseInv, CycleInv, OnePipeline
  <2>4. CycleInv'
    BY <1>inv, <2>a, <2>b, Stages DEF CycleInv, Running
  <2>5. ChainInv'
    BY <1>inv, <2>a, <2>b, Stages DEF ChainInv
  <2>6. ListInv'
    BY <1>inv, <2>a, <2>b, Stages DEF ListInv, InUse
  <2>7. NoUseAfterDelete'
    BY <1>inv, <2>a, <2>b, <2>u DEF NoUseAfterDelete
  <2>8. NoSnapshotForgotten'
    BY <1>inv, <2>a, <2>b, SnapshotOwner DEF NoSnapshotForgotten, ListInv, TypeOK
  <2>9. DeliveryInv'
    BY <1>inv, <2>a, <2>b, <2>w DEF DeliveryInv, PhaseInv
  <2> QED
    BY <2>1, <2>2, <2>3, <2>4, <2>5, <2>6, <2>7, <2>8, <2>9, <1>lost DEF VInv, Promises
<1>20. ASSUME NEW i \in Iter, WaitWorkers(i)
      PROVE  (VInv /\ Promises)'
  <2>a. /\ worker' \in [Iter -> {"none", "starting", "pipeline", "clean", "deleting", "ended"}]
        /\ \A j \in Iter : j # i => worker'[j] = worker[j]
        /\ worker[i] = "pipeline"
        /\ worker'[i] = "clean"
        /\ ~Running(i)
    BY <1>20, <1>inv, VulnerabilityAssumption, Stages DEF WaitWorkers, TypeOK, At,
       Running
  <2>b. UNCHANGED <<repeater, iterations, buffer, cancelled, unpublished, at, hand, listed, undeleted>>
    BY <1>20 DEF WaitWorkers, flavor
  <2>r. \A j \in Iter : Running(j)' <=> Running(j)
    BY <2>b DEF Running
  <2>w. \A j \in Iter : OnTheWay(j) \subseteq OnTheWay(j)'
    BY <1>inv, <2>a, <2>b, Stages DEF OnTheWay, HandInv
  <2>u. \A j \in Iter : InUse(j)' \subseteq InUse(j)
    BY <1>inv, <2>a, <2>b, Stages DEF InUse, HandInv
  <2>1. TypeOK'
    BY <1>inv, <2>a, <2>b, OwnSnapshots DEF TypeOK, Place, Thing
  <2>2. HandInv'
    BY <1>inv, <2>a, <2>b, Stages DEF HandInv
  <2>3. (PhaseInv /\ OnePipeline)'
    BY <1>inv, <2>a, <2>b, Stages, <2>r DEF PhaseInv, OnePipeline
  <2>4. CycleInv'
    BY <1>inv, <2>a, <2>b, Stages, <2>r DEF CycleInv
  <2>5. ChainInv'
    BY <1>inv, <2>a, <2>b, Stages DEF ChainInv
  <2>6. ListInv'
    BY <1>inv, <2>a, <2>b, Stages DEF ListInv, InUse
  <2>7. NoUseAfterDelete'
    BY <1>inv, <2>a, <2>b, <2>u DEF NoUseAfterDelete
  <2>8. NoSnapshotForgotten'
    BY <1>inv, <2>a, <2>b, SnapshotOwner DEF NoSnapshotForgotten, ListInv, TypeOK
  <2>9. DeliveryInv'
    BY <1>inv, <2>a, <2>b, <2>w DEF DeliveryInv, PhaseInv
  <2> QED
    BY <2>1, <2>2, <2>3, <2>4, <2>5, <2>6, <2>7, <2>8, <2>9, <1>lost DEF VInv, Promises
<1>21. ASSUME NEW i \in Iter, Clean(i)
      PROVE  (VInv /\ Promises)'
  <2>a. PICK v \in {"deleting", "ended"} :
          worker' = [worker EXCEPT ![i] = v] /\ worker[i] = "clean" /\ (v = "ended" => cancelled)
    BY <1>21 DEF Clean, At
  <2>b. UNCHANGED <<repeater, iterations, buffer, cancelled, unpublished, at, hand, listed, undeleted>>
    BY <1>21 DEF Clean, flavor
  <2>c. /\ worker' \in [Iter -> {"none", "starting", "pipeline", "clean", "deleting", "ended"}]
        /\ worker'[i] = v /\ \A j \in Iter : j # i => worker'[j] = worker[j]
    BY <1>inv, <2>a DEF TypeOK
  <2>r. \A j \in Iter : Running(j)' <=> Running(j)
    BY <2>b DEF Running
  <2>w. \A j \in Iter : OnTheWay(j) \subseteq OnTheWay(j)'
    BY <1>inv, <2>a, <2>b, <2>c, Stages DEF OnTheWay, HandInv
  <2>u. \A j \in Iter : InUse(j)' \subseteq InUse(j)
    BY <1>inv, <2>a, <2>b, <2>c, Stages DEF InUse, HandInv
  <2>1. TypeOK'
    BY <1>inv, <2>a, <2>b, <2>c, OwnSnapshots DEF TypeOK, Place, Thing
  <2>2. HandInv'
    BY <1>inv, <2>a, <2>b, <2>c, Stages DEF HandInv
  <2>3. (PhaseInv /\ OnePipeline)'
    BY <1>inv, <2>a, <2>b, <2>c, Stages, <2>r DEF PhaseInv, OnePipeline
  <2>4. CycleInv'
    BY <1>inv, <2>a, <2>b, <2>c, Stages, <2>r DEF CycleInv
  <2>5. ChainInv'
    BY <1>inv, <2>a, <2>b, <2>c, Stages DEF ChainInv
  <2>6. ListInv'
    BY <1>inv, <2>a, <2>b, <2>c, Stages DEF ListInv, InUse
  <2>7. NoUseAfterDelete'
    BY <1>inv, <2>a, <2>b, <2>c, <2>u DEF NoUseAfterDelete
  <2>8. NoSnapshotForgotten'
    BY <1>inv, <2>a, <2>b, <2>c, SnapshotOwner DEF NoSnapshotForgotten, ListInv, TypeOK
  <2>9. DeliveryInv'
    BY <1>inv, <2>a, <2>b, <2>c, <2>w DEF DeliveryInv, PhaseInv
  <2> QED
    BY <2>1, <2>2, <2>3, <2>4, <2>5, <2>6, <2>7, <2>8, <2>9, <1>lost DEF VInv, Promises
<1>22. ASSUME NEW i \in Iter, DeleteSnapshot(i)
      PROVE  (VInv /\ Promises)'
  <2>a. /\ worker[i] = "deleting"
        /\ listed' \in [Iter -> SUBSET Snapshot]
        /\ \E s \in listed[i] : undeleted' = undeleted \ {s} /\ listed'[i] = listed[i] \ {s}
        /\ \A j \in Iter : j # i => listed'[j] = listed[j]
    BY <1>22, <1>inv, VulnerabilityAssumption, Stages DEF DeleteSnapshot, TypeOK, At
  <2>b. UNCHANGED <<repeater, iterations, buffer, cancelled, unpublished, worker, at, hand>>
    BY <1>22 DEF DeleteSnapshot, flavor
  <2>r. \A j \in Iter : Running(j)' <=> Running(j)
    BY <2>b DEF Running
  <2>c. ~Running(i) /\ InUse(i) = {}
    BY <1>inv, <2>a, Stages DEF PhaseInv, HandInv, Running, InUse
  <2>w. \A j \in Iter : OnTheWay(j) \subseteq OnTheWay(j)'
    BY <1>inv, <2>a, <2>b, Stages DEF OnTheWay, HandInv
  <2>u. \A j \in Iter : InUse(j)' \subseteq InUse(j)
    BY <1>inv, <2>a, <2>b, Stages DEF InUse, HandInv
  <2>1. TypeOK'
    BY <1>inv, <2>a, <2>b, OwnSnapshots DEF TypeOK, Place, Thing
  <2>2. HandInv'
    BY <1>inv, <2>a, <2>b, Stages DEF HandInv
  <2>3. (PhaseInv /\ OnePipeline)'
    BY <1>inv, <2>a, <2>b, Stages, <2>r DEF PhaseInv, OnePipeline
  <2>4. CycleInv'
    BY <1>inv, <2>a, <2>b, Stages, <2>r DEF CycleInv
  <2>5. ChainInv'
    BY <1>inv, <2>a, <2>b, Stages DEF ChainInv
  <2>6. ListInv'
    <3>1. \A j \in Iter : listed'[j] \subseteq listed[j]
      BY <2>a
    <3>2. \A j \in Iter : InUse(j)' \cup hand'[j][Create] \cup listed'[j] \subseteq Own(j)
      BY <1>inv, <2>b, <2>u, <3>1 DEF ListInv
    <3>3. PICK d \in listed[i] : undeleted' = undeleted \ {d} /\ listed'[i] = listed[i] \ {d}
      BY <2>a
    <3>4. ASSUME NEW s \in undeleted' PROVE s \in listed'[s[1]]
      <4>1. s \in undeleted /\ s # d /\ s \in listed[s[1]]
        BY <1>inv, <3>3, <3>4 DEF ListInv
      <4>2. CASE s[1] = i
        BY <3>3, <4>1, <4>2
      <4>3. CASE s[1] # i
        BY <1>inv, <2>a, <4>1, <4>3, SnapshotOwner DEF TypeOK
      <4> QED
        BY <4>2, <4>3
    <3> QED
      BY <3>2, <3>4 DEF ListInv
  <2>7. NoUseAfterDelete'
    <3>1. ASSUME NEW j \in Iter, NEW s \in InUse(j)' PROVE s \in undeleted'
      <4>1. j # i /\ s \in InUse(j) /\ s \in undeleted
        BY <1>inv, <2>c, <2>u, <3>1 DEF NoUseAfterDelete
      <4>2. s[1] = j /\ \A t \in listed[i] : t[1] = i
        BY <1>inv, <4>1, OwnSnapshots DEF ListInv
      <4> QED
        BY <2>a, <4>1, <4>2
    <3> QED
      BY <3>1 DEF NoUseAfterDelete
  <2>8. NoSnapshotForgotten'
    BY <1>inv, <2>a, <2>b DEF NoSnapshotForgotten
  <2>9. DeliveryInv'
    BY <1>inv, <2>a, <2>b, <2>w DEF DeliveryInv, PhaseInv
  <2> QED
    BY <2>1, <2>2, <2>3, <2>4, <2>5, <2>6, <2>7, <2>8, <2>9, <1>lost DEF VInv, Promises
<1>23. ASSUME NEW i \in Iter, CleanDone(i)
      PROVE  (VInv /\ Promises)'
  <2>a. /\ worker' \in [Iter -> {"none", "starting", "pipeline", "clean", "deleting", "ended"}]
        /\ \A j \in Iter : j # i => worker'[j] = worker[j]
        /\ worker[i] = "deleting" /\ listed[i] = {}
        /\ worker'[i] = "ended"
    BY <1>23, <1>inv, VulnerabilityAssumption, Stages DEF CleanDone, TypeOK, At
  <2>b. UNCHANGED <<repeater, iterations, buffer, cancelled, unpublished, at, hand, listed, undeleted>>
    BY <1>23 DEF CleanDone, flavor
  <2>r. \A j \in Iter : Running(j)' <=> Running(j)
    BY <2>b DEF Running
  <2>w. \A j \in Iter : OnTheWay(j) \subseteq OnTheWay(j)'
    BY <1>inv, <2>a, <2>b, Stages DEF OnTheWay, HandInv
  <2>u. \A j \in Iter : InUse(j)' \subseteq InUse(j)
    BY <1>inv, <2>a, <2>b, Stages DEF InUse, HandInv
  <2>1. TypeOK'
    BY <1>inv, <2>a, <2>b, OwnSnapshots DEF TypeOK, Place, Thing
  <2>2. HandInv'
    BY <1>inv, <2>a, <2>b, Stages DEF HandInv
  <2>3. (PhaseInv /\ OnePipeline)'
    BY <1>inv, <2>a, <2>b, Stages, <2>r DEF PhaseInv, OnePipeline
  <2>4. CycleInv'
    BY <1>inv, <2>a, <2>b, Stages, <2>r DEF CycleInv
  <2>5. ChainInv'
    BY <1>inv, <2>a, <2>b, Stages DEF ChainInv
  <2>6. ListInv'
    BY <1>inv, <2>a, <2>b, Stages DEF ListInv, InUse
  <2>7. NoUseAfterDelete'
    BY <1>inv, <2>a, <2>b, <2>u DEF NoUseAfterDelete
  <2>8. NoSnapshotForgotten'
    BY <1>inv, <2>a, <2>b, SnapshotOwner DEF NoSnapshotForgotten, ListInv, TypeOK
  <2>9. DeliveryInv'
    BY <1>inv, <2>a, <2>b, <2>w DEF DeliveryInv, PhaseInv
  <2> QED
    BY <2>1, <2>2, <2>3, <2>4, <2>5, <2>6, <2>7, <2>8, <2>9, <1>lost DEF VInv, Promises
<1>24. CASE UNCHANGED vars
  BY <1>24 DEF vars, VInv, Promises, TypeOK, HandInv, PhaseInv, ListInv, CycleInv,
     ChainInv, DeliveryInv, OnTheWay, NoUseAfterDelete, NoSnapshotForgotten,
     OnePipeline, NothingLost, Running, InUse
<1> QED
  BY <1>1, <1>2, <1>3, <1>4, <1>5, <1>6, <1>7, <1>8, <1>9, <1>10, <1>11, <1>12,
     <1>13, <1>14, <1>15, <1>16, <1>17, <1>18, <1>19, <1>20, <1>21, <1>22, <1>23,
     <1>24 DEF Next, PipelineStep, WorkerStep, FetchStep, ReplicateStep, VerifyStep,
     ScanStep

-----------------------------------------------------------------------------
(* Invariant and promises hold in every behaviour. *)
LEMMA VulnerabilityInvariant == Spec => [](VInv /\ Promises)
  BY VulnerabilityInit, VulnerabilityStep, PTL DEF Spec

(* The parts of the worker's state always agree: what the goroutines have  *)
(* in hand, the worker's phase, the snapshots listed, and the events.      *)
THEOREM VulnerabilityVInv == Spec => []VInv
  BY VulnerabilityInvariant, PTL

(* The cleaner deletes no snapshot that the pipeline may still use,        *)
(* whatever the number of instances, volumes and iterations.               *)
THEOREM VulnerabilityNoUseAfterDelete == Spec => []NoUseAfterDelete
<1>1. VInv /\ Promises => NoUseAfterDelete
  BY DEF Promises
<1> QED
  BY <1>1, VulnerabilityInvariant, PTL

(* A worker that ends without being stopped asked to delete every snapshot *)
(* it took: what the replicator created is never missing from its list.    *)
THEOREM VulnerabilityNoSnapshotForgotten == Spec => []NoSnapshotForgotten
<1>1. VInv /\ Promises => NoSnapshotForgotten
  BY DEF Promises
<1> QED
  BY <1>1, VulnerabilityInvariant, PTL

(* The pipelines of two iterations never run at the same time.             *)
THEOREM VulnerabilityOnePipeline == Spec => []OnePipeline
<1>1. VInv /\ Promises => OnePipeline
  BY DEF Promises
<1> QED
  BY <1>1, VulnerabilityInvariant, PTL

(* Unless stopped, an iteration publishes every scan result it created.    *)
THEOREM VulnerabilityNothingLost == Spec => []NothingLost
<1>1. VInv /\ Promises => NothingLost
  BY DEF Promises
<1> QED
  BY <1>1, VulnerabilityInvariant, PTL
-----------------------------------------------------------------------------
(* Who may take the next step of a pipeline: all its goroutines have       *)
(* started, and one that sends has something to send.                      *)
ReadyInv ==
  \A i \in Iter, g \in Stage :
    /\ worker[i] = "pipeline" => at[i][g] # "off"
    /\ at[i][Fetch] # "select"
    /\ at[i][g] = "send" \/ (at[i][g] = "work" /\ g # Fetch) => hand[i][g] # {}

(* A goroutine that has done its part sends what it has, or selects.       *)
LEMMA GotoReady ==
  ASSUME TypeOK, ReadyInv, worker' = worker,
         NEW i \in Iter, NEW g \in Stage, NEW a \in {"send", "select", "closed"},
         NEW h \in SUBSET Thing, Goto(i, g, a, h),
         a = "select" => g # Fetch, a = "send" => h # {}
  PROVE  ReadyInv'
<1>1. /\ at'[i][g] = a /\ hand'[i][g] = h
      /\ \A j \in Iter, f \in Stage : j # i \/ f # g =>
           at'[j][f] = at[j][f] /\ hand'[j][f] = hand[j][f]
  BY GotoEffect DEF Place
<1> SUFFICES ASSUME NEW j \in Iter, NEW f \in Stage
             PROVE  /\ worker[j] = "pipeline" => at'[j][f] # "off"
                    /\ at'[j][Fetch] # "select"
                    /\ at'[j][f] = "send" \/ (at'[j][f] = "work" /\ f # Fetch)
                         => hand'[j][f] # {}
  BY DEF ReadyInv
<1>2. Fetch \in Stage
  BY Stages
<1>3. at'[j][Fetch] # "select"
  BY <1>1, <1>2 DEF ReadyInv
<1>4. CASE j = i /\ f = g
  BY <1>1, <1>3, <1>4
<1>5. CASE j # i \/ f # g
  BY <1>1, <1>3, <1>5 DEF ReadyInv
<1> QED
  BY <1>4, <1>5

(* Its receiver has something to work on then.                             *)
LEMMA HandoverReady ==
  ASSUME TypeOK, HandInv, ReadyInv, worker' = worker,
         NEW i \in Iter, NEW g \in Fetch..Scan, Handover(i, g)
  PROVE  ReadyInv'
<1>1. g \in Stage /\ g + 1 \in Stage /\ g + 1 # Fetch /\ Fetch \in Stage /\ g \in Nat
  BY Stages
<1>2. PICK x \in hand[i][g] :
         /\ at'[i][g + 1] = "work" /\ hand'[i][g + 1] = {x}
         /\ hand'[i][g] = hand[i][g] \ {x}
         /\ \A j \in Iter, f \in Stage : j # i \/ f \notin {g, g + 1} =>
              at'[j][f] = at[j][f] /\ hand'[j][f] = hand[j][f]
         /\ at' = [at EXCEPT ![i][g] = IF hand[i][g] \ {x} # {} THEN "send"
                                       ELSE IF g = Fetch THEN "closed" ELSE "select",
                             ![i][g + 1] = "work"]
  <2>1. PICK x \in hand[i][g] :
          /\ at' = [at EXCEPT ![i][g] = IF hand[i][g] \ {x} # {} THEN "send"
                                        ELSE IF g = Fetch THEN "closed" ELSE "select",
                              ![i][g + 1] = "work"]
          /\ hand' = [hand EXCEPT ![i][g] = hand[i][g] \ {x}, ![i][g + 1] = {x}]
    BY DEF Handover
  <2>2. at \in [Iter -> [Stage -> Place]] /\ hand \in [Iter -> [Stage -> SUBSET Thing]]
    BY DEF TypeOK, Place, Thing
  <2>3. at'[i][g + 1] = "work"
    BY <1>1, <2>1, <2>2
  <2>4. hand'[i][g + 1] = {x} /\ hand'[i][g] = hand[i][g] \ {x}
    BY <1>1, <2>1, <2>2
  <2>5. \A j \in Iter, f \in Stage : j # i \/ f \notin {g, g + 1} =>
          at'[j][f] = at[j][f] /\ hand'[j][f] = hand[j][f]
    BY <1>1, <2>1, <2>2
  <2> QED
    BY <2>1, <2>3, <2>4, <2>5
<1>3. /\ at'[i][g] \in {"send", "select", "closed"}
      /\ at'[i][g] = "send" => hand'[i][g] # {}
      /\ g = Fetch => at'[i][g] # "select"
  <2>1. at \in [Iter -> [Stage -> Place]] /\ g # g + 1
    BY <1>1 DEF TypeOK, Place
  <2>2. at'[i][g] = IF hand[i][g] \ {x} # {} THEN "send"
                    ELSE IF g = Fetch THEN "closed" ELSE "select"
    BY <1>1, <1>2, <2>1
  <2> QED
    BY <1>2, <2>2
<1> SUFFICES ASSUME NEW j \in Iter, NEW f \in Stage
             PROVE  /\ worker[j] = "pipeline" => at'[j][f] # "off"
                    /\ at'[j][Fetch] # "select"
                    /\ at'[j][f] = "send" \/ (at'[j][f] = "work" /\ f # Fetch)
                         => hand'[j][f] # {}
  BY DEF ReadyInv
<1>4. at'[j][Fetch] # "select"
  <2>1. CASE j = i /\ g = Fetch
    BY <1>3, <2>1
  <2>2. CASE j # i \/ g # Fetch
    BY <1>1, <1>2, <2>2 DEF ReadyInv
  <2> QED
    BY <2>1, <2>2
<1>5. CASE j = i /\ f = g
  BY <1>3, <1>4, <1>5
<1>6. CASE j = i /\ f = g + 1
  BY <1>2, <1>4, <1>6
<1>7. CASE j # i \/ f \notin {g, g + 1}
  <2>1. at'[j][f] = at[j][f] /\ hand'[j][f] = hand[j][f]
    BY <1>2, <1>7
  <2> QED
    BY <1>4, <2>1 DEF ReadyInv
<1> QED
  BY <1>5, <1>6, <1>7

(* The steps that no goroutine of a pipeline takes.                        *)
OutsideStep(i) ==
  \/ IterationStarts \/ IterationFails \/ RepeaterReturns \/ Flush \/ HandlingEnds \/ Stop
  \/ WaitWorkers(i) \/ Clean(i) \/ DeleteSnapshot(i) \/ CleanDone(i)

(* They leave the goroutines alone, and start none.                        *)
LEMMA OutsideReady ==
  ASSUME TypeOK, ReadyInv, NEW i \in Iter, OutsideStep(i)
  PROVE  ReadyInv'
<1>1. at' = at /\ hand' = hand
  BY DEF OutsideStep, IterationStarts, IterationFails, RepeaterReturns, Flush, HandlingEnds, Stop,
         WaitWorkers, Clean, DeleteSnapshot, CleanDone
<1>2. \A j \in Iter : worker'[j] = "pipeline" => worker[j] = "pipeline"
  <2>1. worker \in [Iter -> {"none", "starting", "pipeline", "clean", "deleting", "ended"}]
    BY DEF TypeOK
  <2>2. CASE IterationStarts
    BY <2>1, <2>2 DEF IterationStarts, At
  <2>3. CASE WaitWorkers(i) \/ Clean(i) \/ CleanDone(i)
    BY <2>1, <2>3 DEF WaitWorkers, Clean, CleanDone, At
  <2>4. CASE \/ IterationFails \/ RepeaterReturns \/ Flush \/ HandlingEnds \/ Stop
             \/ DeleteSnapshot(i)
    BY <2>4 DEF IterationFails, RepeaterReturns, Flush, HandlingEnds, Stop, DeleteSnapshot
  <2> QED
    BY <2>2, <2>3, <2>4 DEF OutsideStep
<1> QED
  BY <1>1, <1>2 DEF ReadyInv

(* Run starts all five goroutines, the first of them with its work.        *)
LEMMA StartReady ==
  ASSUME TypeOK, ReadyInv, NEW i \in Iter, WorkerStarts(i)
  PROVE  ReadyInv'
<1>1. /\ worker \in [Iter -> {"none", "starting", "pipeline", "clean", "deleting", "ended"}]
      /\ at \in [Iter -> [Stage -> Place]] /\ hand' = hand
  BY DEF TypeOK, Place, WorkerStarts
<1>2. CASE cancelled
  <2>1. at' = at /\ worker' = [worker EXCEPT ![i] = "ended"]
    BY <1>2 DEF WorkerStarts, At
  <2> QED
    BY <1>1, <2>1 DEF ReadyInv
<1>3. CASE ~cancelled
  <2>1. /\ at' = [at EXCEPT ![i] = [g \in Stage |-> IF g = Fetch THEN "work" ELSE "select"]]
        /\ worker' = [worker EXCEPT ![i] = "pipeline"]
    BY <1>3 DEF WorkerStarts, At
  <2>2. \A g \in Stage : at'[i][g] = IF g = Fetch THEN "work" ELSE "select"
    BY <1>1, <2>1
  <2>3. \A j \in Iter \ {i} : at'[j] = at[j] /\ worker'[j] = worker[j]
    BY <1>1, <2>1
  <2> SUFFICES ASSUME NEW j \in Iter, NEW f \in Stage
               PROVE  /\ worker'[j] = "pipeline" => at'[j][f] # "off"
                      /\ at'[j][Fetch] # "select"
                      /\ at'[j][f] = "send" \/ (at'[j][f] = "work" /\ f # Fetch)
                           => hand[j][f] # {}
    BY <1>1 DEF ReadyInv
  <2>4. CASE j = i
    BY <2>2, <2>4, Stages
  <2>5. CASE j # i
    BY <2>3, <2>5 DEF ReadyInv
  <2> QED
    BY <2>4, <2>5
<1> QED
  BY <1>2, <1>3

(* The steps in which one goroutine moves alone.                           *)
LEMMA AloneReady ==
  ASSUME TypeOK, ReadyInv, NEW i \in Iter,
         \/ TakeEvents(i) \/ FetchInstances(i) \/ CreateSnapshots(i) \/ VerifySnapshot(i)
         \/ ScanSnapshot(i) \/ CreateEvents(i)
         \/ \E g \in Stage : StageEnds(i, g) \/ SendCancelled(i, g)
  PROVE  ReadyInv'
<1>1. worker' = worker
  BY DEF TakeEvents, FetchInstances, CreateSnapshots, VerifySnapshot, ScanSnapshot, CreateEvents,
         StageEnds, SendCancelled, flavor
<1>2. /\ Fetch \in Stage /\ Replicate \in Stage /\ Verify \in Stage /\ Scan \in Stage
      /\ Create \in Stage
      /\ Fetch \notin {Replicate, Verify, Scan, Create}
  BY Stages
<1>3. \A g \in Stage : hand[i][g] \in SUBSET Thing
  BY DEF TypeOK, Thing
<1>4. CASE TakeEvents(i)
  BY <1>1, <1>2, <1>4, GotoReady DEF TakeEvents
<1>5. CASE FetchInstances(i)
  <2>1. PICK S \in SUBSET Instances : Goto(i, Fetch, IF S = {} THEN "closed" ELSE "send", S)
    BY <1>5 DEF FetchInstances
  <2>2. S \in SUBSET Thing
    BY DEF Thing
  <2>3. CASE S = {}
    BY <1>1, <1>2, <2>1, <2>2, <2>3, GotoReady
  <2>4. CASE S # {}
    BY <1>1, <1>2, <2>1, <2>2, <2>4, GotoReady
  <2> QED
    BY <2>3, <2>4
<1>6. CASE CreateSnapshots(i)
  <2>1. PICK V \in SUBSET Volumes :
          Goto(i, Replicate, IF {i} \X V = {} THEN "select" ELSE "send", {i} \X V)
    BY <1>6 DEF CreateSnapshots
  <2>2. {i} \X V \in SUBSET Thing
    BY DEF Thing, Snapshot
  <2>3. CASE {i} \X V = {}
    BY <1>1, <1>2, <2>1, <2>2, <2>3, GotoReady
  <2>4. CASE {i} \X V # {}
    BY <1>1, <1>2, <2>1, <2>2, <2>4, GotoReady
  <2> QED
    BY <2>3, <2>4
<1>7. CASE VerifySnapshot(i)
  <2>1. hand[i][Verify] # {}
    BY <1>2, <1>7 DEF VerifySnapshot, ReadyInv
  <2>2. CASE Goto(i, Verify, "send", hand[i][Verify])
    BY <1>1, <1>2, <1>3, <2>1, <2>2, GotoReady
  <2>3. CASE Goto(i, Verify, "select", {})
    BY <1>1, <1>2, <2>3, GotoReady
  <2> QED
    BY <1>7, <2>2, <2>3 DEF VerifySnapshot
<1>8. CASE ScanSnapshot(i)
  <2>1. hand[i][Scan] # {}
    BY <1>2, <1>8 DEF ScanSnapshot, ReadyInv
  <2>2. CASE Goto(i, Scan, "send", hand[i][Scan])
    BY <1>1, <1>2, <1>3, <2>1, <2>2, GotoReady
  <2>3. CASE Goto(i, Scan, "select", {})
    BY <1>1, <1>2, <2>3, GotoReady
  <2> QED
    BY <1>8, <2>2, <2>3 DEF ScanSnapshot
<1>9. CASE CreateEvents(i)
  <2>1. hand[i][Create] # {} /\ Goto(i, Create, "send", hand[i][Create])
    BY <1>2, <1>9 DEF CreateEvents, ReadyInv
  <2> QED
    BY <1>1, <1>2, <1>3, <2>1, GotoReady
<1>10. ASSUME NEW g \in Stage, StageEnds(i, g) PROVE ReadyInv'
  BY <1>1, <1>10, GotoReady DEF StageEnds
<1>11. ASSUME NEW g \in Stage, SendCancelled(i, g) PROVE ReadyInv'
  <2>1. CASE g \in {Verify, Scan}
    BY <1>1, <1>2, <1>11, <2>1, GotoReady DEF SendCancelled
  <2>2. CASE g \notin {Verify, Scan}
    BY <1>1, <1>11, <2>2, GotoReady DEF SendCancelled
  <2> QED
    BY <2>1, <2>2
<1> QED
  BY <1>4, <1>5, <1>6, <1>7, <1>8, <1>9, <1>10, <1>11

(* Every step keeps it.                                                    *)
LEMMA ReadyStep == VInv /\ ReadyInv /\ [Next]_vars => ReadyInv'
<1> SUFFICES ASSUME VInv, ReadyInv, [Next]_vars PROVE ReadyInv'
  OBVIOUS
<1>1. TypeOK /\ HandInv
  BY DEF VInv
<1>2. {Fetch, Replicate, Verify, Scan} = Fetch..Scan
  BY DEF Fetch, Replicate, Verify, Scan
<1>3. ASSUME NEW i \in Iter, OutsideStep(i) \/ WorkerStarts(i) PROVE ReadyInv'
  BY <1>1, <1>3, OutsideReady, StartReady
<1>4. ASSUME NEW i \in Iter, TakeEvents(i) \/ PipelineStep(i) PROVE ReadyInv'
  <2>1. ASSUME NEW g \in Fetch..Scan, Handover(i, g) PROVE ReadyInv'
    <3>1. worker' = worker
      BY <2>1 DEF Handover
    <3> QED
      BY <1>1, <2>1, <3>1, HandoverReady
  <2>2. CASE SendInstance(i) \/ SendSnapshot(i) \/ SendVerified(i) \/ SendResults(i)
    BY <1>2, <2>1, <2>2 DEF SendInstance, SendSnapshot, SendVerified, SendResults
  <2>3. CASE ~(SendInstance(i) \/ SendSnapshot(i) \/ SendVerified(i) \/ SendResults(i))
    BY <1>1, <1>4, <2>3, AloneReady
       DEF PipelineStep, FetchStep, ReplicateStep, VerifyStep, ScanStep
  <2> QED
    BY <2>2, <2>3
<1>5. CASE UNCHANGED vars
  BY <1>5 DEF vars, ReadyInv
<1>6. CASE \/ IterationStarts \/ IterationFails \/ RepeaterReturns \/ Flush \/ HandlingEnds \/ Stop
  <2>1. ASSUME Iter = {} PROVE ReadyInv'
    BY <2>1 DEF ReadyInv
  <2> QED
    BY <1>3, <1>6, <2>1 DEF OutsideStep
<1> QED
  BY <1>3, <1>4, <1>5, <1>6 DEF Next, WorkerStep, OutsideStep

(* Unless stopped, the last goroutine that is not through can receive from *)
(* one before it that sends, or learns that there is nothing more.         *)
LEMMA SomeoneGoesOn ==
  ASSUME VInv, ReadyInv, ~cancelled, NEW i \in Iter, worker[i] = "pipeline",
         at[i][Create] # "closed"
  PROVE  \E g \in Stage : CanStep(i, g)
<1> SUFFICES ASSUME \A g \in Stage : ~CanStep(i, g) PROVE FALSE
  OBVIOUS
<1>1. \A g \in Stage : at[i][g] \in {"send", "select", "closed"}
  <2>1. \A g \in Stage : at[i][g] \in {"off", "work", "select", "send", "closed"}
    BY DEF VInv, TypeOK
  <2> QED
    BY <2>1 DEF ReadyInv, CanStep
<1>2. repeater = "handle" /\ i = iterations
  <2>1. Running(i)
    BY <1>1, Stages DEF Running
  <2> QED
    BY <2>1 DEF VInv, CycleInv
<1>3. at[i][Create] = "select"
  BY <1>1, <1>2, Stages DEF CanStep, CanSend
<1>4. ASSUME NEW g \in {1, 2, 3, 4}, at[i][g + 1] = "select" PROVE at[i][g] = "select"
  <2>1. g \in Stage /\ g + 1 \in Stage /\ g # Create /\ g + 1 # Fetch /\ (g + 1) - 1 = g
    BY Stages
  <2>2. at[i][g] # "closed"
    BY <1>4, <2>1 DEF CanStep
  <2>3. at[i][g] # "send"
    BY <1>4, <2>1 DEF CanStep, CanSend, ReadyInv
  <2> QED
    BY <1>1, <2>1, <2>2, <2>3
<1>5. 4 + 1 = 5 /\ 3 + 1 = 4 /\ 2 + 1 = 3 /\ 1 + 1 = 2
  OBVIOUS
<1>6. at[i][4] = "select" /\ at[i][3] = "select" /\ at[i][2] = "select" /\ at[i][1] = "select"
  BY <1>3, <1>4, <1>5, Stages
<1> QED
  BY <1>6, Stages DEF ReadyInv

(* While a worker waits for its pipeline, the goroutines are all through,  *)
(* or one of them can take its next step, stopped or not.                  *)
THEOREM VulnerabilityNeverStuck == Spec => []PipelineNeverStuck
<1>1. Init => ReadyInv
  BY Stages DEF Init, ReadyInv
<1>2. VInv /\ ReadyInv => PipelineNeverStuck
  <2> SUFFICES ASSUME VInv, ReadyInv, NEW i \in Iter, worker[i] = "pipeline",
                      NEW f \in Stage, at[i][f] # "closed"
               PROVE  \E g \in Stage : CanStep(i, g)
    BY DEF PipelineNeverStuck
  <2>1. CASE cancelled
    <3>1. at[i][f] \in {"work", "select", "send"} /\ (at[i][f] = "select" => f # Fetch)
      <4>1. at[i][f] \in {"off", "work", "select", "send", "closed"}
        BY DEF VInv, TypeOK
      <4> QED
        BY <4>1 DEF ReadyInv
    <3> QED
      BY <2>1, <3>1 DEF CanStep
  <2>2. CASE ~cancelled /\ at[i][Create] = "closed"
    <3>1. \A g \in {2, 3, 4, 5} : at[i][g] = "closed" => at[i][g - 1] = "closed"
      BY <2>2, Stages DEF VInv, ChainInv
    <3>2. 5 - 1 = 4 /\ 4 - 1 = 3 /\ 3 - 1 = 2 /\ 2 - 1 = 1
      OBVIOUS
    <3> QED
      BY <2>2, <3>1, <3>2, Stages
  <2>3. CASE ~cancelled /\ at[i][Create] # "closed"
    BY <2>3, SomeoneGoesOn
  <2> QED
    BY <2>1, <2>2, <2>3
<1> QED
  BY <1>1, <1>2, ReadyStep, VulnerabilityVInv, PTL DEF Spec
=============================================================================
