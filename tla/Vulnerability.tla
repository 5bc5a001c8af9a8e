--------------------------- MODULE Vulnerability ---------------------------
(***************************************************************************)
(* The vulnerability flavor: the repeater runs an iteration per period,    *)
(* the iteration starts a worker and publishes its events until they end.  *)
(* The worker is a pipeline of five goroutines on unbuffered channels      *)
(* (fetch instances, snapshot their volumes, verify that the snapshots are *)
(* completed, scan them, create events), then it deletes the snapshots.    *)
(***************************************************************************)
EXTENDS Naturals, FiniteSets

CONSTANTS Instances,  \* EC2 instances that may be found
          Volumes,    \* volumes of instances, as pairs <<instance, volume>>
          MaxIter     \* bound on the iterations

ASSUME VulnerabilityAssumption == MaxIter \in Nat

VARIABLES
  repeater,   \* Repeater.Run: "select", "handle" (in HandleEvents), "returned"
  iterations, \* how many iterations were started
  buffer,     \* eventsToSend, as the scanned snapshots they are about
  unpublished,\* scanned with success, and no events given to the client yet
  cancelled,  \* bt.ctx
  worker,     \* VulnerabilityWorker.Run, per iteration
  at, hand,   \* where each goroutine of a worker is, what it has in hand
  listed,     \* the snapshots the replicator collects and the cleaner deletes
  undeleted   \* snapshots that exist, and DeleteSnapshot was not called for

vars == <<repeater, iterations, buffer, unpublished, cancelled, worker, at, hand,
          listed, undeleted>>

flavor == <<repeater, iterations, buffer, cancelled>>

Iter == 1..MaxIter
Snapshot == Iter \X Volumes

Fetch == 1
Replicate == 2
Verify == 3
Scan == 4
Create == 5
Stage == Fetch..Create

Init ==
  /\ repeater = "select" /\ iterations = 0
  /\ buffer = {} /\ unpublished = {} /\ cancelled = FALSE
  /\ worker = [i \in Iter |-> "none"]
  /\ at = [i \in Iter |-> [g \in Stage |-> "off"]]
  /\ hand = [i \in Iter |-> [g \in Stage |-> {}]]
  /\ listed = [i \in Iter |-> {}]
  /\ undeleted = {}

At(f, x, v) == [f EXCEPT ![x] = v]
Goto(i, g, a, h) ==
  at' = [at EXCEPT ![i][g] = a] /\ hand' = [hand EXCEPT ![i][g] = h]

-----------------------------------------------------------------------------
(* Repeater.Run, with runIteration.  A tick may be taken though the        *)
(* context is done as well.                                                *)
IterationStarts ==
  /\ repeater = "select" /\ iterations < MaxIter
  /\ iterations' = iterations + 1
  /\ repeater' = "handle"
  /\ worker' = At(worker, iterations + 1, "starting")
  /\ UNCHANGED <<buffer, unpublished, cancelled, at, hand, listed, undeleted>>

(* NewVulnerabilityWorker fails: the flavor stops itself. *)
IterationFails ==
  /\ repeater = "select" /\ iterations < MaxIter
  /\ iterations' = iterations + 1
  /\ cancelled' = TRUE /\ repeater' = "returned"
  /\ UNCHANGED <<buffer, unpublished, worker, at, hand, listed, undeleted>>

RepeaterReturns ==
  /\ repeater = "select" /\ cancelled
  /\ repeater' = "returned"
  /\ UNCHANGED <<iterations, buffer, unpublished, cancelled, worker, at, hand, listed,
                 undeleted>>

(* HandleEvents takes a slice of events; at the threshold it publishes.    *)
TakeEvents(i) ==
  /\ repeater = "handle" /\ i = iterations /\ at[i][Create] = "send"
  /\ \/ buffer' = buffer \cup hand[i][Create] /\ UNCHANGED unpublished
     \/ buffer' = {} /\ unpublished' = unpublished \ (buffer \cup hand[i][Create])
  /\ Goto(i, Create, "select", {})
  /\ UNCHANGED <<repeater, iterations, cancelled, worker, listed, undeleted>>

Flush ==
  /\ repeater = "handle" /\ buffer # {}
  /\ unpublished' = unpublished \ buffer /\ buffer' = {}
  /\ UNCHANGED <<repeater, iterations, cancelled, worker, at, hand, listed, undeleted>>

(* Mutant: HandleEvents waits for the channel only. *)
HandlingIgnoresStop ==
  /\ repeater = "handle" /\ at[iterations][Create] = "closed"
  /\ unpublished' = unpublished \ buffer /\ buffer' = {}
  /\ repeater' = "select"
  /\ UNCHANGED <<iterations, cancelled, worker, at, hand, listed, undeleted>>

(* Mutant: what is in the buffer is dropped when the channel is closed. *)
HandlingDrops ==
  /\ repeater = "handle"
  /\ cancelled \/ at[iterations][Create] = "closed"
  /\ buffer' = {} /\ repeater' = "select"
  /\ UNCHANGED <<iterations, unpublished, cancelled, worker, at, hand, listed, undeleted>>

HandlingEnds ==
  /\ repeater = "handle"
  /\ cancelled \/ at[iterations][Create] = "closed"
  /\ unpublished' = unpublished \ buffer /\ buffer' = {}
  /\ repeater' = "select"
  /\ UNCHANGED <<iterations, cancelled, worker, at, hand, listed, undeleted>>

Stop ==
  /\ ~cancelled /\ cancelled' = TRUE
  /\ UNCHANGED <<repeater, iterations, buffer, unpublished, worker, at, hand, listed,
                 undeleted>>

-----------------------------------------------------------------------------
(* Mutant: Run does not look at the context before it starts. *)
WorkerStartsAnyway(i) ==
  /\ worker[i] = "starting"
  /\ worker' = At(worker, i, "pipeline")
  /\ at' = At(at, i, [g \in Stage |-> IF g = Fetch THEN "work" ELSE "select"])
  /\ UNCHANGED <<flavor, unpublished, hand, listed, undeleted>>

(* Run starts the five goroutines, unless the context is done.  Then no    *)
(* channel is ever closed.                                                 *)
WorkerStarts(i) ==
  /\ worker[i] = "starting"
  /\ worker' = At(worker, i, IF cancelled THEN "ended" ELSE "pipeline")
  /\ at' = IF cancelled THEN at
           ELSE At(at, i, [g \in Stage |-> IF g = Fetch THEN "work" ELSE "select"])
  /\ UNCHANGED <<flavor, unpublished, hand, listed, undeleted>>

(* Each stage selects the next input, until the stage before closed its    *)
(* channel or the context is done; closing its own channel is deferred.    *)
StageEnds(i, g) ==
  /\ g # Fetch /\ at[i][g] = "select"
  /\ cancelled \/ at[i][g - 1] = "closed"
  /\ Goto(i, g, "closed", {})
  /\ UNCHANGED <<flavor, unpublished, worker, listed, undeleted>>

(* Rendezvous of the stage g, which sends, with the next one. *)
Handover(i, g) ==
  /\ at[i][g] = "send" /\ at[i][g + 1] = "select"
  /\ \E x \in hand[i][g] :
       LET rest == hand[i][g] \ {x}
           next == IF rest # {} THEN "send" ELSE IF g = Fetch THEN "closed" ELSE "select"
       IN  /\ at' = [at EXCEPT ![i][g] = next, ![i][g + 1] = "work"]
           /\ hand' = [hand EXCEPT ![i][g] = rest, ![i][g + 1] = {x}]
  /\ UNCHANGED <<flavor, unpublished, worker, listed, undeleted>>

(* Mutant: the events creator sends without looking at the context. *)
SendNeverCancelled(i, g) ==
  /\ g # Create /\ cancelled /\ at[i][g] = "send"
  /\ Goto(i, g, IF g \in {Verify, Scan} THEN "select" ELSE "closed", {})
  /\ UNCHANGED <<flavor, unpublished, worker, listed, undeleted>>

(* A stage that waits to send gives up when the context is done.  Verifier *)
(* and scanner only leave verify and scan, and select again.               *)
SendCancelled(i, g) ==
  /\ cancelled /\ at[i][g] = "send"
  /\ Goto(i, g, IF g \in {Verify, Scan} THEN "select" ELSE "closed", {})
  /\ UNCHANGED <<flavor, unpublished, worker, listed, undeleted>>

-----------------------------------------------------------------------------
(* FetchInstances: DescribeInstances fails, or finds some.  (The order in  *)
(* which they are sent, by size of the root volume, is not modelled.)      *)
FetchInstances(i) ==
  /\ at[i][Fetch] = "work"
  /\ \E S \in SUBSET Instances :
       Goto(i, Fetch, IF S = {} THEN "closed" ELSE "send", S)
  /\ UNCHANGED <<flavor, unpublished, worker, listed, undeleted>>

SendInstance(i) == Handover(i, Fetch)

(* CreateSnapshots fails, or takes a snapshot of each volume; they are     *)
(* listed before any of them is sent.                                      *)
CreateSnapshots(i) ==
  /\ at[i][Replicate] = "work"
  /\ \E V \in SUBSET {v \in Volumes : v[1] \in hand[i][Replicate]} :
       LET sp == {i} \X V
       IN  /\ undeleted' = undeleted \cup sp
           /\ listed' = At(listed, i, listed[i] \cup sp)
           /\ Goto(i, Replicate, IF sp = {} THEN "select" ELSE "send", sp)
  /\ UNCHANGED <<flavor, unpublished, worker>>

SendSnapshot(i) == Handover(i, Replicate)

(* verify polls until AWS says that the snapshot is completed; it gives up *)
(* at its timeout or when the context is done.                             *)
VerifySnapshot(i) ==
  /\ at[i][Verify] = "work"
  /\ \/ Goto(i, Verify, "send", hand[i][Verify])
     \/ Goto(i, Verify, "select", {})
  /\ UNCHANGED <<flavor, unpublished, worker, listed, undeleted>>

SendVerified(i) == Handover(i, Verify)

(* scan has results to send, or fails anywhere before (a panic included). *)
ScanSnapshot(i) ==
  /\ at[i][Scan] = "work"
  /\ \/ /\ unpublished' = unpublished \cup hand[i][Scan]
        /\ Goto(i, Scan, "send", hand[i][Scan])
     \/ Goto(i, Scan, "select", {}) /\ UNCHANGED unpublished
  /\ UNCHANGED <<flavor, worker, listed, undeleted>>

SendResults(i) == Handover(i, Scan)

CreateEvents(i) ==
  /\ at[i][Create] = "work"
  /\ Goto(i, Create, "send", hand[i][Create])
  /\ UNCHANGED <<flavor, unpublished, worker, listed, undeleted>>

-----------------------------------------------------------------------------
(* Mutant: the worker waits for the replicator only. *)
WaitReplicatorOnly(i) ==
  /\ worker[i] = "pipeline" /\ at[i][Replicate] = "closed"
  /\ worker' = At(worker, i, "clean")
  /\ UNCHANGED <<flavor, unpublished, at, hand, listed, undeleted>>

WaitWorkers(i) ==
  /\ worker[i] = "pipeline" /\ \A g \in Stage : at[i][g] = "closed"
  /\ worker' = At(worker, i, "clean")
  /\ UNCHANGED <<flavor, unpublished, at, hand, listed, undeleted>>

(* CleanSnapshots: the select may take either when the context is done. *)
Clean(i) ==
  /\ worker[i] = "clean"
  /\ \/ worker' = At(worker, i, "deleting")
     \/ cancelled /\ worker' = At(worker, i, "ended")
  /\ UNCHANGED <<flavor, unpublished, at, hand, listed, undeleted>>

(* Mutant: the cleaner returns at the first error. *)
DeleteStopsAtError(i) ==
  /\ worker[i] = "deleting"
  /\ \E s \in listed[i] :
       /\ undeleted' = undeleted \ {s} /\ listed' = At(listed, i, listed[i] \ {s})
       /\ worker' \in {worker, At(worker, i, "ended")}
  /\ UNCHANGED <<flavor, unpublished, at, hand>>

(* DeleteSnapshot succeeds or fails, which is only logged; the cleaner     *)
(* goes on.                                                                *)
DeleteSnapshot(i) ==
  /\ worker[i] = "deleting"
  /\ \E s \in listed[i] : /\ undeleted' = undeleted \ {s}
                          /\ listed' = At(listed, i, listed[i] \ {s})
  /\ UNCHANGED <<flavor, unpublished, worker, at, hand>>

CleanDone(i) ==
  /\ worker[i] = "deleting" /\ listed[i] = {}
  /\ worker' = At(worker, i, "ended")
  /\ UNCHANGED <<flavor, unpublished, at, hand, listed, undeleted>>

-----------------------------------------------------------------------------
FetchStep(i) == FetchInstances(i) \/ SendInstance(i)
ReplicateStep(i) == CreateSnapshots(i) \/ SendSnapshot(i)
VerifyStep(i) == VerifySnapshot(i) \/ SendVerified(i)
ScanStep(i) == ScanSnapshot(i) \/ SendResults(i)
PipelineStep(i) ==
  \/ FetchStep(i) \/ ReplicateStep(i) \/ VerifyStep(i) \/ ScanStep(i) \/ CreateEvents(i)
  \/ \E g \in Stage : StageEnds(i, g) \/ SendCancelled(i, g)
WorkerStep(i) ==
  WorkerStarts(i) \/ WaitWorkers(i) \/ Clean(i) \/ DeleteSnapshot(i) \/ CleanDone(i)

Next ==
  \/ IterationStarts \/ IterationFails \/ RepeaterReturns \/ Flush \/ HandlingEnds \/ Stop
  \/ \E i \in Iter : TakeEvents(i) \/ PipelineStep(i) \/ WorkerStep(i)

Spec == Init /\ [][Next]_vars

(* Goroutines run, and the calls to AWS and to the scanner return.         *)
Fairness ==
  /\ WF_vars(RepeaterReturns) /\ WF_vars(HandlingEnds)
  /\ \A i \in Iter : /\ WF_vars(TakeEvents(i)) /\ WF_vars(WorkerStep(i))
                     /\ WF_vars(PipelineStep(i))
FairSpec == Spec /\ Fairness

-----------------------------------------------------------------------------
TypeOK ==
  /\ repeater \in {"select", "handle", "returned"} /\ iterations \in 0..MaxIter
  /\ cancelled \in BOOLEAN
  /\ buffer \subseteq Snapshot /\ unpublished \subseteq Snapshot
  /\ worker \in [Iter -> {"none", "starting", "pipeline", "clean", "deleting", "ended"}]
  /\ at \in [Iter -> [Stage -> {"off", "work", "select", "send", "closed"}]]
  /\ hand \in [Iter -> [Stage -> SUBSET (Instances \cup Snapshot)]]
  /\ listed \in [Iter -> SUBSET Snapshot]
  /\ undeleted \subseteq Snapshot

Running(i) == \E g \in Stage : at[i][g] \notin {"off", "closed"}

(* The snapshots that a goroutine of the worker i may use next. *)
InUse(i) == hand[i][Verify] \cup hand[i][Scan]
            \cup IF at[i][Replicate] = "send" THEN hand[i][Replicate] ELSE {}

(* A goroutine has something in hand only between receiving and sending. *)
HandInv ==
  \A i \in Iter, g \in Stage :
    at[i][g] \in {"off", "select", "closed"} => hand[i][g] = {}

(* The goroutines run in one phase of their worker only. *)
PhaseInv ==
  /\ repeater = "handle" => iterations \in Iter
  /\ \A i \in Iter : /\ i > iterations => worker[i] = "none"
                     /\ worker[i] \in {"none", "starting"} =>
                          \A g \in Stage : at[i][g] = "off"
                     /\ Running(i) => worker[i] = "pipeline"

(* A worker uses its own snapshots, and lists all it has not deleted yet.  *)
Own(i) == {i} \X Volumes
ListInv ==
  /\ \A i \in Iter : InUse(i) \cup hand[i][Create] \cup listed[i] \subseteq Own(i)
  /\ \A s \in undeleted : s \in listed[s[1]]

(* Unless stopped, only the iteration that is being handled runs. *)
CycleInv ==
  ~cancelled => \A i \in Iter : worker[i] = "starting" \/ Running(i) =>
                                i = iterations /\ repeater = "handle"

(* Unless stopped, the stages close from the first to the last. *)
ChainInv ==
  ~cancelled => \A i \in Iter, g \in Stage :
                  g # Fetch /\ at[i][g] = "closed" => at[i][g - 1] = "closed"

(* Unless stopped, what is not published yet is on its way to be. *)
OnTheWay(i) == hand[i][Create] \cup IF at[i][Scan] = "send" THEN hand[i][Scan] ELSE {}
DeliveryInv ==
  ~cancelled => unpublished \subseteq IF repeater = "handle" THEN buffer \cup OnTheWay(iterations)
                                      ELSE {}

(* No snapshot is deleted while it is still to be sent, verified or        *)
(* scanned: the cleaner starts only after the whole pipeline.              *)
NoUseAfterDelete == \A i \in Iter : InUse(i) \subseteq undeleted

(* When a worker has ended AWS was asked to delete each of its snapshots,  *)
(* or the flavor was stopped.                                              *)
NoSnapshotForgotten == \A s \in undeleted : worker[s[1]] = "ended" => cancelled

(* Iterations overlap only while the earlier ones clean up: at most one    *)
(* pipeline has goroutines that run.                                       *)
OnePipeline == \A i, j \in Iter : Running(i) /\ Running(j) => i = j

(* Unless stopped, the repeater waits for its next tick only when all that *)
(* was scanned has been published.                                         *)
NothingLost == repeater = "select" /\ ~cancelled => unpublished = {}

(* The parts of the worker's state agree: what is in hand, in which phase, *)
(* listed, and published.                                                  *)
VInv == TypeOK /\ HandInv /\ PhaseInv /\ ListInv /\ CycleInv /\ ChainInv
         /\ DeliveryInv

(* Every worker ends, stopped or not, with or without a publisher. *)
WorkerEnds == \A i \in Iter : worker[i] = "starting" ~> worker[i] = "ended"

(* After Stop, Run returns. *)
StopEnds == cancelled ~> repeater = "returned"

(* What WorkerEnds rests on, beside fairness: a goroutine of the pipeline  *)
(* that works, can hand on what it has, can receive, or sees that the      *)
(* context is done or that its channel was closed.                         *)
CanSend(i, g) ==
  IF g = Create THEN repeater = "handle" /\ i = iterations
                ELSE at[i][g + 1] = "select" /\ hand[i][g] # {}
CanStep(i, g) ==
  \/ at[i][g] = "work"
  \/ at[i][g] = "send" /\ (cancelled \/ CanSend(i, g))
  \/ at[i][g] = "select" /\ g # Fetch /\ (cancelled \/ at[i][g - 1] = "closed")

(* Unbuffered channels, but no deadlock: as long as a worker waits for its *)
(* goroutines, they are all through or one of them can take its next step, *)
(* though the one that takes the events may have left.                     *)
PipelineNeverStuck ==
  \A i \in Iter : worker[i] = "pipeline" =>
    (\A g \in Stage : at[i][g] = "closed") \/ \E g \in Stage : CanStep(i, g)
=============================================================================
