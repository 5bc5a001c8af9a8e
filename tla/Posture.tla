------------------------------- MODULE Posture -------------------------------
(***************************************************************************)
(* The posture beater's data path: fetch goroutines send resources, two    *)
(* pipeline.Step stages evaluate and transform them, the publisher buffers *)
(* and flushes the events, and Stop takes it all down.  A resource makes   *)
(* one event, or none.                                                     *)
(***************************************************************************)
EXTENDS Naturals, Sequences, FiniteSets

CONSTANTS Fetchers,   \* fetch goroutines
          Kind,       \* does it send to resourceCh itself ("direct") or through
                      \* the goroutine of its AWS account ("org")?
          Items,      \* bound: resources one of them finds
          Cap,        \* resourceChBufferSize
          Buffer,     \* chBuffer
          Threshold,  \* eventsThreshold
          ClientSet   \* is flavorBase.client set? (newPostureFromCfg: no)

ASSUME PostureAssumption ==
  /\ Kind \in [Fetchers -> {"direct", "org"}]
  /\ {Items, Cap, Buffer, Threshold} \subseteq Nat \ {0}
  /\ ClientSet \in BOOLEAN

VARIABLES
  chan,       \* what is buffered in each channel
  closed,     \* the closed channels
  fetch,      \* state of each fetch goroutine
  sent,       \* how many resources it has sent
  forward,    \* the account goroutine of an org fetcher
  stage,      \* the resource each Step goroutine holds
  dropped,    \* history: resources whose fn failed
  buffer,     \* eventsToSend
  published,  \* what the client got, in order
  publisher,  \* where HandleEvents is
  stop,       \* how far posture.Stop has come
  crashed     \* an unrecovered panic ended the process

chanVars == <<chan, closed>>
fetchVars == <<fetch, sent, forward>>
pubVars == <<buffer, published, publisher>>
vars == <<chanVars, fetchVars, stage, dropped, pubVars, stop, crashed>>

Resources == Fetchers \X (1..Items)
Channels == {"resource", "findings", "events"}
Stages == {"eval", "transform"}
In == [s \in Stages |-> IF s = "eval" THEN "resource" ELSE "findings"]
Out == [s \in Stages |-> IF s = "eval" THEN "findings" ELSE "events"]
Capacity(c) == IF c = "resource" THEN Cap ELSE Buffer

(* The posture's context; the fetchers' own is cancelled from "manager" on. *)
ContextDone == stop = "cancelled"

Init ==
  /\ chan = [c \in Channels |-> <<>>] /\ closed = {}
  /\ fetch = [f \in Fetchers |-> "run"]
  /\ sent = [f \in Fetchers |-> 0]
  /\ forward = [f \in Fetchers |-> "receive"]
  /\ stage = [s \in Stages |-> <<>>] /\ dropped = {}
  /\ buffer = <<>> /\ published = <<>> /\ publisher = "select"
  /\ stop = "run" /\ crashed = FALSE

-----------------------------------------------------------------------------
(* Channels: a send needs room in an open channel.                         *)
CanSend(c) == c \notin closed /\ Len(chan[c]) < Capacity(c)
Push(c, r) == chan' = [chan EXCEPT ![c] = Append(@, r)]
Pop(c) == chan' = [chan EXCEPT ![c] = Tail(@)]

Current(f) == <<f, sent[f]>>
More(f) == fetch[f] = "run" /\ sent[f] < Items

(* resourceCh <- resource, plainly or in a select. *)
Send(f) ==
  /\ More(f) /\ Kind[f] = "direct" /\ CanSend("resource")
  /\ Push("resource", <<f, sent[f] + 1>>)
  /\ sent' = [sent EXCEPT ![f] = @ + 1]
  /\ UNCHANGED <<closed, fetch, forward, stage, dropped, pubVars, stop, crashed>>

(* A send on the closed channel panics; fetchProtected recovers. *)
SendPanics(f) ==
  /\ More(f) /\ Kind[f] = "direct" /\ "resource" \in closed
  /\ fetch' = [fetch EXCEPT ![f] = "recovered"]
  /\ UNCHANGED <<chanVars, sent, forward, stage, dropped, pubVars, stop, crashed>>

(* Fetch has no more resources, failed, or saw ctx.Done in its select. *)
FetchReturns(f) ==
  /\ fetch[f] = "run"
  /\ fetch' = [fetch EXCEPT ![f] = "returned"]
  /\ UNCHANGED <<chanVars, sent, forward, stage, dropped, pubVars, stop, crashed>>

(* An account's fetcher sends to that account's unbuffered channel. *)
Handover(f) ==
  /\ More(f) /\ Kind[f] = "org" /\ forward[f] = "receive"
  /\ forward' = [forward EXCEPT ![f] = "send"]
  /\ sent' = [sent EXCEPT ![f] = @ + 1]
  /\ UNCHANGED <<chanVars, fetch, stage, dropped, pubVars, stop, crashed>>

Forward(f) ==
  /\ forward[f] = "send" /\ CanSend("resource")
  /\ Push("resource", Current(f))
  /\ forward' = [forward EXCEPT ![f] = "receive"]
  /\ UNCHANGED <<closed, fetch, sent, stage, dropped, pubVars, stop, crashed>>

(* The account goroutine sends on the closed channel: nobody recovers. *)
ForwardPanics(f) ==
  /\ forward[f] = "send" /\ "resource" \in closed
  /\ crashed' = TRUE
  /\ UNCHANGED <<chanVars, fetchVars, stage, dropped, pubVars, stop>>

(* Its ctx is the posture's, not the manager's. *)
ForwardEnds(f) ==
  /\ Kind[f] = "org" /\ forward[f] # "end" /\ ContextDone
  /\ forward' = [forward EXCEPT ![f] = "end"]
  /\ dropped' = IF forward[f] = "send" THEN dropped \cup {Current(f)} ELSE dropped
  /\ UNCHANGED <<chanVars, fetch, sent, stage, pubVars, stop, crashed>>

-----------------------------------------------------------------------------
(* One pass of Step's loop: receive, apply fn, send the result. *)
StageReceive(s) ==
  /\ stage[s] = <<>> /\ Out[s] \notin closed /\ chan[In[s]] # <<>>
  /\ stage' = [stage EXCEPT ![s] = <<Head(chan[In[s]])>>]
  /\ Pop(In[s])
  /\ UNCHANGED <<closed, fetchVars, dropped, pubVars, stop, crashed>>

(* Mutant: no continue after an error. *)
StageDropsAndSends(s) ==
  /\ stage[s] # <<>>
  /\ stage' = stage
  /\ dropped' = dropped \cup {stage[s][1]}
  /\ UNCHANGED <<chanVars, fetchVars, pubVars, stop, crashed>>

(* fn returns an error, or no events. *)
StageDrops(s) ==
  /\ stage[s] # <<>>
  /\ stage' = [stage EXCEPT ![s] = <<>>]
  /\ dropped' = dropped \cup {stage[s][1]}
  /\ UNCHANGED <<chanVars, fetchVars, pubVars, stop, crashed>>

(* Mutant: the value is sent again when the channel was full. *)
StageSendsTwice(s) ==
  /\ stage[s] # <<>> /\ CanSend(Out[s])
  /\ Push(Out[s], stage[s][1])
  /\ UNCHANGED <<closed, fetchVars, stage, dropped, pubVars, stop, crashed>>

StageSends(s) ==
  /\ stage[s] # <<>> /\ CanSend(Out[s])
  /\ Push(Out[s], stage[s][1])
  /\ stage' = [stage EXCEPT ![s] = <<>>]
  /\ UNCHANGED <<closed, fetchVars, dropped, pubVars, stop, crashed>>

(* Mutant: the output is closed while input is left. *)
StageEndsEarly(s) ==
  /\ stage[s] = <<>> /\ Out[s] \notin closed
  /\ In[s] \in closed
  /\ closed' = closed \cup {Out[s]}
  /\ UNCHANGED <<chan, fetchVars, stage, dropped, pubVars, stop, crashed>>

(* The range loop ends when the input is closed and drained. *)
StageEnds(s) ==
  /\ stage[s] = <<>> /\ Out[s] \notin closed
  /\ In[s] \in closed /\ chan[In[s]] = <<>>
  /\ closed' = closed \cup {Out[s]}
  /\ UNCHANGED <<chan, fetchVars, stage, dropped, pubVars, stop, crashed>>

-----------------------------------------------------------------------------
(* publish *)
Flush(events) == published' = published \o events /\ buffer' = <<>>

(* Mutant: no flush on a tick. *)
PublisherTickIdle == FALSE

PublisherTick ==
  /\ publisher = "select" /\ buffer # <<>>
  /\ Flush(buffer)
  /\ UNCHANGED <<chanVars, fetchVars, stage, dropped, publisher, stop, crashed>>

PublisherReceive ==
  /\ publisher = "select" /\ chan["events"] # <<>>
  /\ Pop("events")
  /\ LET events == Append(buffer, Head(chan["events"]))
     IN IF Len(events) < Threshold THEN buffer' = events /\ UNCHANGED published
                                   ELSE Flush(events)
  /\ UNCHANGED <<closed, fetchVars, stage, dropped, publisher, stop, crashed>>

PublisherClosed ==
  /\ publisher = "select" /\ chan["events"] = <<>> /\ "events" \in closed
  /\ Flush(buffer)
  /\ publisher' = "closed"
  /\ UNCHANGED <<chanVars, fetchVars, stage, dropped, stop, crashed>>

PublisherDone ==
  /\ publisher = "select" /\ ContextDone
  /\ Flush(buffer)
  /\ publisher' = "done"
  /\ UNCHANGED <<chanVars, fetchVars, stage, dropped, stop, crashed>>

-----------------------------------------------------------------------------
(* posture.Stop: benchmark.Stop is manager.Stop and close(resourceCh); then *)
(* client.Close, which panics if no client is set, and cancel.             *)
ManagerStop ==
  /\ stop = "run" /\ stop' = "manager"
  /\ UNCHANGED <<chanVars, fetchVars, stage, dropped, pubVars, crashed>>

(* Mutant: manager.Stop waits for the fetchers first. *)
CloseResourceChWaits ==
  /\ stop = "manager" /\ \A f \in Fetchers : fetch[f] # "run"
  /\ stop' = "closed"
  /\ closed' = closed \cup {"resource"}
  /\ UNCHANGED <<chan, fetchVars, stage, dropped, pubVars, crashed>>

CloseResourceCh ==
  /\ stop = "manager" /\ stop' = "closed"
  /\ closed' = closed \cup {"resource"}
  /\ UNCHANGED <<chan, fetchVars, stage, dropped, pubVars, crashed>>

ClientClose ==
  /\ stop = "closed"
  /\ IF ClientSet THEN stop' = "client" /\ UNCHANGED crashed
                  ELSE crashed' = TRUE /\ UNCHANGED stop
  /\ UNCHANGED <<chanVars, fetchVars, stage, dropped, pubVars>>

Cancel ==
  /\ stop = "client" /\ stop' = "cancelled"
  /\ UNCHANGED <<chanVars, fetchVars, stage, dropped, pubVars, crashed>>

-----------------------------------------------------------------------------
FetchStep(f) == Send(f) \/ SendPanics(f) \/ FetchReturns(f) \/ Handover(f)
ForwardStep(f) == Forward(f) \/ ForwardPanics(f) \/ ForwardEnds(f)
StageStep(s) == StageReceive(s) \/ StageDrops(s) \/ StageSends(s) \/ StageEnds(s)
PublisherStep == PublisherReceive \/ PublisherClosed \/ PublisherDone
StopStep == CloseResourceCh \/ ClientClose \/ Cancel

Next ==
  /\ ~crashed
  /\ \/ \E f \in Fetchers : FetchStep(f) \/ ForwardStep(f)
     \/ \E s \in Stages : StageStep(s)
     \/ PublisherStep \/ PublisherTick
     \/ ManagerStop \/ StopStep

Spec == Init /\ [][Next]_vars

(* Goroutines run, the ticker fires, and a select does not pass over a     *)
(* ready case for ever.                                                    *)
Fairness ==
  /\ \A f \in Fetchers : WF_vars(~crashed /\ ForwardStep(f))
  /\ \A s \in Stages : WF_vars(~crashed /\ StageStep(s))
  /\ WF_vars(~crashed /\ PublisherStep)
  /\ WF_vars(~crashed /\ PublisherTick)
  /\ WF_vars(~crashed /\ PublisherDone)
  /\ WF_vars(~crashed /\ StopStep)
FairSpec == Spec /\ Fairness

-----------------------------------------------------------------------------
TypeOK ==
  /\ chan \in [Channels -> Seq(Resources)]
  /\ \A c \in Channels : Len(chan[c]) <= Capacity(c)
  /\ closed \subseteq Channels
  /\ fetch \in [Fetchers -> {"run", "returned", "recovered"}]
  /\ sent \in [Fetchers -> 0..Items]
  /\ forward \in [Fetchers -> {"receive", "send", "end"}]
  /\ \A f \in Fetchers : forward[f] = "send" => sent[f] > 0
  /\ stage \in [Stages -> {<<>>} \cup {<<r>> : r \in Resources}]
  /\ dropped \subseteq Resources
  /\ buffer \in Seq(Resources) /\ Len(buffer) < Threshold
  /\ published \in Seq(Resources)
  /\ publisher \in {"select", "closed", "done"}
  /\ stop \in {"run", "manager", "closed", "client", "cancelled"}
  /\ crashed \in BOOLEAN

(* Everything between the fetchers and the client, oldest first. *)
BeforeTransform == chan["findings"] \o (stage["eval"] \o chan["resource"])
InPipeline == buffer \o (chan["events"] \o (stage["transform"] \o BeforeTransform))
Trail == published \o InPipeline

(* Account goroutines hold one resource each, and have not sent it on. *)
HeldSet == {Current(f) : f \in {g \in Fetchers : forward[g] = "send"}}

(* What fetchers have sent so far. *)
SentSet == {r \in Resources : r[2] <= sent[r[1]]}

(* No resource is lost, duplicated or overtaken by a later one of the same *)
(* fetcher between its send and the client: fetchers, account goroutines,  *)
(* two stages and the publisher hand on each exactly once, in order.       *)
InOrder ==
  \A i, j \in DOMAIN Trail : i < j /\ Trail[i][1] = Trail[j][1] => Trail[i][2] < Trail[j][2]
NothingLost == {Trail[i] : i \in DOMAIN Trail} \cup HeldSet = SentSet \ dropped
HeldOnce == \A i \in DOMAIN Trail : Trail[i] \notin HeldSet

ExactlyOnceInOrder == InOrder /\ NothingLost /\ HeldOnce

(* A stage closes its output only when its input is closed and empty, and  *)
(* HandleEvents ends only on a closed and empty channel or a done context. *)
DrainInv ==
  /\ \A st \in Stages : Out[st] \in closed =>
       In[st] \in closed /\ chan[In[st]] = <<>> /\ stage[st] = <<>>
  /\ publisher = "closed" => "events" \in closed /\ chan["events"] = <<>>
  /\ publisher # "select" => buffer = <<>>

(* If HandleEvents ends because its channel was closed, nothing is left    *)
(* behind: closing resourceCh drains both stages before they close theirs. *)
ClosedMeansDrained == publisher = "closed" => InPipeline = <<>>

(* The pipeline keeps the promise of Delivery. *)
PublishedSet == {published[i] : i \in DOMAIN published}
StatusOf(r) ==
  IF r \in PublishedSet THEN "published"
  ELSE IF r \in dropped THEN "lost"
  ELSE IF r[2] <= sent[r[1]] THEN "accepted" ELSE "new"

Promise == INSTANCE Delivery WITH status <- [r \in Resources |-> StatusOf(r)],
                                  open <- publisher = "select"
Delivers == Promise!Spec

(* "fetchProtected protect the fetching goroutine from getting panic": no  *)
(* panic of a fetch ends the process when Stop closes resourceCh.          *)
NoCrash == ~crashed

(* While the beater runs, every resource sent is published or dropped by a *)
(* failing fn, however few follow it.                                      *)
Arrives(r) == r \in PublishedSet \cup dropped
EventuallyPublished ==
  \A f \in Fetchers, n \in 1..Items :
    sent[f] >= n /\ stop = "run" ~> Arrives(<<f, n>>) \/ ContextDone \/ crashed

(* Stop makes Run return: the publisher ends. *)
StopEndsRun == stop = "manager" ~> publisher # "select" \/ crashed

(* What EventuallyPublished and StopEndsRun rest on, beside fairness: a    *)
(* goroutine that can move, without losing anything.                       *)
StageCanStep(s) ==
  \/ stage[s] # <<>> /\ CanSend(Out[s])
  \/ stage[s] = <<>> /\ Out[s] \notin closed /\ (chan[In[s]] # <<>> \/ In[s] \in closed)
PublisherCanStep == chan["events"] # <<>> \/ "events" \in closed \/ ContextDone
SomeoneCanStep ==
  \/ PublisherCanStep \/ \E s \in Stages : StageCanStep(s)
  \/ \E f \in Fetchers : forward[f] = "send" /\ CanSend("resource")

(* Something is between the fetchers and the buffer, or the end of the     *)
(* input is.                                                               *)
UnderWay ==
  \/ "resource" \in closed \/ HeldSet # {}
  \/ \E s \in Stages : stage[s] # <<>> \/ chan[In[s]] # <<>>
  \/ chan["events"] # <<>>

(* Bounded channels, but no deadlock: while the publisher is there, full   *)
(* channels never hold each other up, and a closed one is noticed.         *)
NeverStuck == publisher = "select" /\ UnderWay => SomeoneCanStep

(* How many steps what is under way has left, if nothing is added: each    *)
(* resource to the buffer, and the end of each stage.                      *)
Open(c) == IF c \in closed THEN 0 ELSE 1
Weigh(r, e, f, t, v, x, y) == 5 * r + 4 * e + 3 * f + 2 * t + v + x + y
Work == Weigh(Len(chan["resource"]), Len(stage["eval"]), Len(chan["findings"]),
              Len(stage["transform"]), Len(chan["events"]), Open("findings"), Open("events"))

(* Every step of a stage, and every receive of the publisher, is one fewer *)
(* to go; once resourceCh is closed nothing adds to them, though fetchers  *)
(* and account goroutines may still be running.  So Stop drains the        *)
(* pipeline in as many steps as Work says.                                 *)
WorkRunsOut ==
  [][/\ "resource" \in closed => Work' <= Work
     /\ PublisherReceive \/ (\E s \in Stages : StageStep(s)) => Work' < Work]_vars
=============================================================================
