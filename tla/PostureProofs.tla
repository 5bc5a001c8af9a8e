---------------------------- MODULE PostureProofs ----------------------------
(***************************************************************************)
(* Posture for every set of fetchers, channel capacity and threshold.      *)
(***************************************************************************)
EXTENDS Posture, SequenceTheorems, TLAPS

USE PostureAssumption

(* The part of TypeOK about the channels. *)
ChanOK == /\ chan \in [Channels -> Seq(Resources)]
          /\ \A c \in Channels : Len(chan[c]) <= Capacity(c)

(* A send into a channel with room keeps it within its capacity. *)
LEMMA PushOK ==
  ASSUME ChanOK, NEW c \in Channels, NEW r \in Resources, CanSend(c), Push(c, r)
  PROVE  ChanOK'
<1>1. Append(chan[c], r) \in Seq(Resources) /\ Len(Append(chan[c], r)) = Len(chan[c]) + 1
  BY DEF ChanOK
<1>2. chan' = [chan EXCEPT ![c] = Append(chan[c], r)]
  BY DEF Push
<1>3. chan' \in [Channels -> Seq(Resources)]
  BY <1>1, <1>2 DEF ChanOK
<1>4. ASSUME NEW d \in Channels PROVE Len(chan'[d]) <= Capacity(d)
  <2>1. CASE d = c
    <3>1. Len(chan[c]) < Capacity(c) /\ Capacity(c) \in Nat /\ Len(chan[c]) \in Nat
      BY DEF CanSend, Capacity, ChanOK
    <3>2. chan'[d] = Append(chan[c], r)
      BY <1>2, <2>1 DEF ChanOK
    <3> QED
      BY <1>1, <2>1, <3>1, <3>2
  <2>2. CASE d # c
    BY <1>2, <2>2 DEF ChanOK
  <2> QED
    BY <2>1, <2>2
<1>5. \A d \in Channels : Capacity(d)' = Capacity(d)
  BY DEF Capacity
<1> QED
  BY <1>3, <1>4, <1>5 DEF ChanOK

(* Receiving takes a resource out and keeps the capacity. *)
LEMMA PopOK ==
  ASSUME ChanOK, NEW c \in Channels, chan[c] # <<>>, Pop(c)
  PROVE  ChanOK' /\ Head(chan[c]) \in Resources
<1>1. Tail(chan[c]) \in Seq(Resources) /\ Len(Tail(chan[c])) <= Len(chan[c])
      /\ Head(chan[c]) \in Resources
  BY DEF ChanOK
<1>2. chan' = [chan EXCEPT ![c] = Tail(chan[c])]
  BY DEF Pop
<1>3. chan' \in [Channels -> Seq(Resources)]
  BY <1>1, <1>2 DEF ChanOK
<1>4. ASSUME NEW d \in Channels PROVE Len(chan'[d]) <= Capacity(d)
  <2>1. CASE d = c
    <3>1. Len(Tail(chan[c])) \in Nat /\ Len(chan[c]) \in Nat /\ Capacity(c) \in Nat
          /\ Len(chan[c]) <= Capacity(c)
      BY <1>1 DEF Capacity, ChanOK
    <3>2. chan'[d] = Tail(chan[c])
      BY <1>2, <2>1 DEF ChanOK
    <3> QED
      BY <1>1, <2>1, <3>1, <3>2
  <2>2. CASE d # c
    BY <1>2, <2>2 DEF ChanOK
  <2> QED
    BY <2>1, <2>2
<1>5. \A d \in Channels : Capacity(d)' = Capacity(d)
  BY DEF Capacity
<1> QED
  BY <1>1, <1>3, <1>4, <1>5 DEF ChanOK

(* Type correctness is kept by every step. *)
LEMMA TypeStep == TypeOK /\ [Next]_vars => TypeOK'
<1> SUFFICES ASSUME TypeOK, [Next]_vars PROVE TypeOK'
  OBVIOUS
<1> USE DEF TypeOK, Channels, Stages, In, Out, Capacity, Resources
<1>1. CASE UNCHANGED vars
  BY <1>1 DEF vars, chanVars, fetchVars, pubVars
<1>2. ASSUME NEW f \in Fetchers, Send(f) PROVE TypeOK'
  <2>1. ChanOK /\ <<f, sent[f] + 1>> \in Resources /\ sent[f] + 1 \in 0..Items
    BY <1>2 DEF ChanOK, Send, More
  <2>2. ChanOK'
    BY <1>2, <2>1, PushOK DEF Send
  <2>3. sent' \in [Fetchers -> 0..Items]
    BY <1>2, <2>1 DEF Send
  <2>4. ASSUME NEW g \in Fetchers, forward'[g] = "send" PROVE sent'[g] > 0
    <3>1. sent[f] + 1 > 0 /\ sent[g] > 0
      BY <1>2, <2>4 DEF Send
    <3>2. sent'[g] = IF g = f THEN sent[f] + 1 ELSE sent[g]
      BY <1>2 DEF Send
    <3> QED
      BY <3>1, <3>2
  <2> QED
    BY <1>2, <2>2, <2>3, <2>4 DEF ChanOK, Send, chanVars, fetchVars, pubVars
<1>3. ASSUME NEW f \in Fetchers, SendPanics(f) PROVE TypeOK'
  BY <1>3 DEF SendPanics, chanVars, fetchVars, pubVars
<1>4. ASSUME NEW f \in Fetchers, FetchReturns(f) PROVE TypeOK'
  BY <1>4 DEF FetchReturns, chanVars, fetchVars, pubVars
<1>5. ASSUME NEW f \in Fetchers, Handover(f) PROVE TypeOK'
  <2>1. sent[f] + 1 \in 0..Items /\ sent[f] + 1 > 0
    BY <1>5 DEF Handover, More
  <2>2. sent' = [sent EXCEPT ![f] = sent[f] + 1] /\ forward' = [forward EXCEPT ![f] = "send"]
    BY <1>5 DEF Handover
  <2>3. sent' \in [Fetchers -> 0..Items]
    BY <2>1, <2>2
  <2>4. ASSUME NEW g \in Fetchers, forward'[g] = "send" PROVE sent'[g] > 0
    BY <2>1, <2>2, <2>4
  <2>5. ChanOK
    BY DEF ChanOK
  <2>6. ChanOK'
    BY <1>5, <2>5 DEF ChanOK, Handover, chanVars
  <2> QED
    BY <1>5, <2>2, <2>3, <2>4, <2>6 DEF ChanOK, Handover, chanVars, fetchVars, pubVars
<1>6. ASSUME NEW f \in Fetchers, Forward(f) PROVE TypeOK'
  <2>1. ChanOK
    BY DEF ChanOK
  <2>2. Current(f) \in Resources
    BY <1>6 DEF Forward, Current
  <2>3. ChanOK'
    BY <1>6, <2>1, <2>2, PushOK DEF Forward
  <2> QED
    BY <1>6, <2>3 DEF ChanOK, Forward, chanVars, fetchVars, pubVars
<1>7. ASSUME NEW f \in Fetchers, ForwardPanics(f) PROVE TypeOK'
  BY <1>7 DEF ForwardPanics, chanVars, fetchVars, pubVars
<1>8. ASSUME NEW f \in Fetchers, ForwardEnds(f) PROVE TypeOK'
  <2>1. forward[f] = "send" => Current(f) \in Resources
    BY DEF Current
  <2> QED
    BY <1>8, <2>1 DEF ForwardEnds, chanVars, fetchVars, pubVars
<1>9. ASSUME NEW s \in Stages, StageReceive(s) PROVE TypeOK'
  <2>1. ChanOK /\ In[s] \in Channels
    BY DEF ChanOK
  <2>2. ChanOK' /\ Head(chan[In[s]]) \in Resources
    BY <1>9, <2>1, PopOK DEF StageReceive
  <2>3. stage' \in [Stages -> {<<>>} \cup {<<r>> : r \in Resources}]
    BY <1>9, <2>2 DEF StageReceive
  <2> QED
    BY <1>9, <2>2, <2>3 DEF ChanOK, StageReceive, chanVars, fetchVars, pubVars
<1>10. ASSUME NEW s \in Stages, StageDrops(s) PROVE TypeOK'
  <2>1. stage' \in [Stages -> {<<>>} \cup {<<r>> : r \in Resources}]
    BY <1>10 DEF StageDrops
  <2>2. stage[s][1] \in Resources
    BY <1>10 DEF StageDrops
  <2>3. dropped' \subseteq Resources
    BY <1>10, <2>2 DEF StageDrops
  <2>4. ChanOK'
    BY <1>10 DEF ChanOK, StageDrops, chanVars
  <2> QED
    BY <1>10, <2>1, <2>3, <2>4 DEF ChanOK, StageDrops, chanVars, fetchVars, pubVars
<1>11. ASSUME NEW s \in Stages, StageSends(s) PROVE TypeOK'
  <2>1. ChanOK /\ Out[s] \in Channels
    BY DEF ChanOK
  <2>2. stage[s][1] \in Resources
    BY <1>11 DEF StageSends
  <2>3. ChanOK'
    BY <1>11, <2>1, <2>2, PushOK DEF StageSends
  <2> QED
    BY <1>11, <2>3 DEF ChanOK, StageSends, chanVars, fetchVars, pubVars
<1>12. ASSUME NEW s \in Stages, StageEnds(s) PROVE TypeOK'
  BY <1>12 DEF StageEnds, chanVars, fetchVars, pubVars
<1>13. CASE PublisherReceive
  <2>1. ChanOK
    BY DEF ChanOK
  <2>2. ChanOK' /\ Head(chan["events"]) \in Resources
    BY <1>13, <2>1, PopOK DEF PublisherReceive
  <2> DEFINE events == Append(buffer, Head(chan["events"]))
  <2>3. events \in Seq(Resources)
    BY <2>2
  <2>4. buffer' \in Seq(Resources) /\ Len(buffer') < Threshold /\ published' \in Seq(Resources)
    <3>1. CASE Len(events) < Threshold
      <4>1. buffer' = events /\ published' = published
        BY <1>13, <3>1 DEF PublisherReceive
      <4> QED
        BY <2>3, <3>1, <4>1
    <3>2. CASE ~(Len(events) < Threshold)
      <4>1. buffer' = <<>> /\ published' = published \o events
        BY <1>13, <3>2 DEF PublisherReceive, Flush
      <4> QED
        BY <2>3, <4>1
    <3> QED
      BY <3>1, <3>2
  <2> QED
    BY <1>13, <2>2, <2>4 DEF ChanOK, PublisherReceive, chanVars, fetchVars, pubVars
<1>14. CASE PublisherClosed
  BY <1>14 DEF PublisherClosed, Flush, chanVars, fetchVars, pubVars
<1>15. CASE PublisherDone
  BY <1>15 DEF PublisherDone, Flush, chanVars, fetchVars, pubVars
<1>16. CASE PublisherTick
  <2>1. published' \in Seq(Resources) /\ buffer' = <<>>
    BY <1>16 DEF PublisherTick, Flush
  <2>2. ChanOK'
    BY <1>16 DEF ChanOK, PublisherTick, chanVars
  <2>3. UNCHANGED <<chanVars, fetchVars, stage, dropped, publisher, stop, crashed>>
    BY <1>16 DEF PublisherTick
  <2>4. Len(buffer') < Threshold
    BY <2>1
  <2> QED
    BY <2>1, <2>2, <2>3, <2>4 DEF ChanOK, chanVars, fetchVars
<1>17. CASE ManagerStop
  BY <1>17 DEF ManagerStop, chanVars, fetchVars, pubVars
<1>18. CASE CloseResourceCh
  BY <1>18 DEF CloseResourceCh, chanVars, fetchVars, pubVars
<1>19. CASE ClientClose
  BY <1>19 DEF ClientClose, chanVars, fetchVars, pubVars
<1>20. CASE Cancel
  BY <1>20 DEF Cancel, chanVars, fetchVars, pubVars
<1> QED
  BY <1>1, <1>2, <1>3, <1>4, <1>5, <1>6, <1>7, <1>8, <1>9, <1>10, <1>11, <1>12, <1>13, <1>14, <1>15, <1>16, <1>17, <1>18, <1>19, <1>20
     DEF Next, FetchStep, ForwardStep, StageStep, PublisherStep, StopStep

(* The shutdown order is kept by every step. *)
LEMMA DrainStep == TypeOK /\ DrainInv /\ [Next]_vars => DrainInv'
<1> SUFFICES ASSUME TypeOK, DrainInv, [Next]_vars PROVE DrainInv'
  OBVIOUS
<1> USE DEF TypeOK, DrainInv, Channels, Stages, In, Out
<1>1. CASE UNCHANGED vars
  BY <1>1 DEF vars, chanVars, fetchVars, pubVars
<1>2. ASSUME NEW f \in Fetchers, Send(f) PROVE DrainInv'
  BY <1>2 DEF Send, CanSend, Push, More, chanVars, fetchVars, pubVars
<1>3. ASSUME NEW f \in Fetchers, SendPanics(f) PROVE DrainInv'
  BY <1>3 DEF SendPanics, chanVars, fetchVars, pubVars
<1>4. ASSUME NEW f \in Fetchers, FetchReturns(f) PROVE DrainInv'
  BY <1>4 DEF FetchReturns, chanVars, fetchVars, pubVars
<1>5. ASSUME NEW f \in Fetchers, Handover(f) PROVE DrainInv'
  BY <1>5 DEF Handover, More, chanVars, fetchVars, pubVars
<1>6. ASSUME NEW f \in Fetchers, Forward(f) PROVE DrainInv'
  BY <1>6 DEF Forward, CanSend, Push, Current, chanVars, fetchVars, pubVars
<1>7. ASSUME NEW f \in Fetchers, ForwardPanics(f) PROVE DrainInv'
  BY <1>7 DEF ForwardPanics, chanVars, fetchVars, pubVars
<1>8. ASSUME NEW f \in Fetchers, ForwardEnds(f) PROVE DrainInv'
  BY <1>8 DEF ForwardEnds, Current, chanVars, fetchVars, pubVars
<1>9. ASSUME NEW s \in Stages, StageReceive(s) PROVE DrainInv'
  BY <1>9 DEF StageReceive, Pop, chanVars, fetchVars, pubVars
<1>10. ASSUME NEW s \in Stages, StageDrops(s) PROVE DrainInv'
  BY <1>10 DEF StageDrops, chanVars, fetchVars, pubVars
<1>11. ASSUME NEW s \in Stages, StageSends(s) PROVE DrainInv'
  BY <1>11 DEF StageSends, CanSend, Push, chanVars, fetchVars, pubVars
<1>12. ASSUME NEW s \in Stages, StageEnds(s) PROVE DrainInv'
  BY <1>12 DEF StageEnds, chanVars, fetchVars, pubVars
<1>13. CASE PublisherReceive
  BY <1>13 DEF PublisherReceive, Pop, Flush, chanVars, fetchVars, pubVars
<1>14. CASE PublisherClosed
  BY <1>14 DEF PublisherClosed, Flush, chanVars, fetchVars, pubVars
<1>15. CASE PublisherDone
  BY <1>15 DEF PublisherDone, Flush, chanVars, fetchVars, pubVars
<1>16. CASE PublisherTick
  BY <1>16 DEF PublisherTick, Flush, chanVars, fetchVars, pubVars
<1>17. CASE ManagerStop
  BY <1>17 DEF ManagerStop, chanVars, fetchVars, pubVars
<1>18. CASE CloseResourceCh
  BY <1>18 DEF CloseResourceCh, chanVars, fetchVars, pubVars
<1>19. CASE ClientClose
  BY <1>19 DEF ClientClose, chanVars, fetchVars, pubVars
<1>20. CASE Cancel
  BY <1>20 DEF Cancel, chanVars, fetchVars, pubVars
<1> QED
  BY <1>1, <1>2, <1>3, <1>4, <1>5, <1>6, <1>7, <1>8, <1>9, <1>10, <1>11, <1>12, <1>13, <1>14, <1>15, <1>16, <1>17, <1>18, <1>19, <1>20
     DEF Next, FetchStep, ForwardStep, StageStep, PublisherStep, StopStep

(* Type correctness, and with it the bounds of the channels and of the     *)
(* publisher's buffer.                                                     *)
THEOREM PostureTypeOK == Spec => []TypeOK
<1>1. Init => TypeOK
  <2> SUFFICES ASSUME Init PROVE TypeOK
    OBVIOUS
  <2>1. \A c \in Channels : chan[c] = <<>> /\ Capacity(c) \in Nat
    BY DEF Init, Capacity
  <2>2. chan \in [Channels -> Seq(Resources)] /\ \A c \in Channels : Len(chan[c]) <= Capacity(c)
    BY <2>1 DEF Init
  <2>3. buffer \in Seq(Resources) /\ Len(buffer) < Threshold /\ published \in Seq(Resources)
    BY DEF Init
  <2>4. stage \in [Stages -> {<<>>} \cup {<<r>> : r \in Resources}]
    BY DEF Init
  <2>5. /\ fetch \in [Fetchers -> {"run", "returned", "recovered"}]
        /\ sent \in [Fetchers -> 0..Items]
        /\ forward \in [Fetchers -> {"receive", "send", "end"}]
        /\ \A f \in Fetchers : forward[f] = "send" => sent[f] > 0
    BY DEF Init
  <2>6. /\ closed \subseteq Channels /\ dropped \subseteq Resources
        /\ publisher \in {"select", "closed", "done"}
        /\ stop \in {"run", "manager", "closed", "client", "cancelled"}
        /\ crashed \in BOOLEAN
    BY DEF Init
  <2> QED
    BY <2>2, <2>3, <2>4, <2>5, <2>6 DEF TypeOK
<1> QED
  BY <1>1, TypeStep, PTL DEF Spec

(* Channels are closed in order, each after the one before it is drained. *)
THEOREM PostureDrainInv == Spec => []DrainInv
<1>1. Init => DrainInv
  BY DEF Init, DrainInv, Stages, In, Out
<1> QED
  BY <1>1, PostureTypeOK, DrainStep, PTL DEF Spec

(* A publisher that saw its channel closed has left nothing behind. *)
THEOREM PostureDrained == Spec => []ClosedMeansDrained
<1>1. TypeOK /\ DrainInv => ClosedMeansDrained
  <2> SUFFICES ASSUME TypeOK, DrainInv, publisher = "closed" PROVE InPipeline = <<>>
    BY DEF ClosedMeansDrained
  <2>1. buffer = <<>> /\ chan["events"] = <<>> /\ "events" \in closed
    BY DEF DrainInv
  <2>2. stage["transform"] = <<>> /\ chan["findings"] = <<>> /\ "findings" \in closed
    BY <2>1 DEF DrainInv, Stages, In, Out
  <2>3. stage["eval"] = <<>> /\ chan["resource"] = <<>>
    BY <2>2 DEF DrainInv, Stages, In, Out
  <2> QED
    BY <2>1, <2>2, <2>3 DEF InPipeline, BeforeTransform
<1> QED
  BY <1>1, PostureTypeOK, PostureDrainInv, PTL

(* Who may be sending on resourceCh with nobody to recover its panic.      *)
SendsUnprotected(f) == Kind[f] = "org" /\ forward[f] = "send"

(* The process ends only after Stop has closed resourceCh, and then by     *)
(* client.Close when no client is set, or by an account goroutine that     *)
(* holds a resource: never by a fetch that sends itself, however many are  *)
(* still sending.                                                          *)
CrashCauses ==
  crashed => /\ "resource" \in closed
             /\ (~ClientSet /\ stop = "closed") \/ \E f \in Fetchers : SendsUnprotected(f)

(* For any fetchers, direct or of an organization, and with a client or    *)
(* without: the process ends of these two causes only.                     *)
THEOREM PostureCrashCauses == Spec => []CrashCauses
<1> DEFINE Inv == /\ CrashCauses
                  /\ \A f \in Fetchers : forward[f] \in {"receive", "send", "end"}
                  /\ \A f \in Fetchers : forward[f] = "send" => Kind[f] = "org"
                  /\ stop \in {"closed", "client", "cancelled"} => "resource" \in closed
<1>1. Init => Inv
  BY DEF Init, CrashCauses
<1>2. TypeOK /\ Inv /\ [Next]_vars => Inv'
  <2> SUFFICES ASSUME TypeOK, Inv, [Next]_vars PROVE Inv'
    OBVIOUS
  <2>1. CASE UNCHANGED vars
    BY <2>1 DEF vars, chanVars, fetchVars, CrashCauses, SendsUnprotected
  <2> USE DEF CrashCauses, SendsUnprotected, TypeOK, chanVars, fetchVars, pubVars
  <2>0. CASE ~crashed
    <3>2. ASSUME NEW f \in Fetchers, FetchStep(f) PROVE Inv'
      <4>1. CASE Handover(f)
        <5>1. forward' = [forward EXCEPT ![f] = "send"] /\ UNCHANGED <<closed, stop, crashed>>
          BY <4>1 DEF Handover
        <5> QED
          BY <2>0, <4>1, <5>1 DEF Handover
      <4>2. CASE Send(f) \/ SendPanics(f) \/ FetchReturns(f)
        <5>1. UNCHANGED <<forward, closed, stop, crashed>>
          BY <4>2 DEF Send, SendPanics, FetchReturns
        <5> QED
          BY <2>0, <5>1
      <4> QED
        BY <3>2, <4>1, <4>2 DEF FetchStep
    <3>3. ASSUME NEW f \in Fetchers, ForwardStep(f) PROVE Inv'
      <4>1. CASE Forward(f) \/ ForwardEnds(f)
        <5>1. /\ UNCHANGED <<closed, stop, crashed>>
              /\ forward' = [forward EXCEPT ![f] = "receive"] \/ forward' = [forward EXCEPT ![f] = "end"]
          BY <4>1 DEF Forward, ForwardEnds
        <5> QED
          BY <2>0, <5>1
      <4>2. CASE ForwardPanics(f)
        BY <4>2 DEF ForwardPanics
      <4> QED
        BY <3>3, <4>1, <4>2 DEF ForwardStep
    <3>4. ASSUME NEW s \in Stages, StageStep(s) PROVE Inv'
      BY <2>0, <3>4 DEF StageStep, StageReceive, StageDrops, StageSends, StageEnds
    <3>5. CASE PublisherStep \/ PublisherTick
      BY <2>0, <3>5 DEF PublisherStep, PublisherReceive, PublisherClosed, PublisherDone, PublisherTick
    <3>6. CASE ManagerStop \/ StopStep
      BY <2>0, <3>6 DEF ManagerStop, StopStep, CloseResourceCh, ClientClose, Cancel
    <3> QED
      BY <2>1, <3>2, <3>3, <3>4, <3>5, <3>6 DEF Next
  <2> QED
    BY <2>0, <2>1 DEF Next
<1>3. Inv => CrashCauses
  OBVIOUS
<1> QED
  BY <1>1, <1>2, <1>3, PostureTypeOK, PTL DEF Spec
-----------------------------------------------------------------------------
(***************************************************************************)
(* What is under way.  Resources move along Trail without changing it; a   *)
(* send appends to it, and a stage that drops one cuts it out.             *)
(***************************************************************************)
HIDE PostureAssumption

Elements(q) == {q[i] : i \in DOMAIN q}
Ordered(q) ==
  \A i, j \in DOMAIN q : i < j /\ q[i][1] = q[j][1] => q[i][2] < q[j][2]

(* The channels, stages and buffers that Trail is made of. *)
LEMMA Segments ==
  ASSUME TypeOK
  PROVE  /\ \A c \in Channels : chan[c] \in Seq(Resources)
         /\ \A s \in Stages :
              /\ stage[s] \in Seq(Resources)
              /\ stage[s] # <<>> => stage[s][1] \in Resources /\ stage[s] = <<stage[s][1]>>
         /\ buffer \in Seq(Resources) /\ published \in Seq(Resources)
         /\ BeforeTransform \in Seq(Resources) /\ InPipeline \in Seq(Resources)
         /\ Trail \in Seq(Resources)
<1>1. \A c \in Channels : chan[c] \in Seq(Resources)
  BY DEF TypeOK
<1>2. ASSUME NEW s \in Stages
      PROVE  /\ stage[s] \in Seq(Resources)
             /\ stage[s] # <<>> => stage[s][1] \in Resources /\ stage[s] = <<stage[s][1]>>
  <2>1. stage[s] \in {<<>>} \cup {<<r>> : r \in Resources}
    BY DEF TypeOK
  <2>2. CASE stage[s] = <<>>
    BY <2>2
  <2>3. CASE stage[s] # <<>>
    <3>1. PICK r \in Resources : stage[s] = <<r>>
      BY <2>1, <2>3
    <3>2. QED
      BY <3>1
  <2>4. QED
    BY <2>2, <2>3
<1>3. buffer \in Seq(Resources) /\ published \in Seq(Resources)
  BY DEF TypeOK
<1>4. stage["eval"] \o chan["resource"] \in Seq(Resources)
  BY <1>1, <1>2, ConcatProperties DEF Channels, Stages
<1>5. BeforeTransform \in Seq(Resources)
  BY <1>1, <1>4, ConcatProperties DEF Channels, BeforeTransform
<1>6. stage["transform"] \o BeforeTransform \in Seq(Resources)
  BY <1>2, <1>5, ConcatProperties DEF Stages
<1>7. chan["events"] \o (stage["transform"] \o BeforeTransform) \in Seq(Resources)
  BY <1>1, <1>6, ConcatProperties DEF Channels
<1>8. InPipeline \in Seq(Resources)
  BY <1>3, <1>7, ConcatProperties DEF InPipeline
<1>9. Trail \in Seq(Resources)
  BY <1>3, <1>8, ConcatProperties DEF Trail
<1>10. QED
  BY <1>1, <1>2, <1>3, <1>5, <1>8, <1>9

(* The first resource of a segment may as well be the last of the one      *)
(* before it.                                                              *)
LEMMA HandOn ==
  ASSUME NEW S, NEW a \in Seq(S), NEW r \in S, NEW b \in Seq(S)
  PROVE  a \o (<<r>> \o b) = Append(a, r) \o b /\ <<>> \o b = b /\ b \o <<>> = b
OBVIOUS

(* A segment is its head before its tail.                                  *)
LEMMA HeadThenTail ==
  ASSUME NEW S, NEW q \in Seq(S), q # <<>>, NEW b \in Seq(S)
  PROVE  /\ Head(q) \in S /\ Tail(q) \in Seq(S)
         /\ q \o b = <<Head(q)>> \o (Tail(q) \o b)
OBVIOUS

(* Appending to the last segment appends to the whole.                     *)
LEMMA AppendLast ==
  ASSUME NEW S, NEW a \in Seq(S), NEW b \in Seq(S), NEW r \in S
  PROVE  a \o Append(b, r) = Append(a \o b, r)
OBVIOUS
(* t is q without its k-th element. *)
Cut(q, t, k) ==
  /\ k \in 1..Len(q) /\ Len(q) = Len(t) + 1
  /\ \A i \in 1..Len(t) : t[i] = q[IF i < k THEN i ELSE i + 1]

(* Cutting the first element of a sequence.                                *)
LEMMA CutFirst ==
  ASSUME NEW S, NEW r \in S, NEW b \in Seq(S)
  PROVE  Cut(<<r>> \o b, b, 1) /\ (<<r>> \o b)[1] = r
BY DEF Cut

(* A cut in a later segment is a cut in the whole.                         *)
LEMMA CutLater ==
  ASSUME NEW S, NEW a \in Seq(S), NEW q \in Seq(S), NEW t \in Seq(S), NEW k \in Nat, Cut(q, t, k)
  PROVE  /\ Cut(a \o q, a \o t, Len(a) + k)
         /\ (a \o q)[Len(a) + k] = q[k]
<1>1. /\ k \in 1..Len(q) /\ Len(q) = Len(t) + 1 /\ Len(a) \in Nat /\ Len(t) \in Nat
      /\ \A i \in 1..Len(t) : t[i] = q[IF i < k THEN i ELSE i + 1]
  BY DEF Cut
<1>2. /\ Len(a \o q) = Len(a) + Len(q)
      /\ \A i \in 1..(Len(a) + Len(q)) : (a \o q)[i] = IF i <= Len(a) THEN a[i] ELSE q[i - Len(a)]
  BY ConcatProperties
<1>3. /\ Len(a \o t) = Len(a) + Len(t)
      /\ \A i \in 1..(Len(a) + Len(t)) : (a \o t)[i] = IF i <= Len(a) THEN a[i] ELSE t[i - Len(a)]
  BY ConcatProperties
<1>4. ASSUME NEW i \in 1..(Len(a) + Len(t))
      PROVE  (a \o t)[i] = (a \o q)[IF i < Len(a) + k THEN i ELSE i + 1]
  <2>1. CASE i <= Len(a)
    BY <1>1, <1>2, <1>3, <2>1
  <2>2. CASE ~(i <= Len(a))
    <3>1. i - Len(a) \in 1..Len(t) /\ (i + 1) - Len(a) = (i - Len(a)) + 1
      BY <1>1, <2>2
    <3>2. t[i - Len(a)] = q[IF i < Len(a) + k THEN i - Len(a) ELSE (i + 1) - Len(a)]
      BY <1>1, <2>2, <3>1
    <3>3. (a \o t)[i] = t[i - Len(a)]
      BY <1>3, <2>2
    <3>4. CASE i < Len(a) + k
      <4>1. (a \o q)[i] = q[i - Len(a)]
        BY <1>1, <1>2, <2>2
      <4>2. QED
        BY <3>2, <3>3, <3>4, <4>1
    <3>5. CASE ~(i < Len(a) + k)
      <4>1. i + 1 \in 1..(Len(a) + Len(q)) /\ ~(i + 1 <= Len(a))
        BY <1>1, <2>2
      <4>2. (a \o q)[i + 1] = q[(i + 1) - Len(a)]
        BY <1>2, <4>1
      <4>3. QED
        BY <3>2, <3>3, <3>5, <4>2
    <3>6. QED
      BY <3>4, <3>5
  <2>3. QED
    BY <2>1, <2>2
<1>5. (a \o q)[Len(a) + k] = q[k]
  <2>1. Len(a) + k \in 1..(Len(a) + Len(q)) /\ ~(Len(a) + k <= Len(a)) /\ (Len(a) + k) - Len(a) = k
    BY <1>1
  <2>2. QED
    BY <1>2, <2>1
<1>6. Len(a) + k \in 1..Len(a \o q) /\ Len(a \o q) = Len(a \o t) + 1
  BY <1>1, <1>2, <1>3
<1>7. QED
  BY <1>3, <1>4, <1>5, <1>6 DEF Cut

(* Cutting an element out of an ordered sequence removes it and keeps the  *)
(* order.                                                                  *)
LEMMA CutOrdered ==
  ASSUME NEW q \in Seq(Resources), NEW t \in Seq(Resources), NEW k, Cut(q, t, k), Ordered(q)
  PROVE  Ordered(t) /\ Elements(t) = Elements(q) \ {q[k]}
<1> DEFINE at(i) == IF i < k THEN i ELSE i + 1
<1>1. /\ k \in 1..Len(q) /\ Len(q) = Len(t) + 1 /\ Len(t) \in Nat
      /\ DOMAIN t = 1..Len(t) /\ DOMAIN q = 1..Len(q)
      /\ \A i \in 1..Len(t) : t[i] = q[at(i)]
  BY DEF Cut
<1>2. \A i \in 1..Len(t) : at(i) \in 1..Len(q) /\ at(i) # k
  BY <1>1
<1>3. \A i, j \in 1..Len(t) : i < j => at(i) < at(j)
  BY <1>1
<1>4. \A n \in 1..Len(q) : n # k => \E i \in 1..Len(t) : at(i) = n
  <2>1. SUFFICES ASSUME NEW n \in 1..Len(q), n # k PROVE \E i \in 1..Len(t) : at(i) = n
    OBVIOUS
  <2>2. CASE n < k
    <3>1. n \in 1..Len(t) /\ at(n) = n
      BY <1>1, <2>2
    <3>2. QED
      BY <3>1
  <2>3. CASE ~(n < k)
    <3>1. n - 1 \in 1..Len(t) /\ at(n - 1) = n
      BY <1>1, <2>1, <2>3
    <3>2. QED
      BY <3>1
  <2>4. QED
    BY <2>2, <2>3
<1> HIDE DEF at
<1>5. Ordered(t)
  BY <1>1, <1>2, <1>3 DEF Ordered
<1>6. ASSUME NEW n \in 1..Len(q), n # k PROVE q[n] # q[k]
  <2>1. /\ n \in Int /\ k \in Int /\ q[n] \in Resources /\ q[k] \in Resources
        /\ q[n][2] \in Nat /\ q[k][2] \in Nat
    BY <1>1, PostureAssumption DEF Resources
  <2>2. n < k \/ k < n
    BY <1>6, <2>1
  <2>3. QED
    BY <1>1, <2>1, <2>2 DEF Ordered
<1>7. Elements(t) \subseteq Elements(q) \ {q[k]}
  BY <1>1, <1>2, <1>6 DEF Elements
<1>8. Elements(q) \ {q[k]} \subseteq Elements(t)
  BY <1>1, <1>4 DEF Elements
<1>9. QED
  BY <1>5, <1>7, <1>8

(* Sending one that is later than all before it keeps the order. *)
LEMMA AppendOrdered ==
  ASSUME NEW q \in Seq(Resources), NEW r \in Resources, Ordered(q),
         \A x \in Elements(q) : x[1] = r[1] => x[2] < r[2]
  PROVE  Ordered(Append(q, r)) /\ Elements(Append(q, r)) = Elements(q) \cup {r}
<1> DEFINE t == Append(q, r)
           n == Len(q) + 1
<1>1. /\ Len(q) \in Nat /\ DOMAIN q = 1..Len(q) /\ DOMAIN t = 1..n /\ t[n] = r
      /\ \A i \in 1..Len(q) : t[i] = q[i]
  OBVIOUS
<1> HIDE DEF t
<1>2. \A i \in 1..n : i = n \/ i \in 1..Len(q)
  BY <1>1
<1>3. Elements(t) = Elements(q) \cup {r}
  <2>1. Elements(t) \subseteq Elements(q) \cup {r}
    BY <1>1, <1>2 DEF Elements
  <2>2. Elements(q) \cup {r} \subseteq Elements(t)
    <3>1. n \in 1..n /\ \A i \in 1..Len(q) : i \in 1..n
      BY <1>1
    <3>2. QED
      BY <1>1, <3>1 DEF Elements
  <2>3. QED
    BY <2>1, <2>2
<1>4. ASSUME NEW i \in 1..n, NEW j \in 1..n, i < j, t[i][1] = t[j][1] PROVE t[i][2] < t[j][2]
  <2>1. i \in 1..Len(q) /\ t[i] = q[i] /\ q[i] \in Elements(q)
    BY <1>1, <1>4 DEF Elements
  <2>2. CASE j = n
    BY <1>1, <1>4, <2>1, <2>2
  <2>3. CASE j # n
    <3>1. j \in 1..Len(q) /\ t[j] = q[j]
      BY <1>1, <1>2, <2>3
    <3>2. QED
      BY <1>1, <1>4, <2>1, <3>1 DEF Ordered
  <2>4. QED
    BY <2>2, <2>3
<1>5. Ordered(t)
  BY <1>1, <1>4 DEF Ordered
<1>6. QED
  BY <1>3, <1>5 DEF t
-----------------------------------------------------------------------------
(* What one goroutine hands to the next one stays where it is in Trail. *)
TrailStep ==
  \/ \E s \in Stages : StageReceive(s) \/ StageSends(s)
  \/ PublisherReceive \/ PublisherClosed \/ PublisherDone \/ PublisherTick

(* A flush moves the buffer to what is published.                          *)
LEMMA FlushKeepsTrail ==
  ASSUME NEW S, NEW p \in Seq(S), NEW e \in Seq(S), NEW q \in Seq(S)
  PROVE  (p \o e) \o (<<>> \o q) = p \o (e \o q)
OBVIOUS

(* A stage that receives moves the channel's head into its hand.           *)
LEMMA StageReceiveKeepsTrail ==
  ASSUME TypeOK, NEW s \in Stages, StageReceive(s)
  PROVE  Trail' = Trail
<1> DEFINE q == chan[In[s]]
<1>1. /\ stage[s] = <<>> /\ q # <<>> /\ stage' = [stage EXCEPT ![s] = <<Head(q)>>]
      /\ chan' = [chan EXCEPT ![In[s]] = Tail(q)]
      /\ UNCHANGED <<buffer, published>>
  BY DEF StageReceive, Pop, pubVars
<1>2. /\ chan \in [Channels -> Seq(Resources)] /\ q \in Seq(Resources)
      /\ DOMAIN stage = Stages
  BY DEF TypeOK, In, Channels, Stages
<1>3. CASE s = "eval"
  <2>1. In[s] = "resource"
    BY <1>3 DEF In, Stages
  <2>2. stage'["eval"] = <<Head(q)>> /\ chan'["resource"] = Tail(q) /\ q = chan["resource"]
        /\ UNCHANGED <<stage["transform"], chan["events"], chan["findings"]>>
    BY <1>1, <1>2, <1>3, <2>1 DEF Channels, Stages
  <2>3. <<>> \o q = q /\ q = <<Head(q)>> \o Tail(q)
    <3> HIDE DEF q
    <3>1. QED
      BY <1>1, <1>2
  <2>4. stage["eval"] \o chan["resource"] = stage'["eval"] \o chan'["resource"]
    BY <1>1, <1>3, <2>2, <2>3
  <2>5. QED
    BY <1>1, <2>2, <2>4 DEF Trail, InPipeline, BeforeTransform
<1>4. CASE s = "transform"
  <2> DEFINE b == stage["eval"] \o chan["resource"]
  <2>1. In[s] = "findings"
    BY <1>4 DEF In, Stages
  <2>2. stage'["transform"] = <<Head(q)>> /\ chan'["findings"] = Tail(q) /\ q = chan["findings"]
        /\ UNCHANGED <<stage["eval"], chan["events"], chan["resource"]>>
    BY <1>1, <1>2, <1>4, <2>1 DEF Channels, Stages
  <2>3. b \in Seq(Resources)
    BY Segments, ConcatProperties DEF Channels, Stages
  <2>4. <<>> \o (q \o b) = <<Head(q)>> \o (Tail(q) \o b)
    <3> HIDE DEF q, b
    <3>1. q \o b \in Seq(Resources)
      BY <1>2, <2>3, ConcatProperties
    <3>2. q \o b = <<Head(q)>> \o (Tail(q) \o b)
      BY <1>1, <1>2, <2>3, HeadThenTail
    <3>3. QED
      BY <3>1, <3>2, ConcatEmptySeq
  <2>5. stage["transform"] \o BeforeTransform = (stage["transform"] \o BeforeTransform)'
    BY <1>1, <1>4, <2>2, <2>4 DEF BeforeTransform
  <2>6. QED
    BY <1>1, <2>2, <2>5 DEF Trail, InPipeline
<1>5. QED
  BY <1>3, <1>4 DEF Stages

(* A stage that sends moves what it holds into its output.                 *)
LEMMA StageSendsKeepsTrail ==
  ASSUME TypeOK, NEW s \in Stages, StageSends(s)
  PROVE  Trail' = Trail
<1> DEFINE r == stage[s][1]
           q == chan[Out[s]]
<1>1. /\ stage[s] # <<>> /\ stage' = [stage EXCEPT ![s] = <<>>]
      /\ chan' = [chan EXCEPT ![Out[s]] = Append(q, r)]
      /\ UNCHANGED <<buffer, published>>
  BY DEF StageSends, Push, pubVars
<1>2. /\ chan \in [Channels -> Seq(Resources)] /\ q \in Seq(Resources)
      /\ DOMAIN stage = Stages
  BY DEF TypeOK, Out, Channels, Stages
<1>3. r \in Resources /\ stage[s] = <<r>>
  BY <1>1, Segments
<1>4. CASE s = "eval"
  <2>1. Out[s] = "findings"
    BY <1>4 DEF Out, Stages
  <2>2. stage'["eval"] = <<>> /\ chan'["findings"] = Append(q, r) /\ q = chan["findings"]
        /\ stage["eval"] = <<r>>
        /\ UNCHANGED <<stage["transform"], chan["events"], chan["resource"]>>
    BY <1>1, <1>2, <1>3, <1>4, <2>1 DEF Channels, Stages
  <2> DEFINE b == chan["resource"]
  <2>3. b \in Seq(Resources)
    BY <1>2 DEF Channels
  <2>4. q \o (<<r>> \o b) = Append(q, r) \o (<<>> \o b)
    <3> HIDE DEF q, r, b
    <3>1. QED
      BY <1>2, <1>3, <2>3, HandOn
  <2>5. BeforeTransform' = BeforeTransform
    BY <2>2, <2>4 DEF BeforeTransform
  <2>6. QED
    BY <1>1, <2>2, <2>5 DEF Trail, InPipeline
<1>5. CASE s = "transform"
  <2>1. Out[s] = "events"
    BY <1>5 DEF Out, Stages
  <2>2. stage'["transform"] = <<>> /\ chan'["events"] = Append(q, r) /\ q = chan["events"]
        /\ stage["transform"] = <<r>>
        /\ UNCHANGED <<stage["eval"], chan["findings"], chan["resource"]>>
    BY <1>1, <1>2, <1>3, <1>5, <2>1 DEF Channels, Stages
  <2>3. BeforeTransform' = BeforeTransform
    BY <2>2 DEF BeforeTransform
  <2> DEFINE b == BeforeTransform
  <2>4. q \o (<<r>> \o b) = Append(q, r) \o (<<>> \o b)
    <3>1. b \in Seq(Resources)
      BY Segments
    <3> HIDE DEF q, r, b
    <3>2. QED
      BY <1>2, <1>3, <3>1, HandOn
  <2>5. QED
    BY <1>1, <2>2, <2>3, <2>4 DEF Trail, InPipeline
<1>6. QED
  BY <1>4, <1>5 DEF Stages

(* What follows the publisher's buffer. *)
Behind == chan["events"] \o (stage["transform"] \o BeforeTransform)

(* What is behind the publisher's buffer.                                  *)
LEMMA BehindBuffer ==
  ASSUME TypeOK
  PROVE  Behind \in Seq(Resources) /\ Trail = published \o (buffer \o Behind)
<1>1. stage["transform"] \o BeforeTransform \in Seq(Resources)
  BY Segments, ConcatProperties DEF Stages
<1>2. QED
  BY <1>1, Segments, ConcatProperties DEF Behind, Channels, Trail, InPipeline

(* The events a step of the publisher sends to the client: those in front  *)
(* of the pipeline, so none of them is there any more.                     *)
LEMMA PublisherSends ==
  ASSUME TypeOK, PublisherReceive \/ PublisherClosed \/ PublisherDone \/ PublisherTick
  PROVE  \E events \in Seq(Resources) :
           /\ published' = published \o events
           /\ \E rest \in Seq(Resources) : Trail = published \o (events \o rest)
           /\ Trail' = Trail
<1>1. CASE PublisherClosed \/ PublisherDone \/ PublisherTick
  <2>1. /\ published' = published \o buffer /\ buffer' = <<>> /\ UNCHANGED <<chan, stage>>
    BY <1>1 DEF PublisherClosed, PublisherDone, PublisherTick, Flush, chanVars
  <2>2. Behind' = Behind
    BY <2>1 DEF Behind, BeforeTransform
  <2>3. Trail' = (published \o buffer) \o (<<>> \o Behind)
    BY <2>1, <2>2 DEF Trail, InPipeline, Behind
  <2>4. Trail' = Trail
    <3>1. /\ published \in Seq(Resources) /\ buffer \in Seq(Resources)
          /\ Behind \in Seq(Resources) /\ Trail = published \o (buffer \o Behind)
      BY Segments, BehindBuffer
    <3>2. QED
      BY <2>3, <3>1, FlushKeepsTrail
  <2>5. QED
    BY <2>1, <2>4, Segments, BehindBuffer
<1>2. CASE PublisherReceive
  <2> DEFINE q == chan["events"]
             r == Head(q)
             tail == stage["transform"] \o BeforeTransform
             rest == Tail(q) \o tail
             events == Append(buffer, r)
  <2>1. /\ q # <<>> /\ chan' = [chan EXCEPT !["events"] = Tail(q)] /\ UNCHANGED stage
        /\ \/ buffer' = events /\ published' = published
           \/ buffer' = <<>> /\ published' = published \o events
    BY <1>2 DEF PublisherReceive, Pop, Flush
  <2>2. /\ q \in Seq(Resources) /\ buffer \in Seq(Resources) /\ published \in Seq(Resources)
        /\ tail \in Seq(Resources)
    BY Segments, ConcatProperties DEF Channels, Stages
  <2>3. /\ chan'["events"] = Tail(q)
        /\ UNCHANGED <<chan["findings"], chan["resource"]>>
    BY <2>1 DEF TypeOK, Channels
  <2>4. tail' = tail
    BY <2>1, <2>3 DEF BeforeTransform
  <2>5. Trail' = published' \o (buffer' \o rest)
    BY <2>3, <2>4 DEF Trail, InPipeline
  <2>6. Trail = published \o (buffer \o (q \o tail))
    BY DEF Trail, InPipeline
  <2> HIDE DEF q, r, tail
  <2>7. /\ r \in Resources /\ Tail(q) \in Seq(Resources)
        /\ q \o tail = <<r>> \o rest
    BY <2>1, <2>2, HeadThenTail DEF r
  <2>8. rest \in Seq(Resources) /\ events \in Seq(Resources)
    BY <2>2, <2>7, ConcatProperties
  <2> HIDE DEF rest
  <2>9. buffer \o (<<r>> \o rest) = events \o rest
    BY <2>2, <2>7, <2>8, HandOn
  <2> HIDE DEF events
  <2>10. Trail = published \o (events \o rest)
    BY <2>6, <2>7, <2>9
  <2>11. CASE buffer' = events /\ published' = published
    <3>1. Trail' = Trail
      BY <2>5, <2>10, <2>11
    <3>2. /\ <<>> \in Seq(Resources) /\ published' = published \o <<>>
          /\ Trail \in Seq(Resources) /\ InPipeline \in Seq(Resources)
          /\ <<>> \o InPipeline = InPipeline
      BY <2>2, <2>11, Segments, ConcatEmptySeq
    <3>3. Trail = published \o (<<>> \o InPipeline)
      BY <3>2 DEF Trail
    <3>4. QED
      BY <3>1, <3>2, <3>3
  <2>12. CASE buffer' = <<>> /\ published' = published \o events
    <3>1. Trail' = Trail
      <4>1. published \in Seq(Resources) /\ events \in Seq(Resources) /\ rest \in Seq(Resources)
        BY <2>2, <2>8
      <4>2. (published \o events) \o (<<>> \o rest) = published \o (events \o rest)
        BY <4>1, FlushKeepsTrail
      <4>3. QED
        BY <2>5, <2>10, <2>12, <4>2
    <3>2. QED
      BY <2>8, <2>10, <2>12, <3>1
  <2>13. QED
    BY <2>1, <2>11, <2>12 DEF events
<1>3. QED
  BY <1>1, <1>2

(* All of these leave Trail as it is.                                      *)
LEMMA TrailStays == ASSUME TypeOK, TrailStep PROVE Trail' = Trail
<1>1. CASE \E s \in Stages : StageReceive(s) \/ StageSends(s)
  BY <1>1, StageReceiveKeepsTrail, StageSendsKeepsTrail
<1>2. CASE PublisherReceive \/ PublisherClosed \/ PublisherDone \/ PublisherTick
  BY <1>2, PublisherSends
<1>3. QED
  BY <1>1, <1>2 DEF TrailStep

(***************************************************************************)
(* Where each resource is.  Only an account goroutine of an organization   *)
(* holds a resource outside the pipeline, and only what was sent is lost.  *)
(***************************************************************************)
DeliveryInv ==
  /\ ExactlyOnceInOrder
  /\ \A f \in Fetchers : forward[f] = "send" => Kind[f] = "org"
  /\ dropped \subseteq SentSet

(* InOrder, as a property of a sequence.                                   *)
LEMMA OrderedTrail == TypeOK => (InOrder <=> Ordered(Trail))
BY DEF InOrder, Ordered

(* What is under way, and what waits to be. *)
LEMMA Under ==
  ASSUME TypeOK, DeliveryInv
  PROVE  /\ Trail \in Seq(Resources) /\ Ordered(Trail)
         /\ Elements(Trail) \cup HeldSet = SentSet \ dropped
         /\ Elements(Trail) \cap HeldSet = {}
         /\ \A f \in Fetchers : sent[f] \in Nat
<1>1. \A f \in Fetchers : sent[f] \in Nat
  BY PostureAssumption DEF TypeOK
<1>2. QED
  BY <1>1, Segments, OrderedTrail
     DEF DeliveryInv, ExactlyOnceInOrder, NothingLost, HeldOnce, Elements

(* The invariant, from its parts in the next state.                        *)
LEMMA DeliveryFrom ==
  ASSUME TypeOK', Ordered(Trail'),
         Elements(Trail') \cup HeldSet' = SentSet' \ dropped',
         Elements(Trail') \cap HeldSet' = {},
         \A f \in Fetchers : forward'[f] = "send" => Kind[f] = "org",
         dropped' \subseteq SentSet'
  PROVE  DeliveryInv'
BY DEF DeliveryInv, ExactlyOnceInOrder, InOrder, Ordered, NothingLost, HeldOnce, Elements

(* A fetcher that sends its next resource. *)
LEMMA NextSent ==
  ASSUME TypeOK, NEW f \in Fetchers, More(f), sent' = [sent EXCEPT ![f] = @ + 1]
  PROVE  /\ <<f, sent[f] + 1>> \in Resources \ SentSet
         /\ SentSet' = SentSet \cup {<<f, sent[f] + 1>>}
         /\ \A g \in Fetchers : g # f => Current(g)' = Current(g)
         /\ Current(f)' = <<f, sent[f] + 1>>
<1>1. /\ Items \in Nat /\ \A g \in Fetchers : sent[g] \in Nat /\ sent[f] < Items
      /\ \A g \in Fetchers : sent'[g] = IF g = f THEN sent[f] + 1 ELSE sent[g]
  BY PostureAssumption DEF TypeOK, More
<1> DEFINE r == <<f, sent[f] + 1>>
<1>2. r \in Resources /\ r \notin SentSet
  BY <1>1 DEF Resources, SentSet
<1>3. \A x \in Resources : x[1] \in Fetchers /\ x[2] \in Nat /\ x = <<x[1], x[2]>>
  BY <1>1 DEF Resources
<1>4. \A x \in Resources : x[2] <= sent'[x[1]] <=> x[2] <= sent[x[1]] \/ x = r
  <2>1. SUFFICES ASSUME NEW x \in Resources
                 PROVE  x[2] <= sent'[x[1]] <=> x[2] <= sent[x[1]] \/ x = r
    OBVIOUS
  <2>2. CASE x[1] = f
    <3>1. x = r <=> x[2] = sent[f] + 1
      BY <1>3, <2>2
    <3>2. QED
      BY <1>1, <1>3, <2>2, <3>1
  <2>3. CASE x[1] # f
    <3>1. x # r
      BY <2>3
    <3>2. QED
      BY <1>1, <1>3, <2>3, <3>1
  <2>4. QED
    BY <2>2, <2>3
<1>5. SentSet' = SentSet \cup {r}
  BY <1>2, <1>4 DEF SentSet
<1>6. QED
  BY <1>1, <1>2, <1>5 DEF Current

(* A send into resourceCh puts the resource at the end of Trail. *)
LEMMA PushAppends ==
  ASSUME TypeOK, NEW r \in Resources, Push("resource", r), UNCHANGED <<stage, pubVars>>
  PROVE  Trail' = Append(Trail, r)
<1> DEFINE a == chan["resource"]
           eval == stage["eval"]
           b == eval \o a
           findings == chan["findings"]
           transform == stage["transform"]
           c == BeforeTransform
           d == transform \o c
           ev == chan["events"]
           e == ev \o d
<1>1. a \in Seq(Resources) /\ eval \in Seq(Resources)
  BY Segments DEF Channels, Stages
<1>2. findings \in Seq(Resources) /\ ev \in Seq(Resources)
  BY Segments DEF Channels
<1>3. transform \in Seq(Resources) /\ c \in Seq(Resources)
  BY Segments DEF Stages
<1>4. buffer \in Seq(Resources)
  BY Segments
<1>5. published \in Seq(Resources) /\ InPipeline \in Seq(Resources)
  BY Segments
<1>6. a' = Append(a, r) /\ findings' = findings /\ ev' = ev
  BY DEF Push, TypeOK, Channels
<1>7. eval' = eval /\ transform' = transform /\ buffer' = buffer /\ published' = published
  BY DEF pubVars
<1>8. c = findings \o b /\ c' = findings' \o b'
  BY DEF BeforeTransform
<1>9. InPipeline = buffer \o e /\ InPipeline' = buffer' \o e'
  BY DEF InPipeline
<1>10. b' = eval' \o a' /\ d' = transform' \o c' /\ e' = ev' \o d'
  OBVIOUS
<1> HIDE DEF a, eval, findings, transform, c, ev
<1>11. eval \o Append(a, r) = Append(b, r) /\ b \in Seq(Resources)
  BY <1>1, AppendLast
<1>12. transform \o Append(c, r) = Append(d, r) /\ d \in Seq(Resources)
  BY <1>3, AppendLast
<1> HIDE DEF b, d
<1>13. findings \o Append(b, r) = Append(findings \o b, r)
  BY <1>2, <1>11, AppendLast
<1>14. ev \o Append(d, r) = Append(e, r) /\ e \in Seq(Resources)
  BY <1>2, <1>12, AppendLast
<1> HIDE DEF e
<1>15. buffer \o Append(e, r) = Append(buffer \o e, r)
  BY <1>4, <1>14, AppendLast
<1>16. published \o Append(InPipeline, r) = Append(Trail, r)
  BY <1>5, AppendLast DEF Trail
<1>17. c' = Append(c, r)
  BY <1>6, <1>7, <1>8, <1>10, <1>11, <1>13
<1>18. e' = Append(e, r)
  BY <1>6, <1>7, <1>10, <1>12, <1>14, <1>17
<1>19. InPipeline' = Append(InPipeline, r)
  BY <1>7, <1>9, <1>15, <1>18
<1>20. QED
  BY <1>7, <1>16, <1>19 DEF Trail

(* A stage that drops its resource cuts it out of Trail, behind what is    *)
(* published.                                                              *)
LosesOne(q, t, r) == \E k \in Nat : Cut(q, t, k) /\ q[k] = r

(* Losing the first element of a sequence.                                 *)
LEMMA LosesFirst ==
  ASSUME NEW S, NEW r \in S, NEW b \in Seq(S)
  PROVE  LosesOne(<<r>> \o b, <<>> \o b, r)
<1>1. <<>> \o b = b
  OBVIOUS
<1>2. QED
  BY <1>1, CutFirst DEF LosesOne

(* Losing an element of a later segment.                                   *)
LEMMA LosesLater ==
  ASSUME NEW S, NEW a \in Seq(S), NEW q \in Seq(S), NEW t \in Seq(S), NEW r,
         LosesOne(q, t, r)
  PROVE  LosesOne(a \o q, a \o t, r) /\ a \o q \in Seq(S) /\ a \o t \in Seq(S)
<1>1. PICK k \in Nat : Cut(q, t, k) /\ q[k] = r
  BY DEF LosesOne
<1> DEFINE m == Len(a) + k
<1>2. Cut(a \o q, a \o t, m) /\ (a \o q)[m] = q[k]
  BY <1>1, CutLater
<1>3. m \in Nat
  OBVIOUS
<1>4. a \o q \in Seq(S) /\ a \o t \in Seq(S)
  BY ConcatProperties
<1> HIDE DEF m
<1>5. QED
  BY <1>1, <1>2, <1>3, <1>4 DEF LosesOne

(* A stage that drops its resource cuts it out of Trail.                   *)
LEMMA StageDropsCuts ==
  ASSUME TypeOK, NEW s \in Stages, StageDrops(s)
  PROVE  \E k \in Nat : /\ k > Len(published)
                       /\ Cut(Trail, Trail', k)
                       /\ Trail[k] = stage[s][1]
                       /\ Trail' \in Seq(Resources)
<1> DEFINE r == stage[s][1]
           a == chan["resource"]
           eval == stage["eval"]
           b == eval \o a
           findings == chan["findings"]
           transform == stage["transform"]
           c == BeforeTransform
           d == transform \o c
           ev == chan["events"]
           e == ev \o d
           LosesInD == LosesOne(d, d', r) /\ d \in Seq(Resources) /\ d' \in Seq(Resources)
<1>1. /\ stage[s] = <<r>> /\ r \in Resources /\ stage'[s] = <<>>
      /\ \A t \in Stages : t # s => stage'[t] = stage[t]
      /\ stage' \in [Stages -> {stage[t] : t \in Stages} \cup {<<>>}]
  <2>1. stage[s] # <<>> /\ stage' = [stage EXCEPT ![s] = <<>>] /\ stage \in [Stages -> {stage[t] : t \in Stages}]
    BY DEF StageDrops, TypeOK
  <2>2. QED
    BY <2>1, Segments
<1>2. a' = a /\ findings' = findings /\ ev' = ev /\ buffer' = buffer /\ published' = published
  BY DEF StageDrops, chanVars, pubVars
<1>3. a \in Seq(Resources) /\ findings \in Seq(Resources) /\ ev \in Seq(Resources)
  BY Segments DEF Channels
<1>4. c \in Seq(Resources) /\ eval \in Seq(Resources) /\ transform \in Seq(Resources)
  BY Segments DEF Stages
<1>5. buffer \in Seq(Resources) /\ published \in Seq(Resources)
  BY Segments
<1>6. c = findings \o b /\ c' = findings' \o b'
  BY DEF BeforeTransform
<1>7. InPipeline = buffer \o e /\ InPipeline' = buffer' \o e'
  BY DEF InPipeline
<1>8. b' = eval' \o a' /\ d' = transform' \o c' /\ e' = ev' \o d'
  OBVIOUS
<1>9. ASSUME s = "eval" PROVE LosesInD
  <2>1. eval = <<r>> /\ eval' = <<>> /\ transform' = transform
    BY <1>1, <1>9 DEF Stages
  <2>2. <<>> \o a \in Seq(Resources) /\ <<r>> \o a \in Seq(Resources)
    BY <1>1, <1>3, ConcatProperties
  <2>3. LosesOne(b, b', r) /\ b \in Seq(Resources) /\ b' \in Seq(Resources)
    <3> HIDE DEF r, a, eval
    <3>1. QED
      BY <1>1, <1>2, <1>3, <1>8, <2>1, <2>2, LosesFirst
  <2> HIDE DEF a, eval, b
  <2>4. LosesOne(c, c', r) /\ c' \in Seq(Resources)
    BY <1>2, <1>3, <1>6, <2>3, LosesLater
  <2>5. LosesOne(d, d', r) /\ d \in Seq(Resources) /\ d' \in Seq(Resources)
    <3> HIDE DEF transform, c, r
    <3>1. QED
      BY <1>4, <1>8, <2>1, <2>4, LosesLater
  <2>6. QED
    BY <2>5
<1>10. ASSUME s = "transform" PROVE LosesInD
  <2>1. transform = <<r>> /\ transform' = <<>> /\ eval' = eval
    BY <1>1, <1>10 DEF Stages
  <2>2. c' = c
    BY <1>2, <1>6, <1>8, <2>1
  <2>3. <<>> \o c \in Seq(Resources) /\ <<r>> \o c \in Seq(Resources)
    BY <1>1, <1>4, ConcatProperties
  <2>4. LosesOne(d, d', r) /\ d \in Seq(Resources) /\ d' \in Seq(Resources)
    <3> HIDE DEF transform, c, r
    <3>1. QED
      BY <1>1, <1>4, <1>8, <2>1, <2>2, <2>3, LosesFirst
  <2>5. QED
    BY <2>4
<1>11. LosesOne(d, d', r) /\ d \in Seq(Resources) /\ d' \in Seq(Resources)
  BY <1>9, <1>10 DEF Stages
<1> HIDE DEF r, a, eval, b, findings, transform, c, d, ev
<1>12. LosesOne(e, e', r) /\ e \in Seq(Resources) /\ e' \in Seq(Resources)
  BY <1>2, <1>3, <1>8, <1>11, LosesLater
<1> HIDE DEF e
<1>13. LosesOne(InPipeline, InPipeline', r) /\ InPipeline' \in Seq(Resources)
       /\ InPipeline \in Seq(Resources)
  BY <1>2, <1>5, <1>7, <1>12, LosesLater
<1>14. PICK k \in Nat : Cut(InPipeline, InPipeline', k) /\ InPipeline[k] = r
  BY <1>13 DEF LosesOne
<1> DEFINE m == Len(published) + k
<1>15. Cut(published \o InPipeline, published \o InPipeline', m)
       /\ (published \o InPipeline)[m] = InPipeline[k]
  BY <1>5, <1>13, <1>14, CutLater
<1>16. Cut(Trail, Trail', m) /\ Trail[m] = r
  BY <1>2, <1>14, <1>15 DEF Trail
<1>17. m \in Nat /\ m > Len(published)
  BY <1>5, <1>13, <1>14 DEF Cut
<1> HIDE DEF m
<1>18. Trail' \in Seq(Resources)
  BY <1>2, <1>5, <1>13, ConcatProperties DEF Trail
<1>19. QED
  BY <1>16, <1>17, <1>18 DEF r

(* The steps that leave the history of sends and drops alone. *)
LEMMA SameDelivery ==
  ASSUME TypeOK, TypeOK', DeliveryInv, Trail' = Trail, UNCHANGED <<sent, forward, dropped>>
  PROVE  DeliveryInv'
<1>1. HeldSet' = HeldSet /\ SentSet' = SentSet
  BY DEF HeldSet, SentSet, Current
<1>2. QED
  BY <1>1, Under, DeliveryFrom DEF DeliveryInv

(* A fetcher sends straight into the pipeline.                             *)
LEMMA SendDelivery ==
  ASSUME TypeOK, TypeOK', DeliveryInv, NEW f \in Fetchers, Send(f)
  PROVE  DeliveryInv'
<1> DEFINE r == <<f, sent[f] + 1>>
<1>1. /\ More(f) /\ Kind[f] = "direct" /\ Push("resource", r)
      /\ sent' = [sent EXCEPT ![f] = @ + 1]
      /\ UNCHANGED <<forward, stage, dropped, pubVars>>
  BY DEF Send
<1>2. /\ r \in Resources \ SentSet /\ SentSet' = SentSet \cup {r}
      /\ \A g \in Fetchers : g # f => Current(g)' = Current(g)
  BY <1>1, NextSent
<1>3. forward[f] # "send"
  BY <1>1 DEF DeliveryInv
<1>4. HeldSet' = HeldSet
  BY <1>1, <1>2, <1>3 DEF HeldSet
<1> HIDE DEF r
<1>5. Trail' = Append(Trail, r)
  BY <1>1, <1>2, PushAppends
<1>6. \A x \in Elements(Trail) : x[1] = r[1] => x[2] < r[2]
  <2>1. \A x \in Elements(Trail) : x \in SentSet
    BY Under
  <2>2. SUFFICES ASSUME NEW x \in SentSet, x[1] = f PROVE x[2] < sent[f] + 1
    BY <2>1 DEF r
  <2>3. x[2] <= sent[f] /\ x[2] \in Nat /\ sent[f] \in Nat
    BY <2>2, Under, PostureAssumption DEF SentSet, Resources
  <2>4. QED
    BY <2>3
<1>7. Ordered(Trail') /\ Elements(Trail') = Elements(Trail) \cup {r}
  BY <1>2, <1>5, <1>6, Under, AppendOrdered
<1>8. r \notin HeldSet /\ r \notin dropped
  BY <1>2, Under DEF DeliveryInv
<1>9. QED
  BY <1>1, <1>2, <1>4, <1>7, <1>8, Under, DeliveryFrom DEF DeliveryInv

(* A fetcher hands its next resource to its account goroutine.             *)
LEMMA HandoverDelivery ==
  ASSUME TypeOK, TypeOK', DeliveryInv, NEW f \in Fetchers, Handover(f)
  PROVE  DeliveryInv'
<1> DEFINE r == <<f, sent[f] + 1>>
<1>1. /\ More(f) /\ Kind[f] = "org" /\ forward[f] = "receive"
      /\ forward' = [forward EXCEPT ![f] = "send"]
      /\ sent' = [sent EXCEPT ![f] = @ + 1]
      /\ UNCHANGED <<chan, stage, dropped, buffer, published>>
  BY DEF Handover, chanVars, pubVars
<1>2. /\ r \in Resources \ SentSet /\ SentSet' = SentSet \cup {r}
      /\ \A g \in Fetchers : g # f => Current(g)' = Current(g)
      /\ Current(f)' = r
  BY <1>1, NextSent
<1> HIDE DEF r
<1>3. \A g \in Fetchers : forward'[g] = IF g = f THEN "send" ELSE forward[g]
  BY <1>1 DEF TypeOK
<1>4. HeldSet' = HeldSet \cup {r}
  BY <1>1, <1>2, <1>3 DEF HeldSet
<1>5. Trail' = Trail
  BY <1>1 DEF Trail, InPipeline, BeforeTransform
<1>6. r \notin Elements(Trail) /\ r \notin dropped
  BY <1>2, Under DEF DeliveryInv
<1>7. QED
  BY <1>1, <1>2, <1>3, <1>4, <1>5, <1>6, Under, DeliveryFrom DEF DeliveryInv

(* The account goroutine of f lets go of its resource. *)
LEMMA LetsGo ==
  ASSUME TypeOK, NEW f \in Fetchers, NEW st \in {"receive", "end"}, forward[f] = "send",
         forward' = [forward EXCEPT ![f] = st], UNCHANGED sent
  PROVE  /\ HeldSet' = HeldSet \ {Current(f)} /\ SentSet' = SentSet
         /\ Current(f) \in HeldSet
         /\ \A g \in Fetchers : forward'[g] = "send" => forward[g] = "send"
<1>1. \A g \in Fetchers : forward'[g] = IF g = f THEN st ELSE forward[g]
  BY DEF TypeOK
<1>2. \A g \in Fetchers : Current(g)' = Current(g) /\ (g # f => Current(g) # Current(f))
  BY DEF Current
<1>3. SentSet' = SentSet
  BY DEF SentSet
<1>4. HeldSet' = HeldSet \ {Current(f)} /\ Current(f) \in HeldSet
  BY <1>1, <1>2 DEF HeldSet
<1>5. QED
  BY <1>1, <1>3, <1>4

(* The account goroutine sends it on.                                      *)
LEMMA ForwardDelivery ==
  ASSUME TypeOK, TypeOK', DeliveryInv, NEW f \in Fetchers, Forward(f)
  PROVE  DeliveryInv'
<1> DEFINE r == Current(f)
<1>1. /\ forward[f] = "send" /\ Push("resource", r)
      /\ forward' = [forward EXCEPT ![f] = "receive"]
      /\ UNCHANGED <<sent, stage, dropped, pubVars>>
  BY DEF Forward
<1>2. /\ HeldSet' = HeldSet \ {r} /\ SentSet' = SentSet /\ r \in HeldSet
      /\ \A g \in Fetchers : forward'[g] = "send" => forward[g] = "send"
  BY <1>1, LetsGo
<1>3. r[1] = f /\ r[2] = sent[f]
  BY DEF Current
<1> HIDE DEF r
<1>4. r \in SentSet /\ r \in Resources /\ r \notin dropped /\ r \notin Elements(Trail)
  BY <1>2, Under DEF SentSet
<1>5. Trail' = Append(Trail, r)
  BY <1>1, <1>4, PushAppends
<1>6. \A x \in Elements(Trail) : x[1] = r[1] => x[2] < r[2]
  <2>1. SUFFICES ASSUME NEW x \in Elements(Trail), x[1] = f PROVE x[2] < sent[f]
    BY <1>3
  <2>2. x \in SentSet /\ x # r
    BY <1>4, Under
  <2>3. x = <<x[1], x[2]>> /\ r = <<r[1], r[2]>> /\ x[2] \in Nat /\ x[2] <= sent[x[1]]
    BY <1>4, <2>2, PostureAssumption DEF SentSet, Resources
  <2>4. x[2] # sent[f]
    BY <1>3, <2>1, <2>2, <2>3
  <2>5. sent[f] \in Nat
    BY Under
  <2>6. QED
    BY <2>1, <2>3, <2>4, <2>5
<1>7. Ordered(Trail') /\ Elements(Trail') = Elements(Trail) \cup {r}
  BY <1>4, <1>5, <1>6, Under, AppendOrdered
<1>8. QED
  BY <1>1, <1>2, <1>4, <1>7, Under, DeliveryFrom DEF DeliveryInv

(* The account goroutine ends, with what it holds.                         *)
LEMMA ForwardEndsDelivery ==
  ASSUME TypeOK, TypeOK', DeliveryInv, NEW f \in Fetchers, ForwardEnds(f)
  PROVE  DeliveryInv'
<1>1. /\ Kind[f] = "org" /\ forward' = [forward EXCEPT ![f] = "end"]
      /\ dropped' = IF forward[f] = "send" THEN dropped \cup {Current(f)} ELSE dropped
      /\ UNCHANGED <<sent, chan, stage, buffer, published>>
  BY DEF ForwardEnds, chanVars, pubVars
<1>2. Trail' = Trail
  BY <1>1 DEF Trail, InPipeline, BeforeTransform
<1>3. CASE forward[f] = "send"
  <2>1. /\ HeldSet' = HeldSet \ {Current(f)} /\ SentSet' = SentSet /\ Current(f) \in HeldSet
        /\ \A g \in Fetchers : forward'[g] = "send" => forward[g] = "send"
    BY <1>1, <1>3, LetsGo
  <2>2. QED
    BY <1>1, <1>2, <1>3, <2>1, Under, DeliveryFrom DEF DeliveryInv
<1>4. CASE forward[f] # "send"
  <2>1. /\ \A g \in Fetchers : forward'[g] = "send" <=> forward[g] = "send"
        /\ \A g \in Fetchers : Current(g)' = Current(g)
    BY <1>1, <1>4 DEF TypeOK, Current
  <2>2. HeldSet' = HeldSet /\ SentSet' = SentSet
    BY <1>1, <2>1 DEF HeldSet, SentSet
  <2>3. QED
    BY <1>1, <1>2, <1>4, <2>1, <2>2, Under, DeliveryFrom DEF DeliveryInv
<1>5. QED
  BY <1>3, <1>4

(* A stage drops what it holds.                                            *)
LEMMA StageDropsDelivery ==
  ASSUME TypeOK, TypeOK', DeliveryInv, NEW s \in Stages, StageDrops(s)
  PROVE  DeliveryInv'
<1> DEFINE r == stage[s][1]
<1>1. dropped' = dropped \cup {r} /\ UNCHANGED <<sent, forward>>
  BY DEF StageDrops, fetchVars
<1>2. PICK k \in Nat : Cut(Trail, Trail', k) /\ Trail[k] = r /\ Trail' \in Seq(Resources)
  BY StageDropsCuts
<1> HIDE DEF r
<1>3. Trail \in Seq(Resources) /\ k \in DOMAIN Trail
  <2>1. Trail \in Seq(Resources)
    BY Segments
  <2>2. QED
    BY <1>2, <2>1 DEF Cut
<1>4. Ordered(Trail') /\ Elements(Trail') = Elements(Trail) \ {r}
  BY <1>2, <1>3, Under, CutOrdered
<1>5. r \in Elements(Trail)
  BY <1>2, <1>3 DEF Elements
<1>6. HeldSet' = HeldSet /\ SentSet' = SentSet
  BY <1>1 DEF HeldSet, SentSet, Current
<1>7. QED
  BY <1>1, <1>4, <1>5, <1>6, Under, DeliveryFrom DEF DeliveryInv

(* Every step keeps the invariant.                                         *)
LEMMA DeliveryStep == TypeOK /\ TypeOK' /\ DeliveryInv /\ [Next]_vars => DeliveryInv'
<1> SUFFICES ASSUME TypeOK, TypeOK', DeliveryInv, [Next]_vars PROVE DeliveryInv'
  OBVIOUS
<1> USE DEF chanVars, fetchVars, pubVars
<1>1. CASE UNCHANGED vars
  <2>1. Trail' = Trail
    BY <1>1 DEF vars, Trail, InPipeline, BeforeTransform
  <2>2. QED
    BY <1>1, <2>1, SameDelivery DEF vars
<1>2. ASSUME NEW f \in Fetchers, FetchStep(f) PROVE DeliveryInv'
  <2>1. CASE SendPanics(f) \/ FetchReturns(f)
    <3>1. UNCHANGED <<chan, stage, buffer, published, sent, forward, dropped>>
      BY <2>1 DEF SendPanics, FetchReturns
    <3>2. Trail' = Trail
      BY <3>1 DEF Trail, InPipeline, BeforeTransform
    <3>3. QED
      BY <3>1, <3>2, SameDelivery
  <2>2. QED
    BY <1>2, <2>1, SendDelivery, HandoverDelivery DEF FetchStep
<1>3. ASSUME NEW f \in Fetchers, ForwardStep(f) PROVE DeliveryInv'
  <2>1. CASE ForwardPanics(f)
    <3>1. UNCHANGED <<chan, stage, buffer, published, sent, forward, dropped>>
      BY <2>1 DEF ForwardPanics
    <3>2. Trail' = Trail
      BY <3>1 DEF Trail, InPipeline, BeforeTransform
    <3>3. QED
      BY <3>1, <3>2, SameDelivery
  <2>2. QED
    BY <1>3, <2>1, ForwardDelivery, ForwardEndsDelivery DEF ForwardStep
<1>4. ASSUME NEW s \in Stages, StageDrops(s) PROVE DeliveryInv'
  BY <1>4, StageDropsDelivery
<1>5. CASE TrailStep
  <2>1. UNCHANGED <<sent, forward, dropped>>
    BY <1>5 DEF TrailStep, StageReceive, StageSends, PublisherReceive, PublisherClosed,
                PublisherDone, PublisherTick
  <2>2. QED
    BY <1>5, <2>1, TrailStays, SameDelivery
<1>6. CASE \/ \E s \in Stages : StageEnds(s)
           \/ ManagerStop \/ StopStep
  <2>1. UNCHANGED <<chan, stage, buffer, published, sent, forward, dropped>>
    BY <1>6 DEF StageEnds, ManagerStop, StopStep, CloseResourceCh, ClientClose, Cancel
  <2>2. Trail' = Trail
    BY <2>1 DEF Trail, InPipeline, BeforeTransform
  <2>3. QED
    BY <2>1, <2>2, SameDelivery
<1>7. QED
  BY <1>1, <1>2, <1>3, <1>4, <1>5, <1>6 DEF Next, TrailStep, StageStep, PublisherStep

(* At first nothing is under way.                                          *)
LEMMA InitDelivery == Init => DeliveryInv
<1> SUFFICES ASSUME Init PROVE DeliveryInv
  OBVIOUS
<1>1. Trail = <<>>
  BY DEF Init, Trail, InPipeline, BeforeTransform, Channels, Stages
<1>2. HeldSet = {}
  BY DEF Init, HeldSet
<1>3. SentSet = {}
  BY PostureAssumption DEF Init, SentSet, Resources
<1>4. dropped = {} /\ \A f \in Fetchers : forward[f] # "send"
  BY DEF Init
<1>5. QED
  BY <1>1, <1>2, <1>3, <1>4
     DEF DeliveryInv, ExactlyOnceInOrder, InOrder, NothingLost, HeldOnce

(* For any number of fetchers and resources and any capacities: whatever   *)
(* was sent and not dropped is under way or published exactly once, and    *)
(* each fetcher's resources in the order it sent them.                     *)
THEOREM PostureDelivery == Spec => []DeliveryInv
<1>1. QED
  BY InitDelivery, DeliveryStep, PostureTypeOK, PTL DEF Spec

(* No resource is lost, duplicated or overtaken by a later one of the same *)
(* fetcher.                                                                *)
THEOREM PostureExactlyOnce == Spec => []ExactlyOnceInOrder
<1>1. DeliveryInv => ExactlyOnceInOrder
  BY DEF DeliveryInv
<1>2. QED
  BY <1>1, PostureDelivery, PTL

-----------------------------------------------------------------------------
(***************************************************************************)
(* The pipeline keeps the promise of Delivery.                             *)
(***************************************************************************)
StatusFrom(sentSet, lost, pub) ==
  [r \in Resources |->
     IF r \in pub THEN "published" ELSE IF r \in lost THEN "lost"
     ELSE IF r \in sentSet THEN "accepted" ELSE "new"]

(* The status of every resource, as the three sets say.                    *)
LEMMA StatusDef ==
  /\ [r \in Resources |-> StatusOf(r)] = StatusFrom(SentSet, dropped, PublishedSet)
  /\ [r \in Resources |-> StatusOf(r)]' = StatusFrom(SentSet', dropped', PublishedSet')
BY DEF StatusOf, StatusFrom, SentSet

(* What is published, and what is still behind it. *)
LEMMA PublishedPart ==
  ASSUME TypeOK, DeliveryInv
  PROVE  /\ PublishedSet = Elements(published)
         /\ PublishedSet \subseteq SentSet \ dropped /\ PublishedSet \cap HeldSet = {}
         /\ \A k \in DOMAIN Trail : k > Len(published) => Trail[k] \notin PublishedSet
<1>1. /\ published \in Seq(Resources) /\ InPipeline \in Seq(Resources)
      /\ Trail \in Seq(Resources) /\ Trail = published \o InPipeline
  BY Segments DEF Trail
<1>2. \A i \in 1..Len(published) : i \in DOMAIN Trail /\ Trail[i] = published[i]
  <2> HIDE DEF Trail
  <2>1. QED
    BY <1>1
<1>3. PublishedSet = Elements(published) /\ DOMAIN published = 1..Len(published)
  BY <1>1 DEF PublishedSet, Elements
<1>4. PublishedSet \subseteq Elements(Trail)
  BY <1>2, <1>3 DEF Elements
<1>5. ASSUME NEW k \in DOMAIN Trail, k > Len(published) PROVE Trail[k] \notin PublishedSet
  <2>1. SUFFICES ASSUME NEW i \in 1..Len(published), Trail[k] = Trail[i] PROVE FALSE
    BY <1>2, <1>3 DEF Elements
  <2>2. i < k /\ Trail[i] \in Resources
    BY <1>1, <1>2, <1>5
  <2>3. Trail[i][2] \in Nat
    BY <2>2, PostureAssumption DEF Resources
  <2>4. Trail[i][2] < Trail[k][2]
    BY <1>2, <2>1, <2>2, Under DEF Ordered
  <2>5. QED
    BY <2>1, <2>3, <2>4
<1>6. QED
  BY <1>3, <1>4, <1>5, Under

(* A resource that is sent is accepted.                                    *)
LEMMA Accepts ==
  ASSUME NEW r \in Resources \ SentSet, r \notin dropped, r \notin PublishedSet,
         SentSet' = SentSet \cup {r}, UNCHANGED <<dropped, published, publisher>>
  PROVE  Promise!Accept
<1>1. PublishedSet' = PublishedSet
  BY DEF PublishedSet
<1>2. r \in Promise!Is("new")
  BY StatusDef DEF Promise!Is, StatusFrom
<1>3. Promise!Set({r}, "accepted")
  BY <1>1, StatusDef DEF Promise!Set, StatusFrom
<1>4. QED
  BY <1>2, <1>3 DEF Promise!Accept

(* A resource that is dropped is lost.                                     *)
LEMMA Loses ==
  ASSUME NEW r \in SentSet, r \notin dropped, r \notin PublishedSet,
         SentSet' = SentSet, dropped' = dropped \cup {r}, UNCHANGED <<published, publisher>>
  PROVE  Promise!Lose
<1>1. PublishedSet' = PublishedSet /\ r \in Resources
  BY DEF PublishedSet, SentSet
<1>2. r \in Promise!Is("accepted")
  BY <1>1, StatusDef DEF Promise!Is, StatusFrom
<1>3. Promise!Set({r}, "lost")
  BY <1>1, StatusDef DEF Promise!Set, StatusFrom
<1>4. QED
  BY <1>2, <1>3 DEF Promise!Lose

(* Resources that are flushed were accepted, and are published.            *)
LEMMA Publishes ==
  ASSUME NEW S \in SUBSET (SentSet \ dropped), S \cap PublishedSet = {},
         PublishedSet' = PublishedSet \cup S, publisher = "select",
         SentSet' = SentSet, dropped' = dropped
  PROVE  Promise!Publish
<1>1. S \subseteq Resources
  BY DEF SentSet
<1>2. S \in SUBSET Promise!Is("accepted")
  BY <1>1, StatusDef DEF Promise!Is, StatusFrom
<1>3. Promise!Set(S, "published")
  BY <1>1, StatusDef DEF Promise!Set, StatusFrom
<1>4. (publisher = "select") \in BOOLEAN /\ (publisher = "select")' \in BOOLEAN
  OBVIOUS
<1>5. QED
  BY <1>2, <1>3, <1>4 DEF Promise!Publish

(* What moves within the pipeline is not seen.                             *)
LEMMA Hides ==
  ASSUME UNCHANGED <<sent, dropped, published, publisher>>
  PROVE  UNCHANGED Promise!vars
BY StatusDef DEF Promise!vars, SentSet, PublishedSet, StatusOf

(* A step of the publisher publishes, or ends publishing.                  *)
LEMMA PublisherRefines ==
  ASSUME TypeOK, DeliveryInv,
         PublisherReceive \/ PublisherClosed \/ PublisherDone \/ PublisherTick
  PROVE  Promise!Next
<1>1. PICK events \in Seq(Resources), rest \in Seq(Resources) :
        published' = published \o events /\ Trail = published \o (events \o rest)
  BY PublisherSends
<1> DEFINE S == Elements(events)
           p == published
<1>2. p \in Seq(Resources) /\ published' = p \o events /\ Trail = p \o (events \o rest)
  BY <1>1, Segments
<1>3. PublishedSet = Elements(p) /\ PublishedSet' = Elements(published')
  <2>1. PublishedSet' = Elements(published')
    BY DEF PublishedSet, Elements
  <2>2. QED
    BY <2>1, PublishedPart
<1> HIDE DEF p
<1>4. PublishedSet' = PublishedSet \cup S
  <2>1. /\ Len(p \o events) = Len(p) + Len(events) /\ Len(p) \in Nat /\ Len(events) \in Nat
        /\ DOMAIN (p \o events) = 1..(Len(p) + Len(events))
        /\ DOMAIN p = 1..Len(p) /\ DOMAIN events = 1..Len(events)
        /\ \A i \in 1..Len(p) : (p \o events)[i] = p[i]
        /\ \A i \in 1..Len(events) : (p \o events)[Len(p) + i] = events[i]
    BY <1>2
  <2> DEFINE t == p \o events
  <2>2. Elements(t) \subseteq Elements(p) \cup S
    <3>1. SUFFICES ASSUME NEW n \in 1..(Len(p) + Len(events)) PROVE t[n] \in Elements(p) \cup S
      BY <2>1 DEF Elements
    <3>2. CASE n <= Len(p)
      <4>1. n \in 1..Len(p)
        BY <2>1, <3>2
      <4>2. QED
        BY <2>1, <4>1 DEF Elements
    <3>3. CASE ~(n <= Len(p))
      <4>1. n - Len(p) \in 1..Len(events) /\ Len(p) + (n - Len(p)) = n
        BY <2>1, <3>3
      <4>2. t[n] = events[n - Len(p)]
        BY <2>1, <4>1
      <4>3. QED
        BY <2>1, <4>1, <4>2 DEF Elements
    <3>4. QED
      BY <3>2, <3>3
  <2>3. Elements(p) \cup S \subseteq Elements(t)
    <3>1. \A i \in 1..Len(p) : i \in DOMAIN t
      BY <2>1
    <3>2. \A i \in 1..Len(events) : Len(p) + i \in DOMAIN t
      BY <2>1
    <3>3. QED
      BY <2>1, <3>1, <3>2 DEF Elements
  <2>4. QED
    BY <1>2, <1>3, <2>2, <2>3
<1>5. \A i \in 1..Len(events) : /\ Len(p) + i \in DOMAIN Trail /\ Len(p) + i > Len(p)
                              /\ Trail[Len(p) + i] = events[i]
  <2>1. events \o rest \in Seq(Resources) /\ Len(events \o rest) = Len(events) + Len(rest)
        /\ \A i \in 1..Len(events) : (events \o rest)[i] = events[i]
        /\ Len(rest) \in Nat /\ Len(events) \in Nat /\ Len(p) \in Nat
    BY <1>2
  <2> DEFINE q == events \o rest
  <2> HIDE DEF q
  <2>2. /\ DOMAIN (p \o q) = 1..(Len(p) + Len(q))
        /\ \A i \in 1..Len(q) : (p \o q)[Len(p) + i] = q[i]
    BY <1>2, <2>1 DEF q
  <2>3. QED
    BY <1>2, <2>1, <2>2 DEF q
<1>6. S \subseteq SentSet \ dropped /\ S \cap PublishedSet = {}
  <2>1. DOMAIN events = 1..Len(events)
    OBVIOUS
  <2>2. \A x \in S : \E k \in DOMAIN Trail : k > Len(published) /\ x = Trail[k]
    BY <1>5, <2>1 DEF Elements, p
  <2>3. \A x \in S : x \in Elements(Trail) /\ x \notin PublishedSet
    BY <2>2, PublishedPart DEF Elements
  <2>4. QED
    BY <2>3, Under
<1>7. publisher = "select" /\ UNCHANGED <<sent, dropped>>
  BY DEF PublisherReceive, PublisherClosed, PublisherDone, PublisherTick, fetchVars
<1>8. SentSet' = SentSet
  BY <1>7 DEF SentSet
<1> HIDE DEF S
<1>9. QED
  BY <1>4, <1>6, <1>7, <1>8, Publishes DEF Promise!Next

(* Every step is one of Delivery's or is not seen.                         *)
LEMMA DeliveryRefines ==
  ASSUME TypeOK, DeliveryInv, [Next]_vars
  PROVE  Promise!Next \/ UNCHANGED Promise!vars
<1> USE DEF chanVars, fetchVars, pubVars
<1>1. CASE UNCHANGED vars
  BY <1>1, Hides DEF vars
<1>2. ASSUME NEW f \in Fetchers, Send(f) \/ Handover(f) PROVE Promise!Next
  <2> DEFINE r == <<f, sent[f] + 1>>
  <2>1. /\ More(f) /\ sent' = [sent EXCEPT ![f] = @ + 1]
        /\ UNCHANGED <<dropped, published, publisher>>
    BY <1>2 DEF Send, Handover
  <2>2. r \in Resources \ SentSet /\ SentSet' = SentSet \cup {r}
    BY <2>1, NextSent
  <2> HIDE DEF r
  <2>3. r \notin dropped /\ r \notin PublishedSet
    BY <2>2, PublishedPart DEF DeliveryInv
  <2>4. QED
    BY <2>1, <2>2, <2>3, Accepts DEF Promise!Next
<1>3. ASSUME NEW f \in Fetchers, SendPanics(f) \/ FetchReturns(f) \/ Forward(f) \/ ForwardPanics(f)
      PROVE  UNCHANGED Promise!vars
  BY <1>3, Hides DEF SendPanics, FetchReturns, Forward, ForwardPanics
<1>4. ASSUME NEW f \in Fetchers, ForwardEnds(f) PROVE Promise!Next \/ UNCHANGED Promise!vars
  <2>1. UNCHANGED <<sent, published, publisher>>
    BY <1>4 DEF ForwardEnds
  <2>2. CASE forward[f] = "send"
    <3>1. dropped' = dropped \cup {Current(f)} /\ Current(f) \in HeldSet /\ SentSet' = SentSet
      BY <1>4, <2>1, <2>2 DEF ForwardEnds, HeldSet, SentSet
    <3>2. Current(f) \in SentSet /\ Current(f) \notin dropped /\ Current(f) \notin PublishedSet
      BY <3>1, Under, PublishedPart
    <3>3. QED
      BY <2>1, <3>1, <3>2, Loses DEF Promise!Next
  <2>3. CASE forward[f] # "send"
    BY <1>4, <2>1, <2>3, Hides DEF ForwardEnds
  <2>4. QED
    BY <2>2, <2>3
<1>5. ASSUME NEW s \in Stages, StageDrops(s) PROVE Promise!Next
  <2> DEFINE r == stage[s][1]
  <2>1. /\ dropped' = dropped \cup {r} /\ UNCHANGED <<sent, published, publisher>>
    BY <1>5 DEF StageDrops
  <2>2. PICK k \in Nat : k > Len(published) /\ Cut(Trail, Trail', k) /\ Trail[k] = r
    BY <1>5, StageDropsCuts
  <2> HIDE DEF r
  <2>3. k \in DOMAIN Trail
    BY <2>2, Under DEF Cut
  <2>4. r \in Elements(Trail) /\ r \notin PublishedSet
    BY <2>2, <2>3, PublishedPart DEF Elements
  <2>5. r \in SentSet /\ r \notin dropped /\ SentSet' = SentSet
    BY <2>1, <2>4, Under DEF SentSet
  <2>6. QED
    BY <2>1, <2>4, <2>5, Loses DEF Promise!Next
<1>6. ASSUME NEW s \in Stages, StageReceive(s) \/ StageSends(s) \/ StageEnds(s)
      PROVE  UNCHANGED Promise!vars
  BY <1>6, Hides DEF StageReceive, StageSends, StageEnds
<1>7. CASE PublisherStep \/ PublisherTick
  BY <1>7, PublisherRefines DEF PublisherStep
<1>8. CASE ManagerStop \/ StopStep
  BY <1>8, Hides DEF ManagerStop, StopStep, CloseResourceCh, ClientClose, Cancel
<1>9. QED
  BY <1>1, <1>2, <1>3, <1>4, <1>5, <1>6, <1>7, <1>8
     DEF Next, FetchStep, ForwardStep, StageStep

(* The pipeline implements Delivery: a resource is published at most once, *)
(* after it was sent, not after it was dropped, and not after the          *)
(* publisher returned.                                                     *)
THEOREM PostureDelivers == Spec => Delivers
<1>1. Init => Promise!Init
  <2> SUFFICES ASSUME Init PROVE Promise!Init
    OBVIOUS
  <2>1. PublishedSet = {} /\ dropped = {} /\ SentSet = {} /\ publisher = "select"
    BY PostureAssumption DEF Init, PublishedSet, SentSet, Resources
  <2>2. QED
    BY <2>1, StatusDef DEF Promise!Init, StatusFrom
<1>2. TypeOK /\ DeliveryInv /\ [Next]_vars => [Promise!Next]_(Promise!vars)
  BY DeliveryRefines
<1>3. QED
  BY <1>1, <1>2, PostureTypeOK, PostureDelivery, PTL DEF Spec, Delivers, Promise!Spec
-----------------------------------------------------------------------------
(***************************************************************************)
(* Who can move.  From the publisher backwards: a stage that can neither   *)
(* send nor receive nor end leaves room before it, and has nothing behind. *)
(***************************************************************************)

(* An empty open channel has room.                                         *)
LEMMA EmptyHasRoom ==
  ASSUME NEW c \in Channels, c \notin closed, chan[c] = <<>>
  PROVE  CanSend(c)
<1>1. Capacity(c) \in Nat \ {0}
  BY PostureAssumption DEF Capacity
<1> QED
  BY <1>1 DEF CanSend

(* A stage with room in its output is not stuck: it has nothing in hand,   *)
(* and nothing to come.                                                    *)
LEMMA StageAtRest ==
  ASSUME NEW s \in Stages, CanSend(Out[s]), ~StageCanStep(s)
  PROVE  stage[s] = <<>> /\ chan[In[s]] = <<>> /\ In[s] \notin closed
<1>1. Out[s] \notin closed
  BY DEF CanSend
<1> QED
  BY <1>1 DEF StageCanStep

(* While HandleEvents runs and anything is under way to it, a goroutine    *)
(* can move without losing anything; none of this needs a fetch to go on.  *)
THEOREM PostureNeverStuck == Spec => []NeverStuck
<1>1. NeverStuck
  <2> SUFFICES ASSUME ~SomeoneCanStep PROVE ~UnderWay
    BY DEF NeverStuck
  <2>1. {"resource", "findings", "events"} = Channels /\ {"eval", "transform"} = Stages
    BY DEF Channels, Stages
  <2>2. /\ In["eval"] = "resource" /\ Out["eval"] = "findings"
        /\ In["transform"] = "findings" /\ Out["transform"] = "events"
    BY DEF Stages, In, Out
  <2>3. chan["events"] = <<>> /\ "events" \notin closed /\ \A s \in Stages : ~StageCanStep(s)
    BY DEF SomeoneCanStep, PublisherCanStep
  <2>4. stage["transform"] = <<>> /\ chan["findings"] = <<>> /\ "findings" \notin closed
    <3>1. CanSend(Out["transform"])
      BY <2>1, <2>2, <2>3, EmptyHasRoom
    <3> QED
      BY <2>1, <2>2, <2>3, <3>1, StageAtRest
  <2>5. stage["eval"] = <<>> /\ chan["resource"] = <<>> /\ "resource" \notin closed
    <3>1. CanSend(Out["eval"])
      BY <2>1, <2>2, <2>4, EmptyHasRoom
    <3> QED
      BY <2>1, <2>2, <2>3, <3>1, StageAtRest
  <2>6. \A f \in Fetchers : forward[f] # "send"
    BY <2>1, <2>5, EmptyHasRoom DEF SomeoneCanStep
  <2>7. HeldSet = {}
    BY <2>6 DEF HeldSet
  <2> QED
    BY <2>1, <2>2, <2>3, <2>4, <2>5, <2>7 DEF UnderWay, Stages
<1> QED
  BY <1>1, PTL
(* The length of what is in a channel.                                     *)
LEMMA PushLength ==
  ASSUME TypeOK, NEW c \in Channels, NEW r, Push(c, r)
  PROVE  /\ Len(chan'[c]) = Len(chan[c]) + 1
         /\ \A d \in Channels \ {c} : chan'[d] = chan[d]
<1>1. chan \in [Channels -> Seq(Resources)] /\ chan' = [chan EXCEPT ![c] = Append(chan[c], r)]
  BY DEF TypeOK, Push
<1>2. chan'[c] = Append(chan[c], r) /\ chan[c] \in Seq(Resources)
  BY <1>1
<1>3. Len(Append(chan[c], r)) = Len(chan[c]) + 1
  BY <1>2
<1> QED
  BY <1>1, <1>2, <1>3

LEMMA PopLength ==
  ASSUME TypeOK, NEW c \in Channels, chan[c] # <<>>, Pop(c)
  PROVE  /\ Len(chan'[c]) = Len(chan[c]) - 1
         /\ \A d \in Channels \ {c} : chan'[d] = chan[d]
<1>1. chan \in [Channels -> Seq(Resources)] /\ chan' = [chan EXCEPT ![c] = Tail(chan[c])]
  BY DEF TypeOK, Pop
<1>2. chan'[c] = Tail(chan[c]) /\ chan[c] \in Seq(Resources)
  BY <1>1
<1>3. Len(Tail(chan[c])) = Len(chan[c]) - 1
  BY <1>2
<1> QED
  BY <1>1, <1>2, <1>3

(* All of what Work counts is a number.                                    *)
LEMMA Lengths ==
  ASSUME TypeOK
  PROVE  /\ Len(chan["resource"]) \in Nat /\ Len(chan["findings"]) \in Nat
         /\ Len(chan["events"]) \in Nat
         /\ \A s \in Stages : Len(stage[s]) \in Nat
<1>1. /\ chan["resource"] \in Seq(Resources) /\ chan["findings"] \in Seq(Resources)
      /\ chan["events"] \in Seq(Resources)
  BY DEF TypeOK, Channels
<1>2. ASSUME NEW s \in Stages PROVE Len(stage[s]) \in Nat
  <2>1. CASE stage[s] = <<>>
    BY <2>1
  <2>2. CASE \E r \in Resources : stage[s] = <<r>>
    BY <2>2
  <2> QED
    BY <2>1, <2>2 DEF TypeOK
<1> QED
  BY <1>1, <1>2

LEMMA StageNames ==
  /\ Channels = {"resource", "findings", "events"} /\ Stages = {"eval", "transform"}
  /\ In["eval"] = "resource" /\ Out["eval"] = "findings"
  /\ In["transform"] = "findings" /\ Out["transform"] = "events"
  BY DEF Channels, Stages, In, Out

(* What the steps of a stage do to the lengths.                            *)
StageMoved(s, n) ==
  /\ Len(stage'[s]) = n
  /\ \A t \in Stages \ {s} : stage'[t] = stage[t]

LEMMA StageLength ==
  ASSUME TypeOK, NEW s \in Stages, NEW q, stage' = [stage EXCEPT ![s] = q]
  PROVE  StageMoved(s, Len(q))
  BY DEF TypeOK, StageMoved

LEMMA EvalMoved ==
  ASSUME NEW n, StageMoved("eval", n)
  PROVE  Len(stage'["eval"]) = n /\ stage'["transform"] = stage["transform"]
  BY DEF StageMoved, Stages

LEMMA TransformMoved ==
  ASSUME NEW n, StageMoved("transform", n)
  PROVE  Len(stage'["transform"]) = n /\ stage'["eval"] = stage["eval"]
  BY DEF StageMoved, Stages

(* A number below another.                                                 *)
Below(w, u) == w \in Int /\ u \in Int /\ w < u

(* The weights: each move takes away more than it adds.                    *)
LEMMA Weights ==
  ASSUME NEW r \in Nat, NEW e \in Nat, NEW f \in Nat, NEW t \in Nat, NEW v \in Nat,
         NEW x \in Nat, NEW y \in Nat
  PROVE  /\ Below(Weigh(r - 1, e + 1, f, t, v, x, y), Weigh(r, e, f, t, v, x, y))
         /\ Below(Weigh(r, e - 1, f, t, v, x, y), Weigh(r, e, f, t, v, x, y))
         /\ Below(Weigh(r, e - 1, f + 1, t, v, x, y), Weigh(r, e, f, t, v, x, y))
         /\ Below(Weigh(r, e, f - 1, t + 1, v, x, y), Weigh(r, e, f, t, v, x, y))
         /\ Below(Weigh(r, e, f, t - 1, v, x, y), Weigh(r, e, f, t, v, x, y))
         /\ Below(Weigh(r, e, f, t - 1, v + 1, x, y), Weigh(r, e, f, t, v, x, y))
         /\ Below(Weigh(r, e, f, t, v - 1, x, y), Weigh(r, e, f, t, v, x, y))
         /\ Below(Weigh(r, e, f, t, v, x - 1, y), Weigh(r, e, f, t, v, x, y))
         /\ Below(Weigh(r, e, f, t, v, x, y - 1), Weigh(r, e, f, t, v, x, y))
         /\ Weigh(r, e, f, t, v, x, y) \in Nat
  BY DEF Weigh, Below

LEMMA OpenStays ==
  ASSUME closed' = closed \/ closed' = closed \cup {"resource"}
  PROVE  Open("findings")' = Open("findings") /\ Open("events")' = Open("events")
  BY DEF Open

(* A stage holds at most one resource.                                     *)
LEMMA StageHolds ==
  ASSUME TypeOK, NEW s \in Stages, stage[s] # <<>>
  PROVE  Len(stage[s]) = 1
<1>1. PICK q \in Resources : stage[s] = <<q>>
  BY DEF TypeOK
<1> QED
  BY <1>1

(* A step of a stage is one fewer to go.                                   *)
LEMMA StageWorks ==
  ASSUME TypeOK, NEW s \in Stages, StageStep(s)
  PROVE  Below(Work', Work)
<1> DEFINE r == Len(chan["resource"])
           e == Len(stage["eval"])
           f == Len(chan["findings"])
           t == Len(stage["transform"])
           v == Len(chan["events"])
           x == Open("findings")
           y == Open("events")
<1>1. r \in Nat /\ e \in Nat /\ f \in Nat /\ t \in Nat /\ v \in Nat /\ x \in Nat /\ y \in Nat
  BY Lengths, StageNames DEF Open
<1>2. Work = Weigh(r, e, f, t, v, x, y)
  BY DEF Work
<1>3. Work' = Weigh(Len(chan'["resource"]), Len(stage'["eval"]), Len(chan'["findings"]),
                    Len(stage'["transform"]), Len(chan'["events"]),
                    Open("findings")', Open("events")')
  BY DEF Work
<1>4. s = "eval" \/ s = "transform"
  BY StageNames
<1>5. Len(<<>>) = 0 /\ \A q : Len(<<q>>) = 1
  OBVIOUS
<1>6. CASE StageReceive(s)
  <2>1. Len(stage[s]) = 0 /\ StageMoved(s, 1)
    BY <1>5, <1>6, StageLength DEF StageReceive
  <2>2. /\ Len(chan'[In[s]]) = Len(chan[In[s]]) - 1
        /\ \A d \in Channels \ {In[s]} : chan'[d] = chan[d]
    BY <1>4, <1>6, PopLength, StageNames DEF StageReceive
  <2>3. Open("findings")' = x /\ Open("events")' = y
    BY <1>6, OpenStays DEF StageReceive
  <2>4. CASE s = "eval"
    <3>1. /\ Len(stage["eval"]) = 0 /\ Len(stage'["eval"]) = 1
          /\ stage'["transform"] = stage["transform"]
      BY <2>1, <2>4, EvalMoved
    <3>2. /\ Len(chan'["resource"]) = Len(chan["resource"]) - 1
          /\ chan'["findings"] = chan["findings"] /\ chan'["events"] = chan["events"]
      BY <2>2, <2>4, StageNames
    <3>3. /\ Len(chan'["resource"]) = r - 1 /\ Len(stage'["eval"]) = e + 1 /\ Len(chan'["findings"]) = f
          /\ Len(stage'["transform"]) = t /\ Len(chan'["events"]) = v
      BY <1>1, <3>1, <3>2
    <3>4. Work' = Weigh(r - 1, e + 1, f, t, v, x, y)
      BY <1>3, <2>3, <3>3
    <3> QED
      BY <1>1, <1>2, <3>4, Weights
  <2>5. CASE s = "transform"
    <3>1. /\ Len(stage["transform"]) = 0 /\ Len(stage'["transform"]) = 1
          /\ stage'["eval"] = stage["eval"]
      BY <2>1, <2>5, TransformMoved
    <3>2. /\ Len(chan'["findings"]) = Len(chan["findings"]) - 1
          /\ chan'["resource"] = chan["resource"] /\ chan'["events"] = chan["events"]
      BY <2>2, <2>5, StageNames
    <3>3. /\ Len(chan'["resource"]) = r /\ Len(stage'["eval"]) = e /\ Len(chan'["findings"]) = f - 1
          /\ Len(stage'["transform"]) = t + 1 /\ Len(chan'["events"]) = v
      BY <1>1, <3>1, <3>2
    <3>4. Work' = Weigh(r, e, f - 1, t + 1, v, x, y)
      BY <1>3, <2>3, <3>3
    <3> QED
      BY <1>1, <1>2, <3>4, Weights
  <2> QED
    BY <1>4, <2>4, <2>5
<1>7. CASE StageDrops(s)
  <2>1. Len(stage[s]) = 1 /\ StageMoved(s, 0)
    BY <1>5, <1>7, StageHolds, StageLength DEF StageDrops
  <2>2. chan' = chan /\ Open("findings")' = x /\ Open("events")' = y
    BY <1>7, OpenStays DEF StageDrops, chanVars
  <2>3. CASE s = "eval"
    <3>1. /\ Len(stage["eval"]) = 1 /\ Len(stage'["eval"]) = 0
          /\ stage'["transform"] = stage["transform"]
      BY <2>1, <2>3, EvalMoved
    <3>2. chan' = chan
      BY <2>2
    <3>3. /\ Len(chan'["resource"]) = r /\ Len(stage'["eval"]) = e - 1 /\ Len(chan'["findings"]) = f
          /\ Len(stage'["transform"]) = t /\ Len(chan'["events"]) = v
      BY <1>1, <3>1, <3>2
    <3>4. Work' = Weigh(r, e - 1, f, t, v, x, y)
      BY <1>3, <2>2, <3>3
    <3> QED
      BY <1>1, <1>2, <3>4, Weights
  <2>4. CASE s = "transform"
    <3>1. /\ Len(stage["transform"]) = 1 /\ Len(stage'["transform"]) = 0
          /\ stage'["eval"] = stage["eval"]
      BY <2>1, <2>4, TransformMoved
    <3>2. chan' = chan
      BY <2>2
    <3>3. /\ Len(chan'["resource"]) = r /\ Len(stage'["eval"]) = e /\ Len(chan'["findings"]) = f
          /\ Len(stage'["transform"]) = t - 1 /\ Len(chan'["events"]) = v
      BY <1>1, <3>1, <3>2
    <3>4. Work' = Weigh(r, e, f, t - 1, v, x, y)
      BY <1>3, <2>2, <3>3
    <3> QED
      BY <1>1, <1>2, <3>4, Weights
  <2> QED
    BY <1>4, <2>3, <2>4
<1>8. CASE StageSends(s)
  <2>1. Len(stage[s]) = 1 /\ StageMoved(s, 0)
    BY <1>5, <1>8, StageHolds, StageLength DEF StageSends
  <2>2. /\ Len(chan'[Out[s]]) = Len(chan[Out[s]]) + 1
        /\ \A d \in Channels \ {Out[s]} : chan'[d] = chan[d]
    BY <1>4, <1>8, PushLength, StageNames DEF StageSends
  <2>3. Open("findings")' = x /\ Open("events")' = y
    BY <1>8, OpenStays DEF StageSends
  <2>4. CASE s = "eval"
    <3>1. /\ Len(stage["eval"]) = 1 /\ Len(stage'["eval"]) = 0
          /\ stage'["transform"] = stage["transform"]
      BY <2>1, <2>4, EvalMoved
    <3>2. /\ Len(chan'["findings"]) = Len(chan["findings"]) + 1
          /\ chan'["resource"] = chan["resource"] /\ chan'["events"] = chan["events"]
      BY <2>2, <2>4, StageNames
    <3>3. /\ Len(chan'["resource"]) = r /\ Len(stage'["eval"]) = e - 1 /\ Len(chan'["findings"]) = f + 1
          /\ Len(stage'["transform"]) = t /\ Len(chan'["events"]) = v
      BY <1>1, <3>1, <3>2
    <3>4. Work' = Weigh(r, e - 1, f + 1, t, v, x, y)
      BY <1>3, <2>3, <3>3
    <3> QED
      BY <1>1, <1>2, <3>4, Weights
  <2>5. CASE s = "transform"
    <3>1. /\ Len(stage["transform"]) = 1 /\ Len(stage'["transform"]) = 0
          /\ stage'["eval"] = stage["eval"]
      BY <2>1, <2>5, TransformMoved
    <3>2. /\ Len(chan'["events"]) = Len(chan["events"]) + 1
          /\ chan'["resource"] = chan["resource"] /\ chan'["findings"] = chan["findings"]
      BY <2>2, <2>5, StageNames
    <3>3. /\ Len(chan'["resource"]) = r /\ Len(stage'["eval"]) = e /\ Len(chan'["findings"]) = f
          /\ Len(stage'["transform"]) = t - 1 /\ Len(chan'["events"]) = v + 1
      BY <1>1, <3>1, <3>2
    <3>4. Work' = Weigh(r, e, f, t - 1, v + 1, x, y)
      BY <1>3, <2>3, <3>3
    <3> QED
      BY <1>1, <1>2, <3>4, Weights
  <2> QED
    BY <1>4, <2>4, <2>5
<1>9. CASE StageEnds(s)
  <2>1. chan' = chan /\ stage' = stage
    BY <1>9 DEF StageEnds
  <2>2. Out[s] \notin closed /\ closed' = closed \cup {Out[s]}
    BY <1>9 DEF StageEnds
  <2>3. CASE s = "eval"
    <3>1. Open("findings")' = x - 1 /\ Open("events")' = y
      BY <2>2, <2>3, StageNames DEF Open
    <3>2. Work' = Weigh(r, e, f, t, v, x - 1, y)
      BY <1>3, <2>1, <3>1
    <3> QED
      BY <1>1, <1>2, <3>2, Weights
  <2>4. CASE s = "transform"
    <3>1. Open("findings")' = x /\ Open("events")' = y - 1
      BY <2>2, <2>4, StageNames DEF Open
    <3>2. Work' = Weigh(r, e, f, t, v, x, y - 1)
      BY <1>3, <2>1, <3>1
    <3> QED
      BY <1>1, <1>2, <3>2, Weights
  <2> QED
    BY <1>4, <2>3, <2>4
<1> QED
  BY <1>6, <1>7, <1>8, <1>9 DEF StageStep

(* So is a receive of the publisher.                                       *)
LEMMA PublisherWorks ==
  ASSUME TypeOK, PublisherReceive
  PROVE  Below(Work', Work)
<1> DEFINE r == Len(chan["resource"])
           e == Len(stage["eval"])
           f == Len(chan["findings"])
           t == Len(stage["transform"])
           v == Len(chan["events"])
           x == Open("findings")
           y == Open("events")
<1>1. r \in Nat /\ e \in Nat /\ f \in Nat /\ t \in Nat /\ v \in Nat /\ x \in Nat /\ y \in Nat
  BY Lengths, StageNames DEF Open
<1>2. Work = Weigh(r, e, f, t, v, x, y)
  BY DEF Work
<1>3. /\ Len(chan'["events"]) = v - 1
      /\ chan'["resource"] = chan["resource"] /\ chan'["findings"] = chan["findings"]
  BY PopLength, StageNames DEF PublisherReceive
<1>4. stage' = stage /\ Open("findings")' = x /\ Open("events")' = y
  BY OpenStays DEF PublisherReceive
<1>5. Work' = Weigh(r, e, f, t, v - 1, x, y)
  BY <1>3, <1>4 DEF Work
<1> QED
  BY <1>1, <1>2, <1>5, Weights

(* Work is a number.                                                       *)
LEMMA WorkType == ASSUME TypeOK PROVE Work \in Nat
<1>1. Open("findings") \in Nat /\ Open("events") \in Nat
  BY DEF Open
<1> QED
  BY <1>1, Lengths, StageNames, Weights DEF Work

(* Once resourceCh is closed nobody sends on it; no other step adds to it. *)
LEMMA NothingAdded ==
  ASSUME TypeOK, Next, "resource" \in closed
  PROVE  Work' <= Work
<1>1. Work \in Nat
  BY WorkType
<1>2. ASSUME chan' = chan, stage' = stage,
             closed' = closed \/ closed' = closed \cup {"resource"}
      PROVE  Work' <= Work
  <2>1. Work' = Work
    BY <1>2, OpenStays DEF Work
  <2> QED
    BY <1>1, <2>1
<1>3. ASSUME NEW f \in Fetchers, FetchStep(f) \/ ForwardStep(f) PROVE Work' <= Work
  <2>1. ~CanSend("resource")
    BY DEF CanSend
  <2>2. chan' = chan /\ stage' = stage /\ closed' = closed
    BY <1>3, <2>1 DEF FetchStep, ForwardStep, Send, SendPanics, FetchReturns, Handover, Forward,
                      ForwardPanics, ForwardEnds, chanVars
  <2> QED
    BY <1>2, <2>2
<1>4. ASSUME NEW s \in Stages, StageStep(s) PROVE Work' <= Work
  BY <1>4, StageWorks DEF Below
<1>5. CASE PublisherReceive
  BY <1>5, PublisherWorks DEF Below
<1>6. CASE PublisherClosed \/ PublisherDone \/ PublisherTick \/ ManagerStop \/ StopStep
  BY <1>2, <1>6 DEF PublisherClosed, PublisherDone, PublisherTick, ManagerStop, StopStep,
                    CloseResourceCh, ClientClose, Cancel, chanVars
<1> QED
  BY <1>3, <1>4, <1>5, <1>6 DEF Next, PublisherStep

(* What is under way gets to the publisher in so many steps, and a stage   *)
(* that was told to end ends: after close(resourceCh) nothing is added.    *)
THEOREM PostureWorkRunsOut == Spec => WorkRunsOut
<1> DEFINE Fewer == /\ "resource" \in closed => Work' <= Work
                    /\ PublisherReceive \/ (\E s \in Stages : StageStep(s)) => Work' < Work
<1>1. TypeOK /\ [Next]_vars => [Fewer]_vars
  BY NothingAdded, StageWorks, PublisherWorks DEF Below
<1> QED
  BY <1>1, PostureTypeOK, PTL DEF Spec, WorkRunsOut
=============================================================================
