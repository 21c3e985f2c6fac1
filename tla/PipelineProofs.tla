--------------------------- MODULE PipelineProofs ---------------------------
(***************************************************************************)
(* Theorems about the graph that Pipeline composes, from the topic to the  *)
(* database, for every topic, array size, batch and set of failures.  The  *)
(* theorems about the source and about the sink are taken over from        *)
(* KafkaSourceProofs and SinkProofs (whose second sink has no part here).  *)
(***************************************************************************)
EXTENDS Pipeline, TLAPS, FiniteSetTheorems, SequenceTheorems, WellFoundedInduction

SourceThm == INSTANCE KafkaSourceProofs
SinkThm == INSTANCE SinkProofs WITH
  TraceMessages <- {MessageOf(e) : e \in [off : 0..MaxLog, idx : {0, 1}]},
  MaxArray <- Capacity,
  MaxSeen <- (MaxLog + 1) * 4,
  failedAsserts <- sinkAsserts,
  spans <- {},
  finished <- {}

(***************************************************************************)
(* The components and their theorems speak of the same states and steps.   *)
(***************************************************************************)

LEMMA SameSourceInit == Source!Init => SourceThm!Init
BY DEF
      Source!Init, Source!TopicInit, SourceThm!Init, SourceThm!TopicInit

LEMMA SameSourceInv == Source!IInv <=> SourceThm!IInv
BY DEF
      Source!IInv, Source!TypeOK, Source!OneMsgIter, Source!Lifecycle,
      Source!Delivery, Source!TopicTypeOK, Source!Item, Source!IsGoodDof,
      Source!Positions, Source!DeliveryInOrder, Source!StreamBeginsFirst,
      Source!NothingSkipped, Source!Items, Source!Taken, Source!IsData,
      Source!Ordered, Source!Events, Source!Message, Source!Before, Source!EventsOf,
      Source!DataOffsets, Source!Keys, Source!Outcomes, SourceThm!IInv,
      SourceThm!TypeOK, SourceThm!OneMsgIter, SourceThm!Lifecycle,
      SourceThm!Delivery, SourceThm!TopicTypeOK, SourceThm!Item,
      SourceThm!IsGoodDof, SourceThm!Positions, SourceThm!DeliveryInOrder,
      SourceThm!StreamBeginsFirst, SourceThm!NothingSkipped, SourceThm!Items,
      SourceThm!Taken, SourceThm!IsData, SourceThm!Ordered, SourceThm!Events,
      SourceThm!Message, SourceThm!Before, SourceThm!EventsOf,
      SourceThm!DataOffsets, SourceThm!Keys, SourceThm!Outcomes

LEMMA SameSourceInvNext == Source!IInv' <=> SourceThm!IInv'
BY DEF
      Source!IInv, Source!TypeOK, Source!OneMsgIter, Source!Lifecycle,
      Source!Delivery, Source!TopicTypeOK, Source!Item, Source!IsGoodDof,
      Source!Positions, Source!DeliveryInOrder, Source!StreamBeginsFirst,
      Source!NothingSkipped, Source!Items, Source!Taken, Source!IsData,
      Source!Ordered, Source!Events, Source!Message, Source!Before, Source!EventsOf,
      Source!DataOffsets, Source!Keys, Source!Outcomes, SourceThm!IInv,
      SourceThm!TypeOK, SourceThm!OneMsgIter, SourceThm!Lifecycle,
      SourceThm!Delivery, SourceThm!TopicTypeOK, SourceThm!Item,
      SourceThm!IsGoodDof, SourceThm!Positions, SourceThm!DeliveryInOrder,
      SourceThm!StreamBeginsFirst, SourceThm!NothingSkipped, SourceThm!Items,
      SourceThm!Taken, SourceThm!IsData, SourceThm!Ordered, SourceThm!Events,
      SourceThm!Message, SourceThm!Before, SourceThm!EventsOf,
      SourceThm!DataOffsets, SourceThm!Keys, SourceThm!Outcomes

LEMMA SameSourceNext == Source!Next => SourceThm!Next
BY DEF
      Source!Next, Source!TopicStep, Source!LifeStep, Source!Cancel,
      Source!NextInterrupted, Source!MetadataStep, Source!NextEnter,
      Source!NextNoCtfMsgIter, Source!StreamStep, Source!Produce, Source!AutoCommit,
      Source!compVars, Source!traceVars, Source!streamVars, Source!outVars,
      Source!auditVars, Source!ComponentInit, Source!MsgIterInit,
      Source!MsgIterInitFails, Source!MsgIterInitNoConsumer, Source!MsgIterFinalize,
      Source!ComponentFinalize, Source!Crash, Source!topicVars,
      Source!MetadataTimeout, Source!MetadataPollError, Source!MetadataDiscard,
      Source!MetadataNoMemstream, Source!MetadataRejected,
      Source!MetadataNotConfigured, Source!MetadataUpdate, Source!ProcessGone,
      Source!BorrowStream, Source!BorrowStreamFails, Source!DecodeEvent,
      Source!StreamBytes, Source!StreamDiscard, Source!StreamTimeout,
      Source!StreamPartitionEof, Source!StreamPollError, Source!WantsMsgIter,
      Source!Subscribe, Source!CloseConsumer, Source!ForgetMsgIter,
      Source!InMetadataUpdate, Source!Receive, Source!IsGoodDof,
      Source!LoseConsumer, Source!InCallback, Source!Store, Source!Return,
      Source!InRequestBytes, Source!IsData, Source!StreamAgain, Source!Message,
      Source!Keys, Source!Outcomes, SourceThm!Next, SourceThm!TopicStep,
      SourceThm!LifeStep, SourceThm!Cancel, SourceThm!NextInterrupted,
      SourceThm!MetadataStep, SourceThm!NextEnter, SourceThm!NextNoCtfMsgIter,
      SourceThm!StreamStep, SourceThm!Produce, SourceThm!AutoCommit,
      SourceThm!compVars, SourceThm!traceVars, SourceThm!streamVars,
      SourceThm!outVars, SourceThm!auditVars, SourceThm!ComponentInit,
      SourceThm!MsgIterInit, SourceThm!MsgIterInitFails,
      SourceThm!MsgIterInitNoConsumer, SourceThm!MsgIterFinalize,
      SourceThm!ComponentFinalize, SourceThm!Crash, SourceThm!topicVars,
      SourceThm!MetadataTimeout, SourceThm!MetadataPollError,
      SourceThm!MetadataDiscard, SourceThm!MetadataNoMemstream,
      SourceThm!MetadataRejected, SourceThm!MetadataNotConfigured,
      SourceThm!MetadataUpdate, SourceThm!ProcessGone, SourceThm!BorrowStream,
      SourceThm!BorrowStreamFails, SourceThm!DecodeEvent, SourceThm!StreamBytes,
      SourceThm!StreamDiscard, SourceThm!StreamTimeout,
      SourceThm!StreamPartitionEof, SourceThm!StreamPollError,
      SourceThm!WantsMsgIter, SourceThm!Subscribe, SourceThm!CloseConsumer,
      SourceThm!ForgetMsgIter, SourceThm!InMetadataUpdate, SourceThm!Receive,
      SourceThm!IsGoodDof, SourceThm!LoseConsumer, SourceThm!InCallback,
      SourceThm!Store, SourceThm!Return, SourceThm!InRequestBytes, SourceThm!IsData,
      SourceThm!StreamAgain, SourceThm!Message, SourceThm!Keys, SourceThm!Outcomes

LEMMA SameSinkInit == Sink!Init => SinkThm!Init
BY DEF
      Sink!Init, Sink!SinkInit, SinkThm!Init, SinkThm!SinkInit

LEMMA SameSinkInv == Sink!IInv <=> SinkThm!IInv
BY DEF
      Sink!IInv, Sink!TypeOK, Sink!LoopInv, Sink!LastTimestamp, Sink!TagsBelow,
      Sink!NoneOverwritten, Sink!BufferNotFull, Sink!StoredOrBuffered,
      Sink!StoredIsPrefix, Sink!LossIsBounded, Sink!SinkTypeOK, Sink!Point,
      Sink!ReleasedOnce, Sink!InTimeOrder, Sink!BatchSize, Sink!Alive, Sink!Names,
      SinkThm!IInv, SinkThm!TypeOK, SinkThm!LoopInv, SinkThm!LastTimestamp,
      SinkThm!TagsBelow, SinkThm!NoneOverwritten, SinkThm!BufferNotFull,
      SinkThm!StoredOrBuffered, SinkThm!StoredIsPrefix, SinkThm!LossIsBounded,
      SinkThm!SinkTypeOK, SinkThm!Point, SinkThm!ReleasedOnce, SinkThm!InTimeOrder,
      SinkThm!BatchSize, SinkThm!Alive, SinkThm!Names

LEMMA SameSinkInvNext == Sink!IInv' <=> SinkThm!IInv'
BY DEF
      Sink!IInv, Sink!TypeOK, Sink!LoopInv, Sink!LastTimestamp, Sink!TagsBelow,
      Sink!NoneOverwritten, Sink!BufferNotFull, Sink!StoredOrBuffered,
      Sink!StoredIsPrefix, Sink!LossIsBounded, Sink!SinkTypeOK, Sink!Point,
      Sink!ReleasedOnce, Sink!InTimeOrder, Sink!BatchSize, Sink!Alive, Sink!Names,
      SinkThm!IInv, SinkThm!TypeOK, SinkThm!LoopInv, SinkThm!LastTimestamp,
      SinkThm!TagsBelow, SinkThm!NoneOverwritten, SinkThm!BufferNotFull,
      SinkThm!StoredOrBuffered, SinkThm!StoredIsPrefix, SinkThm!LossIsBounded,
      SinkThm!SinkTypeOK, SinkThm!Point, SinkThm!ReleasedOnce, SinkThm!InTimeOrder,
      SinkThm!BatchSize, SinkThm!Alive, SinkThm!Names

LEMMA SameSinkNext == Sink!Next => SinkThm!Next
BY DEF
      Sink!Next, Sink!InfluxInit, Sink!InfluxInitFails, Sink!LoopStep, Sink!Consume,
      Sink!HandleOther, Sink!Buffer, Sink!Transmit, Sink!TransmitFails,
      Sink!InfluxFinalize, Sink!Uninitialised, Sink!InitSucceeds, Sink!influxVars,
      Sink!InitFails, Sink!CreateFails, Sink!GraphIsConfigured,
      Sink!GraphIsConfiguredFails, Sink!ConsumeEnd, Sink!ConsumeError,
      Sink!ConsumeArray, Sink!Current, Sink!Handled, Sink!InEvent, Sink!Tag,
      Sink!NewPoint, Sink!Transmitting, Sink!Outgoing, Sink!HandleFails,
      Sink!Finalize, Sink!clientVars, Sink!Destroy, Sink!AssertConfigured,
      Sink!InTimeOrder, Sink!ReleasedFrom, SinkThm!Next, SinkThm!InfluxInit,
      SinkThm!InfluxInitFails, SinkThm!LoopStep, SinkThm!Consume,
      SinkThm!HandleOther, SinkThm!Buffer, SinkThm!Transmit, SinkThm!TransmitFails,
      SinkThm!InfluxFinalize, SinkThm!Uninitialised, SinkThm!InitSucceeds,
      SinkThm!influxVars, SinkThm!InitFails, SinkThm!CreateFails,
      SinkThm!GraphIsConfigured, SinkThm!GraphIsConfiguredFails, SinkThm!ConsumeEnd,
      SinkThm!ConsumeError, SinkThm!ConsumeArray, SinkThm!Current, SinkThm!Handled,
      SinkThm!InEvent, SinkThm!Tag, SinkThm!NewPoint, SinkThm!Transmitting,
      SinkThm!Outgoing, SinkThm!HandleFails, SinkThm!Finalize, SinkThm!clientVars,
      SinkThm!Destroy, SinkThm!AssertConfigured, SinkThm!InTimeOrder,
      SinkThm!ReleasedFrom

(***************************************************************************)
(* The invariants of the components, at the steps of the graph.            *)
(***************************************************************************)

LEMMA SourceAssumptions == SourceThm!TopicAssumption /\ SourceThm!SourceAssumption
BY PipelineAssumption
DEF SourceThm!TopicAssumption, SourceThm!SourceAssumption, SourceThm!Message, Source!Message,
    SourceThm!Keys, Source!Keys, SourceThm!Outcomes, Source!Outcomes, SourceThm!IsData,
    Source!IsData, SourceThm!FaultNames, Source!FaultNames

\* An item is seen as a message of the kind that the sink expects.
LEMMA MessageType ==
  ASSUME NEW e \in Item
  PROVE  /\ Time(e) \in Nat
         /\ MessageOf(e) \in [event : BOOLEAN, name : Seq(STRING), ts : Nat]
         /\ MessageOf(e).event = (e.idx # 0)
         /\ e.idx # 0 => MessageOf(e).ts = Time(e)
<1>1. e.off \in Nat /\ Tick \in Nat \ {0}
  BY PipelineAssumption DEF Item
<1>2. Time(e) \in Nat
  BY <1>1 DEF Time
<1>3. <<>> \in Seq(STRING) /\ <<"probe">> \in Seq(STRING)
  <2>1. "probe" \in STRING
    BY PipelineAssumption
  <2>2. \A S : <<>> \in Seq(S) /\ \A x \in S : <<x>> \in Seq(S)
    OBVIOUS
  <2>3. QED
    BY <2>1, <2>2
<1>4. CASE e.idx = 0
  BY <1>2, <1>3, <1>4 DEF MessageOf
<1>5. CASE e.idx # 0
  BY <1>2, <1>3, <1>5 DEF MessageOf
<1>6. QED
  BY <1>2, <1>4, <1>5

LEMMA SinkAssumptions == SinkThm!SinkAssumption /\ SinkThm!BatchAssumption
<1>1. [off : 0..MaxLog, idx : {0, 1}] \subseteq Item
  BY PipelineAssumption DEF Item
<1>2. {MessageOf(e) : e \in [off : 0..MaxLog, idx : {0, 1}]}
        \subseteq [event : BOOLEAN, name : Seq(STRING), ts : Nat]
  BY <1>1, MessageType
<1>3. (MaxLog + 1) * 4 \in Nat
  BY PipelineAssumption
<1>4. QED
  BY <1>2, <1>3, PipelineAssumption
  DEF SinkThm!SinkAssumption, SinkThm!BatchAssumption, SinkThm!TraceMessage, SinkThm!Names,
      SinkThm!SinkFaultNames, Sink!SinkFaultNames

LEMMA SourceBegins ==
  ASSUME Source!Init
  PROVE  Source!IInv
BY SameSourceInit, SameSourceInv, SourceAssumptions, SourceThm!InitInv

\* A step of the source, or of the sink alone.
LEMMA SourceKeeps ==
  ASSUME Source!IInv, Source!Next \/ UNCHANGED sourceVars
  PROVE  Source!IInv'
<1>1. UNCHANGED sourceVars => UNCHANGED SourceThm!vars
  BY DEF sourceVars, SourceThm!vars, SourceThm!topicVars, SourceThm!compVars,
         SourceThm!traceVars, SourceThm!streamVars, SourceThm!outVars, SourceThm!auditVars
<1>2. SourceThm!IInv /\ [SourceThm!Next]_(SourceThm!vars)
  BY <1>1, SameSourceInv, SameSourceNext
<1>3. SourceThm!IInv'
  BY <1>2, SourceAssumptions, SourceThm!NextInv
<1>4. QED
  BY <1>3, SameSourceInvNext

LEMMA SinkBegins == Sink!Init => Sink!IInv
BY SameSinkInit, SameSinkInv, SinkAssumptions, SinkThm!InitInv

LEMMA SinkForgets ==
  ASSUME SinkForgotten
  PROVE  Sink!IInv'
<1>1. Sink!Init' => Sink!IInv'
  BY SinkBegins, PTL
<1>2. Sink!Init'
  BY DEF SinkForgotten, Sink!Init, Sink!SinkInit
<1>3. QED
  BY <1>1, <1>2

LEMMA SinkKeeps ==
  ASSUME Sink!IInv, Sink!Next \/ UNCHANGED sinkVars
  PROVE  Sink!IInv'
<1>1. UNCHANGED sinkVars => UNCHANGED SinkThm!vars
  BY DEF sinkVars, SinkThm!vars, SinkThm!sinkVars, SinkThm!influxVars, SinkThm!clientVars
<1>2. SinkThm!IInv /\ [SinkThm!Next]_(SinkThm!vars)
  BY <1>1, SameSinkInv, SameSinkNext
<1>3. SinkThm!IInv'
  BY <1>2, SinkAssumptions, SinkThm!NextInv
<1>4. QED
  BY <1>3, SameSinkInvNext

(***************************************************************************)
(* What the source's invariant says of the items it took.                  *)
(***************************************************************************)

LEMMA SameVocabulary ==
  /\ \A s : Source!Items(s) = Items(s)
  /\ \A s : Source!Ordered(s) <=> Ordered(s)
  /\ Source!Events(log, base, pos) = Due
BY DEF Source!Items, Items, Source!Ordered, Ordered, Source!Before, Before, Due, Events,
       Source!Events, DataOffsets, Source!DataOffsets, EventsOf, Source!EventsOf

\* The items taken begin with those handed on; the first is the beginning of
\* the stream, the others are the events due, in their order.
Handed ==
  /\ log \in Seq(Messages) /\ pos \in Nat /\ pos <= MaxLog /\ base \in Nat
  /\ out \in Seq(Item) /\ Source!Taken \in Seq(Item)
  /\ Len(out) <= Len(Source!Taken)
  /\ \A i \in 1..Len(out) : Source!Taken[i] = out[i]
  /\ Ordered(Source!Taken)
  /\ \A i \in 1..Len(Source!Taken) : /\ Source!Taken[i].off \in (base + 1)..pos
                                     /\ Source!Taken[i].idx = 0 => i = 1
  /\ out # <<>> => Source!Taken[1].idx = 0
  /\ base # 0 => Due = {e \in Items(Source!Taken) : e.idx > 0}
  /\ iter = "none" => base = 0 /\ out = <<>>

LEMMA SourceHands == Source!IInv => Handed
<1> SUFFICES ASSUME Source!IInv PROVE Handed
  OBVIOUS
<1> DEFINE t == Source!Taken
<1>1. /\ log \in Seq(Messages) /\ Len(log) <= MaxLog /\ pos \in 0..Len(log) /\ base \in Nat
      /\ out \in Seq(Item) /\ batch \in Seq(Item) /\ pending \in Seq(Item)
  BY DEF Source!IInv, Source!TypeOK, Source!TopicTypeOK, Source!Item, Item
<1>2. pos \in Nat /\ pos <= MaxLog
  <2>1. Len(log) \in Nat
    BY <1>1, LenProperties
  <2>2. QED
    BY <1>1, <2>1, PipelineAssumption
<1>3. /\ t \in Seq(Item) /\ Len(out) <= Len(t)
      /\ \A i \in 1..Len(out) : t[i] = out[i]
  <2>1. t = (out \o batch) \o pending
    BY DEF Source!Taken
  <2>2. (out \o batch) \in Seq(Item) /\ Len(out \o batch) = Len(out) + Len(batch)
        /\ \A i \in 1..Len(out) + Len(batch) :
             (out \o batch)[i] = IF i <= Len(out) THEN out[i] ELSE batch[i - Len(out)]
    BY <1>1, ConcatProperties
  <2> DEFINE a == out \o batch
  <2>3. /\ t \in Seq(Item) /\ Len(t) = Len(a) + Len(pending)
        /\ \A i \in 1..Len(a) + Len(pending) :
             t[i] = IF i <= Len(a) THEN a[i] ELSE pending[i - Len(a)]
    BY <1>1, <2>1, <2>2, ConcatProperties
  <2>4. Len(out) \in Nat /\ Len(batch) \in Nat /\ Len(pending) \in Nat
    BY <1>1, LenProperties
  <2> HIDE DEF t, a
  <2>5. Len(a) = Len(out) + Len(batch)
        /\ \A i \in 1..Len(out) + Len(batch) :
             a[i] = IF i <= Len(out) THEN out[i] ELSE batch[i - Len(out)]
    BY <2>2 DEF a
  <2>6. QED
    BY <2>3, <2>4, <2>5
<1>4. /\ Ordered(t)
      /\ \A e \in Items(t) : e.off \in (base + 1)..pos
      /\ \A i \in 1..Len(t) : t[i].idx = 0 => i = 1
      /\ stream => t[1].idx = 0
      /\ {e \in Items(t) : e.idx > 0} = IF base = 0 THEN {} ELSE Due
  BY SameVocabulary
  DEF Source!IInv, Source!Delivery, Source!Positions, Source!DeliveryInOrder,
      Source!StreamBeginsFirst, Source!NothingSkipped
<1>5. /\ ~stream => out = <<>>
      /\ iter = "none" => base = 0 /\ ~stream
  BY DEF Source!IInv, Source!Lifecycle
<1>6. \A i \in 1..Len(t) : t[i] \in Items(t)
  BY DEF Items
<1> HIDE DEF t
<1>7. \A i \in 1..Len(t) : t[i].off \in (base + 1)..pos
  BY <1>4, <1>6
<1>8. QED
  BY <1>1, <1>2, <1>3, <1>4, <1>5, <1>7 DEF Handed, t

LEMMA SourceHandsNext == Source!IInv' => Handed'
BY SourceHands, PTL

\* After one item the events of the items handed on are the rest of them.
LEMMA EventItemsAre ==
  ASSUME NEW s \in Seq(Item), \A i \in 1..Len(s) : s[i].idx = 0 <=> i = 1
  PROVE  /\ Len(EventItems(s)) = IF s = <<>> THEN 0 ELSE Len(s) - 1
         /\ \A k \in 1..(Len(s) - 1) : EventItems(s)[k] = s[k + 1]
<1> DEFINE h == [n \in 0..Len(s) |-> SubSeq(s, 2, n)]
           Is(e) == e = [n \in 0..Len(s) |->
                      IF n = 0 THEN <<>>
                      ELSE IF s[n].idx > 0 THEN Append(e[n - 1], s[n]) ELSE e[n - 1]]
           e == EventsUpTo(s)
<1>1. Len(s) \in Nat /\ \A i \in 1..Len(s) : s[i] \in Item
  BY LenProperties, ElementOfSeq
<1>2. \A n \in 0..Len(s) : /\ SubSeq(s, 2, n) \in Seq(Item)
                           /\ Len(SubSeq(s, 2, n)) = IF n = 0 THEN 0 ELSE n - 1
                           /\ \A k \in 1..(n - 1) : SubSeq(s, 2, n)[k] = s[k + 1]
  <2> SUFFICES ASSUME NEW n \in 0..Len(s)
               PROVE  /\ SubSeq(s, 2, n) \in Seq(Item)
                      /\ Len(SubSeq(s, 2, n)) = IF n = 0 THEN 0 ELSE n - 1
                      /\ \A k \in 1..(n - 1) : SubSeq(s, 2, n)[k] = s[k + 1]
    OBVIOUS
  <2>1. n \in Int /\ 2 \in Int /\ \A i \in 2..n : s[i] \in Item
    BY <1>1
  <2>2. /\ SubSeq(s, 2, n) \in Seq(Item)
        /\ Len(SubSeq(s, 2, n)) = IF 2 <= n THEN n - 2 + 1 ELSE 0
        /\ \A i \in 1..(n - 2 + 1) : SubSeq(s, 2, n)[i] = s[2 + i - 1]
    BY <2>1, SubSeqProperties
  <2>3. \A i \in 1..(n - 1) : i \in 1..(n - 2 + 1) /\ 2 + i - 1 = i + 1
    BY <1>1
  <2>4. QED
    BY <1>1, <2>2, <2>3
<1>3. /\ h[0] = <<>>
      /\ \A n \in 1..Len(s) : h[n] = IF s[n].idx > 0 THEN Append(h[n - 1], s[n]) ELSE h[n - 1]
  <2>1. h[0] = <<>>
    BY <1>1, SubSeqEmpty
  <2>2. ASSUME NEW n \in 1..Len(s)
        PROVE  h[n] = IF s[n].idx > 0 THEN Append(h[n - 1], s[n]) ELSE h[n - 1]
    <3>1. n \in 0..Len(s) /\ n - 1 \in 0..Len(s) /\ s[n] \in Item
      BY <1>1
    <3>2. h[n] = SubSeq(s, 2, n) /\ h[n - 1] = SubSeq(s, 2, n - 1)
      BY <3>1
    <3>3. CASE n = 1
      <4>1. SubSeq(s, 2, 1) = <<>> /\ SubSeq(s, 2, 0) = <<>>
        BY SubSeqEmpty
      <4>2. s[n].idx = 0
        BY <3>3
      <4>3. QED
        BY <3>2, <3>3, <4>1, <4>2
    <3>4. CASE n # 1
      <4> DEFINE a == SubSeq(s, 2, n - 1)
                 b == SubSeq(s, 2, n)
      <4>1. s[n].idx > 0
        BY <3>1, <3>4 DEF Item
      <4>2. /\ a \in Seq(Item) /\ Len(a) = n - 2 /\ \A k \in 1..(n - 2) : a[k] = s[k + 1]
            /\ b \in Seq(Item) /\ Len(b) = n - 1 /\ \A k \in 1..(n - 1) : b[k] = s[k + 1]
        <5>1. n - 1 # 0 /\ n # 0 /\ (n - 1) - 1 = n - 2
          BY <1>1, <3>4
        <5>2. QED
          BY <1>2, <3>1, <5>1
      <4> HIDE DEF a, b
      <4>3. /\ Append(a, s[n]) \in Seq(Item) /\ Len(Append(a, s[n])) = n - 1
            /\ \A k \in 1..(n - 1) : Append(a, s[n])[k] = s[k + 1]
        BY <1>1, <3>1, <3>4, <4>2
      <4>4. b = Append(a, s[n])
        BY <4>2, <4>3, SeqEqual
      <4>5. QED
        BY <3>2, <4>1, <4>4 DEF a, b
    <3>5. QED
      BY <3>3, <3>4
  <2>3. QED
    BY <2>1, <2>2
<1> HIDE DEF h
<1>4. Is(h)
  <2>1. h = [n \in 0..Len(s) |-> h[n]]
    BY DEF h
  <2>2. \A n \in 0..Len(s) :
          h[n] = IF n = 0 THEN <<>>
                 ELSE IF s[n].idx > 0 THEN Append(h[n - 1], s[n]) ELSE h[n - 1]
    BY <1>1, <1>3
  <2>3. QED
    BY <2>1, <2>2
<1>5. Is(e)
  <2>1. e = CHOOSE f : Is(f)
    BY DEF EventsUpTo
  <2> HIDE DEF Is, e
  <2>2. QED
    BY <1>4, <2>1
<1>6. /\ e[0] = <<>>
      /\ \A n \in 1..Len(s) : e[n] = IF s[n].idx > 0 THEN Append(e[n - 1], s[n]) ELSE e[n - 1]
  <2>1. \A n \in 0..Len(s) :
          e[n] = IF n = 0 THEN <<>>
                 ELSE IF s[n].idx > 0 THEN Append(e[n - 1], s[n]) ELSE e[n - 1]
    <3> DEFINE F(f, n) == IF n = 0 THEN <<>>
                          ELSE IF s[n].idx > 0 THEN Append(f[n - 1], s[n]) ELSE f[n - 1]
    <3>1. e = [n \in 0..Len(s) |-> F(e, n)]
      BY <1>5
    <3> HIDE DEF F, e
    <3>2. \A n \in 0..Len(s) : e[n] = F(e, n)
      BY <3>1
    <3>3. QED
      BY <3>2 DEF F
  <2> HIDE DEF e
  <2>2. QED
    BY <1>1, <2>1
<1> HIDE DEF e
<1>7. \A n \in 0..Len(s) : e[n] = h[n]
  <2> DEFINE T == {n \in 0..Len(s) : e[n] # h[n]}
             R == OpToRel(<, Nat)
  <2>1. SUFFICES ASSUME T # {} PROVE FALSE
    OBVIOUS
  <2>2. T \subseteq Nat
    BY <1>1
  <2>3. PICK n \in T : \A m \in T : ~(m < n)
    <3>1. IsWellFoundedOn(R, Nat)
      BY NatLessThanWellFounded
    <3> HIDE DEF T, R
    <3>2. PICK n \in T : \A m \in T : <<m, n>> \notin R
      BY <2>1, <2>2, <3>1, WFMin
    <3>3. \A m \in T : m < n => <<m, n>> \in R
      BY <2>2 DEF R, OpToRel
    <3>4. QED
      BY <3>2, <3>3
  <2>4. n # 0
    BY <1>3, <1>6, <2>3
  <2>5. n \in 1..Len(s) /\ n - 1 \in 0..Len(s) /\ n - 1 < n
    BY <1>1, <2>3, <2>4
  <2>6. e[n - 1] = h[n - 1]
    BY <2>3, <2>5
  <2>7. e[n] = h[n]
    BY <1>3, <1>6, <2>5, <2>6
  <2>8. QED
    BY <2>3, <2>7
<1>8. EventItems(s) = SubSeq(s, 2, Len(s))
  <2>1. Len(s) \in 0..Len(s)
    BY <1>1
  <2>2. EventItems(s) = e[Len(s)]
    BY DEF EventItems, e
  <2>3. QED
    BY <1>7, <2>1, <2>2 DEF h
<1>9. s = <<>> <=> Len(s) = 0
  BY EmptySeq
<1>10. QED
  BY <1>1, <1>2, <1>8, <1>9

(***************************************************************************)
(* What each step of the graph does to the state that both parts share.    *)
(***************************************************************************)

LEMMA GraphBegins == Init => IInv
<1> SUFFICES ASSUME Init PROVE IInv
  OBVIOUS
<1>1. Source!IInv /\ Sink!IInv
  BY SourceBegins, SinkBegins DEF Init
<1>2. /\ iter = "none" /\ out = <<>>
      /\ sink = "none" /\ iterator = "null" /\ seen = <<>> /\ handled = 0
      /\ points = <<>> /\ stored = <<>>
  BY DEF Init, Source!Init, Sink!Init, Sink!SinkInit
<1>3. Linked
  BY <1>2 DEF Linked
<1>4. QED
  BY <1>1, <1>3 DEF IInv

\* A forgotten sink is linked to a source without an iterator.
LEMMA ForgottenIsLinked ==
  ASSUME SinkForgotten, Source!ForgetMsgIter
  PROVE  Linked'
BY DEF SinkForgotten, Source!ForgetMsgIter, Linked

\* The source's next only ever adds to what it handed on, an array at most.
LEMMA StreamGrows ==
  ASSUME Source!IInv, Source!StreamStep
  PROVE  /\ iter = "batch" /\ iter' \in {"idle", "batch"} /\ comp' = comp
         /\ out' # out => iter' = "idle"
         /\ \E b \in Seq(Item) : out' = out \o b /\ Len(b) <= Capacity
<1>1. /\ out \in Seq(Item) /\ batch \in Seq(Item) /\ pending \in Seq(Item)
      /\ Len(batch) < Capacity /\ Len(batch) \in Nat /\ Capacity \in Nat
  BY PipelineAssumption, LenProperties DEF Source!IInv, Source!TypeOK, Source!Item, Item
<1>2. <<>> \in Seq(Item) /\ out = out \o <<>> /\ Len(<<>>) <= Capacity
  BY <1>1, ConcatEmptySeq
<1>3. ASSUME NEW e \in Item, Source!Store(e)
      PROVE  /\ iter' \in {iter, "idle"}
             /\ out' # out => iter' = "idle"
             /\ \E b \in Seq(Item) : out' = out \o b /\ Len(b) <= Capacity
  <2>1. Append(batch, e) \in Seq(Item) /\ Len(Append(batch, e)) <= Capacity
    BY <1>1, AppendProperties
  <2>2. QED
    BY <1>2, <1>3, <2>1 DEF Source!Store, Source!Return
<1>4. ASSUME Source!Return(batch)
      PROVE  iter' = "idle" /\ \E b \in Seq(Item) : out' = out \o b /\ Len(b) <= Capacity
  <2>1. Len(batch) <= Capacity
    BY <1>1
  <2>2. QED
    BY <1>1, <1>4, <2>1 DEF Source!Return
<1>5. pending # <<>> => Head(pending) \in Item /\ [off |-> Head(pending).off, idx |-> 0] \in Item
  <2>1. pending # <<>> => Head(pending) \in Item
    BY <1>1, HeadTailProperties
  <2>2. QED
    BY <2>1 DEF Item
<1>6. CASE Source!BorrowStream
  BY <1>3, <1>5, <1>6 DEF Source!BorrowStream, Source!InCallback, Source!compVars
<1>7. CASE Source!BorrowStreamFails
  BY <1>4, <1>7 DEF Source!BorrowStreamFails, Source!InCallback, Source!compVars
<1>8. CASE Source!DecodeEvent
  BY <1>3, <1>5, <1>8 DEF Source!DecodeEvent, Source!InCallback, Source!compVars
<1>9. CASE Source!StreamBytes
  BY <1>2, <1>9 DEF Source!StreamBytes, Source!InRequestBytes, Source!InCallback,
                    Source!compVars, Source!outVars
<1>10. CASE Source!StreamDiscard \/ Source!StreamTimeout \/ Source!StreamPartitionEof
  BY <1>4, <1>10 DEF Source!StreamDiscard, Source!StreamTimeout, Source!StreamPartitionEof,
                     Source!InRequestBytes, Source!InCallback, Source!StreamAgain,
                     Source!compVars
<1>11. CASE Source!StreamPollError
  BY <1>4, <1>11 DEF Source!StreamPollError, Source!InRequestBytes, Source!InCallback,
                     Source!compVars
<1>12. QED
  BY <1>6, <1>7, <1>8, <1>9, <1>10, <1>11 DEF Source!StreamStep

\* Until the DOF the source's next hands nothing on.
LEMMA MetadataHandsNothing ==
  ASSUME Source!MetadataStep
  PROVE  iter = "idle" /\ iter' \in {"idle", "failed"} /\ comp' = comp /\ out' = out
BY DEF Source!MetadataStep, Source!MetadataTimeout, Source!MetadataPollError,
       Source!MetadataDiscard, Source!MetadataNoMemstream, Source!MetadataRejected,
       Source!MetadataNotConfigured, Source!MetadataUpdate, Source!InMetadataUpdate,
       Source!compVars, Source!outVars

\* The messages that the sink may see.
Shown == {MessageOf(e) : e \in [off : 0..MaxLog, idx : {0, 1}]}

\* What IInv says of the sink, in the words of the graph.
LEMMA SinkHas ==
  ASSUME Sink!IInv
  PROVE  /\ handled \in Nat /\ handled <= Len(seen) /\ seen \in Seq(Shown)
         /\ sink = "handling" => handled < Len(seen)
         /\ sink \in {"none", "ready", "idle"} => handled = Len(seen)
         /\ points \in Seq(Sink!Point) /\ stored \in Seq(Sink!Point) /\ mBuffer \in Seq(Sink!Point)
         /\ Len(stored) <= Len(points)
         /\ \A k \in 1..Len(stored) : stored[k] = points[k]
<1>1. /\ handled \in 0..Len(seen) /\ seen \in Seq(Shown)
  BY DEF Sink!IInv, Sink!LoopInv, Sink!SinkTypeOK, Shown
<1>2. Len(seen) \in Nat
  BY <1>1, LenProperties
<1>3. QED
  BY <1>1, <1>2
  DEF Sink!IInv, Sink!LoopInv, Sink!TypeOK, Sink!StoredIsPrefix

\* A message handled: an event makes one point, and the posts only add to
\* what is stored.
LEMMA SinkMoves ==
  ASSUME Sink!IInv, SinkHandles
  PROVE  /\ sink = "handling" /\ sink' \in {"idle", "handling", "failed"}
         /\ iterator' = iterator /\ seen' = seen /\ handled' = handled + 1
         /\ Sink!NewPoint.ts = seen[handled + 1].ts
         /\ ~seen[handled + 1].event => points' = points
         /\ seen[handled + 1].event => points' = Append(points, Sink!NewPoint)
         /\ Len(stored) <= Len(stored')
         /\ \A k \in 1..Len(stored) : stored'[k] = stored[k]
<1>1. /\ points \in Seq(Sink!Point) /\ stored \in Seq(Sink!Point) /\ mBuffer \in Seq(Sink!Point)
      /\ uniqCnt \in Nat /\ handled \in 0..Len(seen) /\ seen \in Seq(Shown)
      /\ sink = "handling" => handled < Len(seen)
  BY DEF Sink!IInv, Sink!TypeOK, Sink!LoopInv, Sink!SinkTypeOK, Shown
<1>2. sink = "handling"
  BY DEF SinkHandles, Sink!HandleOther, Sink!Buffer, Sink!Transmit, Sink!TransmitFails,
         Sink!InEvent, Sink!Transmitting
<1>3. Sink!Current = seen[handled + 1] /\ Sink!NewPoint.ts = seen[handled + 1].ts
  BY DEF Sink!Current, Sink!NewPoint
<1>4. Sink!NewPoint \in Sink!Point
  <2>1. handled + 1 \in 1..Len(seen)
    BY <1>1, <1>2
  <2>2. seen[handled + 1] \in Shown
    BY <1>1, <2>1, ElementOfSeq
  <2>3. \A e \in [off : 0..MaxLog, idx : {0, 1}] : e \in Item
    BY PipelineAssumption DEF Item
  <2>4. seen[handled + 1] \in [event : BOOLEAN, name : Seq(STRING), ts : Nat]
    BY <2>2, <2>3, MessageType DEF Shown
  <2>5. QED
    BY <1>1, <1>3, <2>4 DEF Sink!NewPoint, Sink!Point, Sink!Names
<1>5. /\ stored \o Sink!Outgoing \in Seq(Sink!Point)
      /\ Len(stored) <= Len(stored \o Sink!Outgoing)
      /\ \A k \in 1..Len(stored) : (stored \o Sink!Outgoing)[k] = stored[k]
  <2>1. Sink!Outgoing \in Seq(Sink!Point)
    BY <1>1, <1>4, AppendProperties DEF Sink!Outgoing
  <2>2. QED
    BY <1>1, <2>1, ConcatProperties, LenProperties
<1>6. CASE Sink!HandleOther
  BY <1>1, <1>2, <1>3, <1>6
  DEF Sink!HandleOther, Sink!Handled, Sink!influxVars, Sink!clientVars
<1>7. CASE Sink!Buffer
  BY <1>1, <1>2, <1>3, <1>7
  DEF Sink!Buffer, Sink!Handled, Sink!InEvent, Sink!Tag
<1>8. CASE Sink!Transmit
  BY <1>1, <1>2, <1>3, <1>5, <1>8
  DEF Sink!Transmit, Sink!Handled, Sink!Transmitting, Sink!InEvent, Sink!Tag
<1>9. CASE Sink!TransmitFails
  BY <1>1, <1>2, <1>3, <1>5, <1>9
  DEF Sink!TransmitFails, Sink!HandleFails, Sink!Transmitting, Sink!InEvent, Sink!Tag
<1>10. QED
  BY <1>6, <1>7, <1>8, <1>9 DEF SinkHandles

\* The shape of what was handed on, as the sink meets it.
LEMMA HandedShape ==
  ASSUME Handed
  PROVE  \A i \in 1..Len(out) : /\ out[i] \in Item
                                /\ out[i].idx = 0 <=> i = 1
                                /\ MessageOf(out[i]).event <=> i # 1
                                /\ i # 1 => MessageOf(out[i]).ts = Time(out[i])
<1> SUFFICES ASSUME NEW i \in 1..Len(out)
             PROVE  /\ out[i] \in Item
                    /\ out[i].idx = 0 <=> i = 1
                    /\ MessageOf(out[i]).event <=> i # 1
                    /\ i # 1 => MessageOf(out[i]).ts = Time(out[i])
  OBVIOUS
<1>1. out \in Seq(Item) /\ Len(out) \in Nat /\ Len(Source!Taken) \in Nat
  BY LenProperties DEF Handed
<1>2. out[i] \in Item
  BY <1>1, ElementOfSeq
<1>3. out # <<>> /\ 1 \in 1..Len(out) /\ i \in 1..Len(Source!Taken)
  <2>1. Len(out) # 0
    BY <1>1
  <2>2. out # <<>>
    BY <1>1, <2>1, EmptySeq
  <2>3. QED
    BY <1>1, <2>2 DEF Handed
<1>4. out[i].idx = 0 <=> i = 1
  BY <1>3 DEF Handed
<1>5. QED
  BY <1>2, <1>4, MessageType

\* The new points in the database are made of the items at their places.
LEMMA HandlesLinked ==
  ASSUME IInv, SinkHandles, Source!IInv', Sink!IInv'
  PROVE  Linked'
<1>1. Handed /\ Linked
  BY SourceHands DEF IInv
<1>2. /\ handled \in Nat /\ Len(seen) \in Nat /\ handled < Len(seen)
      /\ points \in Seq(Sink!Point) /\ stored \in Seq(Sink!Point)
      /\ Len(points) \in Nat /\ Len(stored) \in Nat /\ Len(stored) <= Len(points)
      /\ \A k \in 1..Len(stored) : stored[k] = points[k]
  BY SinkHas, SinkMoves, LenProperties DEF IInv
<1>3. /\ sink = "handling" /\ sink' \in {"idle", "handling", "failed"}
      /\ iterator' = iterator /\ seen' = seen /\ handled' = handled + 1
      /\ Sink!NewPoint.ts = seen[handled + 1].ts
      /\ ~seen[handled + 1].event => points' = points
      /\ seen[handled + 1].event => points' = Append(points, Sink!NewPoint)
      /\ Len(stored) <= Len(stored')
      /\ \A k \in 1..Len(stored) : stored'[k] = stored[k]
  BY SinkMoves DEF IInv
<1>4. iter' = iter /\ out' = out /\ comp' = comp
  BY DEF SinkHandles, SourceStands, sourceVars
<1>5. /\ points' \in Seq(Sink!Point) /\ stored' \in Seq(Sink!Point)
      /\ Len(points') \in Nat /\ Len(stored') \in Nat
      /\ Len(stored') <= Len(points')
      /\ \A k \in 1..Len(stored') : stored'[k] = points'[k]
  BY LenProperties DEF Sink!IInv, Sink!TypeOK, Sink!StoredIsPrefix, Sink!Point, Sink!Names
<1>6. /\ Len(seen) = Len(out)
      /\ \A i \in 1..Len(out) : seen[i] = MessageOf(out[i])
      /\ Len(points) = IF handled = 0 THEN 0 ELSE handled - 1
      /\ \A k \in 1..Len(points) : points[k].ts = Time(out[k + 1])
      /\ \A k \in 1..Len(stored) : [point |-> stored[k], item |-> out[k + 1]] \in db
  BY <1>1, <1>3 DEF Linked
<1>7. \A i \in 1..Len(out) : /\ out[i] \in Item
                             /\ out[i].idx = 0 <=> i = 1
                             /\ MessageOf(out[i]).event <=> i # 1
                             /\ i # 1 => MessageOf(out[i]).ts = Time(out[i])
  BY <1>1, HandedShape
<1>8. /\ Len(points') = handled
      /\ \A k \in 1..Len(points') : points'[k].ts = Time(out[k + 1])
  <2>1. handled + 1 \in 1..Len(out) /\ seen[handled + 1] = MessageOf(out[handled + 1])
    BY <1>2, <1>6
  <2>2. CASE handled = 0
    BY <1>2, <1>3, <1>6, <1>7, <2>1, <2>2
  <2>3. CASE handled # 0
    <3>1. seen[handled + 1].event /\ Sink!NewPoint.ts = Time(out[handled + 1])
      BY <1>2, <1>3, <1>7, <2>1, <2>3
    <3>2. points' = Append(points, Sink!NewPoint)
      BY <1>3, <3>1
    <3>3. Len(points') = handled
      BY <1>2, <1>6, <2>3, <3>2
    <3>4. \A k \in 1..handled : points'[k] = IF k = handled THEN Sink!NewPoint ELSE points[k]
      BY <1>2, <1>6, <2>3, <3>2
    <3>5. ASSUME NEW k \in 1..Len(points')
          PROVE  points'[k].ts = Time(out[k + 1])
      <4>1. CASE k = handled
        BY <1>2, <3>1, <3>3, <3>4, <4>1
      <4>2. CASE k # handled
        <5>1. k \in 1..Len(points) /\ points'[k] = points[k]
          BY <1>2, <1>6, <2>3, <3>3, <3>4, <4>2
        <5>2. QED
          BY <1>6, <5>1
      <4>3. QED
        BY <4>1, <4>2
    <3>6. QED
      BY <3>3, <3>5
  <2>4. QED
    BY <2>2, <2>3
<1>9. \A k \in 1..Len(stored') : [point |-> stored'[k], item |-> out[k + 1]] \in db'
  <2> SUFFICES ASSUME NEW k \in 1..Len(stored')
               PROVE  [point |-> stored'[k], item |-> out[k + 1]] \in db'
    OBVIOUS
  <2>1. db' = db \cup {[point |-> points'[j], item |-> EventItems(out)[j]] :
                         j \in (Len(stored) + 1)..Len(stored')}
    BY <1>4 DEF SinkHandles, Store
  <2>2. CASE k <= Len(stored)
    <3>1. k \in 1..Len(stored)
      BY <1>2, <2>2
    <3>2. QED
      BY <1>3, <1>6, <2>1, <3>1
  <2>3. CASE ~(k <= Len(stored))
    <3>1. k \in (Len(stored) + 1)..Len(stored') /\ k \in 1..(Len(out) - 1)
      BY <1>2, <1>5, <1>6, <1>8, <2>3
    <3>2. out \in Seq(Item)
      BY <1>1 DEF Handed
    <3>3. EventItems(out)[k] = out[k + 1]
      BY <1>7, <3>1, <3>2, EventItemsAre
    <3>4. QED
      BY <1>5, <2>1, <3>1, <3>3
  <2>4. QED
    BY <2>2, <2>3
<1>10. QED
  <2>1. handled' # 0 /\ handled' - 1 = handled
    BY <1>2, <1>3
  <2>2. sink # "none" /\ sink' \notin {"none", "ready", "gone", "crashed"}
    BY <1>3
  <2>3. QED
    BY <1>1, <1>3, <1>4, <1>6, <1>8, <1>9, <2>1, <2>2 DEF Linked

\* The new items, as an array for the sink: it fits, and what the sink has seen
\* stays what the source handed on.
LEMMA DeliveredAre ==
  ASSUME IInv, Source!StreamStep, out' # out, Source!IInv'
  PROVE  /\ \A i \in 1..Len(out) : out'[i] = out[i]
         /\ Len(Delivered) \in 1..Capacity
         /\ Delivered \in [1..Len(Delivered) -> Shown]
         /\ Len(seen \o Delivered) = Len(out')
         /\ \A i \in 1..Len(out') : (seen \o Delivered)[i] = MessageOf(out'[i])
<1>1. /\ out \in Seq(Item) /\ out' \in Seq(Item) /\ Len(out) \in Nat /\ Len(out') \in Nat
      /\ Len(Source!Taken') \in Nat
      /\ pos' <= MaxLog /\ pos' \in Nat /\ base' \in Nat
      /\ Len(out') <= Len(Source!Taken')
      /\ \A i \in 1..Len(out') : Source!Taken'[i] = out'[i]
      /\ \A i \in 1..Len(Source!Taken') : Source!Taken'[i].off \in (base' + 1)..pos'
  BY SourceHands, SourceHandsNext, LenProperties DEF IInv, Handed
<1>2. PICK b \in Seq(Item) : out' = out \o b /\ Len(b) <= Capacity
  BY StreamGrows DEF IInv
<1>3. /\ Len(b) \in Nat /\ Len(out') = Len(out) + Len(b)
      /\ \A i \in 1..Len(out) : out'[i] = out[i]
  BY <1>1, <1>2, ConcatProperties, LenProperties
<1>4. /\ DOMAIN Delivered = 1..Len(b)
      /\ Delivered = [i \in 1..Len(b) |-> MessageOf(out'[Len(out) + i])]
  BY <1>1, <1>3 DEF Delivered
<1>5. Len(Delivered) = Len(b)
  BY <1>3, <1>4
<1>6. ASSUME NEW i \in 1..Len(b)
      PROVE  MessageOf(out'[Len(out) + i]) \in Shown
  <2> DEFINE j == Len(out) + i
             e == out'[j]
             d == [off |-> e.off, idx |-> IF e.idx = 0 THEN 0 ELSE 1]
  <2>1. j \in 1..Len(out') /\ j \in 1..Len(Source!Taken')
    BY <1>1, <1>3
  <2>2. e \in Item
    BY <1>1, <2>1, ElementOfSeq
  <2>3. e.off \in 0..MaxLog
    <3>1. e.off \in (base' + 1)..pos' /\ MaxLog \in Nat
      BY <1>1, <2>1, PipelineAssumption
    <3> HIDE DEF e
    <3>2. QED
      BY <1>1, <3>1
  <2>4. d \in [off : 0..MaxLog, idx : {0, 1}]
    BY <2>3
  <2>5. MessageOf(e) = MessageOf(d)
    BY DEF MessageOf, Time
  <2>6. QED
    BY <2>4, <2>5 DEF Shown
<1>7. Len(b) # 0
  BY <1>1, <1>2, ConcatEmptySeq, EmptySeq
<1>8. Delivered \in [1..Len(Delivered) -> Shown]
  BY <1>4, <1>5, <1>6
<1>9. /\ Len(seen) = Len(out) /\ seen \in Seq(Shown)
      /\ \A i \in 1..Len(out) : seen[i] = MessageOf(out[i])
  <2>1. iter # "none"
    BY StreamGrows DEF IInv
  <2>2. sink # "gone"
    BY <2>1 DEF IInv, Linked
  <2>3. QED
    BY <2>2, SinkHas DEF IInv, Linked
<1> DEFINE d == Delivered
<1>10. d \in Seq(Shown) /\ Len(d) = Len(b)
  BY <1>3, <1>5, <1>8
<1>11. \A i \in 1..Len(b) : d[i] = MessageOf(out'[Len(out) + i])
  BY <1>4
<1> HIDE DEF d
<1>12. /\ Len(seen \o d) = Len(seen) + Len(d)
       /\ \A i \in 1..Len(seen) + Len(d) :
            (seen \o d)[i] = IF i <= Len(seen) THEN seen[i] ELSE d[i - Len(seen)]
  <2>1. seen \in Seq(Shown) /\ d \in Seq(Shown)
    BY <1>9, <1>10
  <2>2. QED
    BY <2>1, ConcatProperties
<1>13. ASSUME NEW i \in 1..Len(out')
       PROVE  (seen \o d)[i] = MessageOf(out'[i])
  <2>1. CASE i <= Len(out)
    <3>1. i \in 1..Len(out)
      BY <1>1, <2>1
    <3>2. i \in 1..Len(seen) + Len(d) /\ i <= Len(seen)
      BY <1>1, <1>3, <1>9, <1>10, <3>1
    <3>3. (seen \o d)[i] = seen[i]
      BY <1>12, <3>2
    <3>4. out'[i] = out[i]
      BY <1>3, <3>1
    <3>5. QED
      BY <1>9, <3>1, <3>3, <3>4
  <2>2. CASE ~(i <= Len(out))
    <3>1. i - Len(out) \in 1..Len(b) /\ Len(out) + (i - Len(out)) = i
      BY <1>1, <1>3, <2>2
    <3>2. i \in 1..Len(seen) + Len(d) /\ ~(i <= Len(seen)) /\ Len(seen) = Len(out)
      BY <1>1, <1>3, <1>9, <1>10, <2>2
    <3>3. (seen \o d)[i] = d[i - Len(out)]
      BY <1>12, <3>2
    <3>4. QED
      BY <1>11, <3>1, <3>3
  <2>3. QED
    BY <2>1, <2>2
<1>14. Len(seen \o d) = Len(out') /\ Len(d) \in 1..Capacity
  BY <1>2, <1>3, <1>7, <1>9, <1>10, <1>12, PipelineAssumption
<1>15. QED
  BY <1>3, <1>8, <1>13, <1>14 DEF d

LEMMA DeliverLinked ==
  ASSUME IInv, Deliver, Source!IInv'
  PROVE  Linked'
<1>1. Linked /\ Handed /\ Len(out) \in Nat
  BY SourceHands, LenProperties DEF IInv, Handed
<1>2. /\ handled \in Nat /\ Len(seen) \in Nat /\ handled <= Len(seen)
      /\ Len(points) \in Nat /\ Len(stored) \in Nat /\ Len(stored) <= Len(points)
  BY SinkHas, LenProperties DEF IInv
<1>3. /\ sink = "idle" /\ sink' = "handling" /\ seen' = seen \o Delivered
      /\ iterator' = iterator /\ handled' = handled
      /\ points' = points /\ stored' = stored /\ db' = db
  BY DEF Deliver, InSource, Sink!ConsumeArray
<1>4. iter # "none" /\ iter' # "none" /\ comp' = comp
  BY StreamGrows DEF IInv, Deliver
<1>5. /\ \A i \in 1..Len(out) : out'[i] = out[i]
      /\ Len(seen') = Len(out')
      /\ \A i \in 1..Len(out') : seen'[i] = MessageOf(out'[i])
  BY <1>3, DeliveredAre DEF Deliver
<1>6. /\ Len(seen) = Len(out)
      /\ Len(points) = IF handled = 0 THEN 0 ELSE handled - 1
      /\ \A k \in 1..Len(points) : points[k].ts = Time(out[k + 1])
      /\ \A k \in 1..Len(stored) : [point |-> stored[k], item |-> out[k + 1]] \in db
  BY <1>1, <1>3 DEF Linked
<1>7. /\ \A k \in 1..Len(points) : out'[k + 1] = out[k + 1]
      /\ \A k \in 1..Len(stored) : out'[k + 1] = out[k + 1]
  <2>1. \A k \in 1..Len(points) : k + 1 \in 1..Len(out)
    BY <1>1, <1>2, <1>6
  <2>2. \A k \in 1..Len(stored) : k \in 1..Len(points)
    BY <1>2
  <2>3. QED
    BY <1>5, <2>1, <2>2
<1>8. /\ Len(points') = IF handled' = 0 THEN 0 ELSE handled' - 1
      /\ \A k \in 1..Len(points') : points'[k].ts = Time(out'[k + 1])
      /\ \A k \in 1..Len(stored') : [point |-> stored'[k], item |-> out'[k + 1]] \in db'
  BY <1>3, <1>6, <1>7
<1>9. QED
  BY <1>1, <1>3, <1>4, <1>5, <1>8 DEF Linked

\* The steps that hand nothing on and handle nothing.
LEMMA QuietLinked ==
  ASSUME Linked, UNCHANGED <<out, seen, handled, points, stored, db>>,
         iterator' = "live" <=> iter' # "none",
         sink' \in {"none", "ready", "gone", "crashed"} => iter' = "none",
         sink' # "none" => comp' = "live",
         sink' # "gone" => sink # "gone"
  PROVE  Linked'
BY DEF Linked

(***************************************************************************)
(* Every step of the graph is a step of each component, or none of its.    *)
(***************************************************************************)

LEMMA SourceMoves ==
  ASSUME IInv, Next \/ UNCHANGED vars
  PROVE  Source!Next \/ UNCHANGED sourceVars
<1>1. CASE UNCHANGED vars
  BY <1>1 DEF vars
<1>2. CASE Environment \/ ComponentInit \/ SourceWorks \/ Configure \/ ConfigureFails
             \/ Deliver \/ SourceFails \/ Destroy \/ ProcessEnds \/ NextDies
  BY <1>2 DEF Environment, ComponentInit, SourceWorks, Configure, ConfigureFails, Deliver,
              SourceFails, Destroy, ProcessEnds, NextDies, Source!Next, Source!LifeStep
<1>3. CASE SinkInit \/ SinkHandles \/ DestroySink
  BY <1>3 DEF SinkInit, SinkHandles, DestroySink, SourceStands
<1>4. CASE ProcessDies
  <2>1. sink = "crashed" => comp = "live" /\ iter = "none"
    BY DEF IInv, Linked
  <2>2. QED
    BY <1>4, <2>1 DEF ProcessDies, Source!Next, Source!LifeStep, Source!ComponentFinalize
<1>5. QED
  BY <1>1, <1>2, <1>3, <1>4 DEF Next

LEMMA SinkSteps ==
  ASSUME IInv, Next \/ UNCHANGED vars, Source!IInv'
  PROVE  Sink!Next \/ UNCHANGED sinkVars \/ SinkForgotten
<1>1. CASE UNCHANGED vars
  BY <1>1 DEF vars
<1>2. CASE Environment \/ ComponentInit \/ SourceWorks
  BY <1>2 DEF Environment, ComponentInit, SourceWorks, SinkStands
<1>3. CASE SinkInit \/ SinkHandles \/ Destroy \/ DestroySink
  BY <1>3 DEF SinkInit, SinkHandles, Destroy, DestroySink, Sink!Next
<1>4. CASE Configure \/ ConfigureFails \/ SourceFails
  BY <1>4 DEF Configure, ConfigureFails, SourceFails, Sink!Next, Sink!LoopStep,
              Sink!influxVars, Sink!clientVars
<1>5. CASE Deliver
  <2>1. /\ Len(Delivered) \in 1..Capacity
        /\ Delivered \in [1..Len(Delivered) -> Shown]
    BY <1>5, DeliveredAre DEF Deliver
  <2>2. /\ Sink!ConsumeArray(Delivered)
        /\ UNCHANGED <<tsVal, uniqCnt, mBuffer, points, stored>>
    BY <1>5 DEF Deliver
  <2> HIDE DEF Delivered
  <2>3. Sink!Consume
    BY <2>1, <2>2 DEF Sink!Consume, Sink!influxVars, Sink!clientVars, Shown
  <2>4. QED
    BY <2>3 DEF Sink!Next
<1>6. CASE ProcessEnds \/ ProcessDies \/ NextDies
  BY <1>6 DEF ProcessEnds, ProcessDies, NextDies
<1>7. QED
  BY <1>1, <1>2, <1>3, <1>4, <1>5, <1>6 DEF Next

LEMMA LinkStays ==
  ASSUME IInv, Next \/ UNCHANGED vars, Source!IInv', Sink!IInv'
  PROVE  Linked'
<1>1. Linked
  BY DEF IInv
<1>2. CASE UNCHANGED vars
  BY <1>1, <1>2 DEF vars, sourceVars, sinkVars, Linked
<1>3. CASE Environment
  <2>1. UNCHANGED <<iter, out, comp, iterator, sink, seen, handled, points, stored, db>>
    BY <1>3 DEF Environment, SinkStands, sinkVars, Source!TopicStep, Source!Cancel,
                Source!compVars, Source!outVars
  <2>2. QED
    BY <1>1, <2>1 DEF Linked
<1>4. CASE ComponentInit
  <2>1. /\ UNCHANGED <<iter, out, iterator, sink, seen, handled, points, stored, db>>
        /\ comp' = "live"
    BY <1>4 DEF ComponentInit, SinkStands, sinkVars, Source!ComponentInit, Source!outVars
  <2>2. QED
    BY <1>1, <2>1 DEF Linked
<1>5. CASE SinkInit
  <2>1. UNCHANGED <<iter, out, seen, handled, points, stored, db>> /\ comp = "live" /\ comp' = comp
    BY <1>5 DEF SinkInit, SourceStands, sourceVars, Sink!InfluxInit, Sink!InfluxInitFails,
                Sink!InitSucceeds, Sink!InitFails, Sink!Destroy, Sink!LoopStep,
                Sink!CreateFails, Sink!GraphIsConfigured, Sink!GraphIsConfiguredFails,
                Sink!ConsumeEnd, Sink!ConsumeError, Sink!influxVars, Sink!clientVars
  <2>2. sink = "none" /\ iterator' \in {"null", "junk", iterator}
    BY <1>5 DEF SinkInit, Sink!InfluxInit, Sink!InfluxInitFails, Sink!Uninitialised,
                Sink!InitSucceeds, Sink!InitFails, Sink!Destroy, Sink!LoopStep,
                Sink!CreateFails, Sink!GraphIsConfigured, Sink!GraphIsConfiguredFails,
                Sink!ConsumeEnd, Sink!ConsumeError
  <2>3. iter = "none" /\ iterator # "live"
    BY <1>1, <2>2 DEF Linked
  <2>4. QED
    BY <1>1, <2>1, <2>2, <2>3, QuietLinked
<1>6. CASE SinkHandles
  BY <1>6, HandlesLinked
<1>7. CASE SourceWorks
  <2>1. UNCHANGED <<out, iterator, sink, seen, handled, points, stored, db>> /\ sink = "idle"
    BY <1>7 DEF SourceWorks, InSource, SinkStands, sinkVars
  <2>2. iter # "none" /\ iter' # "none" /\ comp' = comp
    <3>1. CASE Source!MetadataStep
      BY <3>1, MetadataHandsNothing
    <3>2. CASE Source!NextEnter
      BY <3>2 DEF Source!NextEnter, Source!compVars
    <3>3. CASE Source!StreamStep
      BY <3>3, StreamGrows DEF IInv
    <3>4. QED
      BY <1>7, <3>1, <3>2, <3>3 DEF SourceWorks
  <2>3. QED
    BY <1>1, <2>1, <2>2 DEF Linked
<1>8. CASE Configure
  <2>1. /\ UNCHANGED <<out, seen, handled, points, stored, db>>
        /\ comp = "live" /\ comp' = comp /\ iter' = "idle"
        /\ sink = "ready" /\ sink' = "idle" /\ iterator' = "live"
    BY <1>8 DEF Configure, Source!MsgIterInit, Source!WantsMsgIter, Source!outVars,
                Sink!GraphIsConfigured
  <2>2. QED
    BY <1>1, <2>1 DEF Linked
<1>9. CASE ConfigureFails
  <2>1. /\ UNCHANGED <<out, seen, handled, points, stored, db, iter, iterator>>
        /\ comp = "live" /\ comp' = comp
        /\ sink = "ready" /\ sink' = "failed"
    BY <1>9 DEF ConfigureFails, Source!MsgIterInitFails, Source!WantsMsgIter, Source!outVars,
                Sink!GraphIsConfiguredFails
  <2>2. QED
    BY <1>1, <2>1 DEF Linked
<1>10. CASE Deliver
  BY <1>10, DeliverLinked
<1>11. CASE SourceFails
  <2>1. /\ UNCHANGED <<seen, handled, points, stored, db, iterator>>
        /\ iter' = "failed" /\ sink = "idle" /\ sink' = "failed"
    BY <1>11 DEF SourceFails, InSource, Sink!ConsumeError
  <2>2. iter = "idle" /\ out' = out /\ comp' = comp
    BY <1>11, MetadataHandsNothing
    DEF SourceFails, Source!NextInterrupted, Source!compVars, Source!outVars
  <2>3. QED
    BY <1>1, <2>1, <2>2 DEF Linked
<1>12. CASE Destroy
  <2>1. /\ iter' = "none" /\ comp' = comp
        /\ sink # "none" /\ sink' = "gone" /\ iterator' = "null"
    BY <1>12 DEF Destroy, Source!MsgIterFinalize, Source!ForgetMsgIter, Sink!InfluxFinalize,
                 Sink!Finalize, Sink!Destroy
  <2>2. QED
    BY <1>1, <2>1 DEF Linked
<1>13. CASE DestroySink
  <2>1. /\ UNCHANGED <<seen, handled, points, stored, db, iter, out, comp>>
        /\ sink \in {"ready", "idle", "ended", "failed"} /\ iterator # "live"
        /\ sink' \in {"gone", "crashed"} /\ iterator' = "null"
    BY <1>13 DEF DestroySink, SourceStands, sourceVars, Sink!InfluxFinalize, Sink!Finalize,
                 Sink!Destroy
  <2>2. QED
    BY <1>1, <2>1 DEF Linked
<1>14. CASE ProcessEnds \/ ProcessDies \/ NextDies
  <2>1. SinkForgotten
    BY <1>14 DEF ProcessEnds, ProcessDies, NextDies
  <2>2. Source!ForgetMsgIter
    BY <1>14 DEF ProcessEnds, ProcessDies, NextDies, Source!ComponentFinalize, Source!Crash,
                 Source!MsgIterInitNoConsumer, Source!NextNoCtfMsgIter, Source!ProcessGone
  <2>3. QED
    BY <2>1, <2>2, ForgottenIsLinked
<1>15. QED
  BY <1>2, <1>3, <1>4, <1>5, <1>6, <1>7, <1>8, <1>9, <1>10, <1>11, <1>12, <1>13, <1>14
  DEF Next

LEMMA GraphKeeps == IInv /\ [Next]_vars => IInv'
<1> SUFFICES ASSUME IInv, Next \/ UNCHANGED vars PROVE IInv'
  OBVIOUS
<1>1. Source!IInv'
  BY SourceMoves, SourceKeeps DEF IInv
<1>2. Sink!IInv'
  BY <1>1, SinkSteps, SinkKeeps, SinkForgets DEF IInv
<1>3. Linked'
  BY <1>1, <1>2, LinkStays
<1>4. QED
  BY <1>1, <1>2, <1>3 DEF IInv

(***************************************************************************)
(* The places of the events due among the items handed on.                 *)
(***************************************************************************)

LEMMA BeforeIsStrict ==
  ASSUME NEW a \in Item, NEW b \in Item, Before(a, b)
  PROVE  a # b /\ ~Before(b, a)
BY DEF Item, Before

\* As many different items as places, after the first.
LEMMA CountOfFirst ==
  ASSUME NEW t \in Seq(Item), Ordered(t), NEW m \in Nat, m < Len(t)
  PROVE  /\ IsFiniteSet({t[j + 1] : j \in 1..m})
         /\ Cardinality({t[j + 1] : j \in 1..m}) = m
<1> DEFINE S == {t[j + 1] : j \in 1..m}
           f == [j \in 1..m |-> t[j + 1]]
<1>1. Len(t) \in Nat /\ \A i \in 1..Len(t) : t[i] \in Item
  BY LenProperties, ElementOfSeq
<1>2. ASSUME NEW i \in 1..m, NEW j \in 1..m, f[i] = f[j]
      PROVE  i = j
  <2>1. /\ i + 1 \in 1..Len(t) /\ j + 1 \in 1..Len(t)
        /\ t[i + 1] \in Item /\ t[j + 1] \in Item /\ t[i + 1] = t[j + 1]
    BY <1>1, <1>2
  <2>2. ~(i < j) /\ ~(j < i)
    <3>1. i < j => Before(t[i + 1], t[j + 1])
      BY <2>1 DEF Ordered
    <3>2. j < i => Before(t[j + 1], t[i + 1])
      BY <2>1 DEF Ordered
    <3>3. QED
      BY <2>1, <3>1, <3>2, BeforeIsStrict
  <2>3. QED
    BY <2>2
<1>3. f \in Bijection(1..m, S)
  <2>1. f \in [1..m -> S] /\ \A s \in S : \E j \in 1..m : f[j] = s
    OBVIOUS
  <2> HIDE DEF f, S
  <2>2. QED
    BY <1>2, <2>1 DEF Bijection, Injection, Surjection, IsInjective
<1>4. ExistsBijection(1..m, S)
  BY <1>3 DEF ExistsBijection
<1>5. IsFiniteSet(1..m) /\ Cardinality(1..m) = m
  <2>1. 1 \in Int /\ m \in Int
    OBVIOUS
  <2>2. Cardinality(1..m) = IF 1 > m THEN 0 ELSE m - 1 + 1
    BY <2>1, FS_Interval
  <2>3. QED
    BY <2>1, <2>2, FS_Interval
<1> HIDE DEF S
<1>6. IsFiniteSet(S) /\ Cardinality(S) = m
  BY <1>4, <1>5, FS_Bijection
<1>7. QED
  BY <1>6 DEF S

\* With a stream beginning taken, the k-th event due is the item after k others.
LEMMA RankIsPlace ==
  ASSUME Handed, base # 0, out # <<>>
  PROVE  /\ Cardinality(Due) = Len(Source!Taken) - 1
         /\ \A e \in Due : \E k \in 1..(Len(Source!Taken) - 1) :
              e = Source!Taken[k + 1] /\ Rank(e) = k
<1> DEFINE t == Source!Taken
<1>1. /\ t \in Seq(Item) /\ Len(t) \in Nat /\ Ordered(t)
      /\ \A i \in 1..Len(t) : t[i] \in Item
  BY LenProperties, ElementOfSeq DEF Handed
<1>2. /\ \A i \in 1..Len(t) : t[i].idx = 0 => i = 1
      /\ t[1].idx = 0
      /\ Due = {e \in Items(t) : e.idx > 0}
  BY DEF Handed
<1>3. Len(t) >= 1
  <2>1. out \in Seq(Item) /\ Len(out) <= Len(t)
    BY DEF Handed
  <2>2. Len(out) \in Nat /\ Len(out) # 0
    BY <2>1, LenProperties, EmptySeq
  <2>3. QED
    BY <1>1, <2>1, <2>2
<1> HIDE DEF t
<1>4. Due = {t[j + 1] : j \in 1..(Len(t) - 1)}
  <2>1. ASSUME NEW e \in Due
        PROVE  e \in {t[j + 1] : j \in 1..(Len(t) - 1)}
    <3>1. PICK i \in 1..Len(t) : e = t[i]
      BY <1>2 DEF Items
    <3>2. i # 1
      BY <1>2, <3>1
    <3>3. i - 1 \in 1..(Len(t) - 1) /\ e = t[(i - 1) + 1]
      BY <1>1, <3>1, <3>2
    <3>4. QED
      BY <3>3
  <2>2. ASSUME NEW j \in 1..(Len(t) - 1)
        PROVE  t[j + 1] \in Due
    <3>1. j + 1 \in 1..Len(t) /\ j + 1 # 1
      BY <1>1
    <3>2. t[j + 1].idx # 0 /\ t[j + 1] \in Item /\ t[j + 1] \in Items(t)
      BY <1>1, <1>2, <3>1 DEF Items
    <3>3. QED
      BY <1>2, <3>2 DEF Item
  <2>3. QED
    BY <2>1, <2>2
<1>5. Len(t) - 1 \in Nat /\ Len(t) - 1 < Len(t)
  BY <1>1, <1>3
<1>6. Cardinality(Due) = Len(t) - 1
  BY <1>1, <1>4, <1>5, CountOfFirst
<1>7. ASSUME NEW e \in Due
      PROVE  \E k \in 1..(Len(t) - 1) : e = t[k + 1] /\ Rank(e) = k
  <2>1. PICK k \in 1..(Len(t) - 1) : e = t[k + 1]
    BY <1>4
  <2> DEFINE B == {d \in Due : Before(d, e)}
             F == {t[j + 1] : j \in 1..(k - 1)}
  <2>2. \A j \in 1..(Len(t) - 1) : Before(t[j + 1], e) <=> j < k
    <3> SUFFICES ASSUME NEW j \in 1..(Len(t) - 1)
                 PROVE  Before(t[j + 1], e) <=> j < k
      OBVIOUS
    <3>1. /\ j + 1 \in 1..Len(t) /\ k + 1 \in 1..Len(t)
          /\ t[j + 1] \in Item /\ t[k + 1] \in Item
      BY <1>1
    <3>2. j < k => Before(t[j + 1], t[k + 1])
      BY <1>1, <3>1 DEF Ordered
    <3>3. k < j => Before(t[k + 1], t[j + 1])
      BY <1>1, <3>1 DEF Ordered
    <3>4. CASE j < k
      BY <2>1, <3>2, <3>4
    <3>5. CASE k < j
      BY <2>1, <3>1, <3>3, <3>5, BeforeIsStrict
    <3>6. CASE j = k
      <4>1. ~Before(t[k + 1], t[k + 1])
        BY <3>1, BeforeIsStrict
      <4>2. QED
        BY <2>1, <3>6, <4>1
    <3>7. QED
      BY <3>4, <3>5, <3>6
  <2>3. B = F
    <3>1. \A j \in 1..(k - 1) : j \in 1..(Len(t) - 1) /\ j < k
      BY <1>1
    <3>2. \A j \in 1..(Len(t) - 1) : j < k => j \in 1..(k - 1)
      BY <1>1
    <3>3. F \subseteq B
      BY <1>4, <2>2, <3>1
    <3>4. B \subseteq F
      BY <1>4, <2>2, <3>2
    <3>5. QED
      BY <3>3, <3>4
  <2>4. k - 1 \in Nat /\ k - 1 < Len(t)
    BY <1>1
  <2>5. Cardinality(F) = k - 1
    BY <1>1, <2>4, CountOfFirst
  <2>6. Rank(e) = k
    <3>1. Rank(e) = Cardinality(B) + 1
      BY DEF Rank
    <3> HIDE DEF B, F
    <3>2. QED
      BY <2>3, <2>5, <3>1
  <2>7. QED
    BY <2>1, <2>6
<1>8. QED
  BY <1>6, <1>7 DEF t

(***************************************************************************)
(* Theorems.                                                               *)
(***************************************************************************)

\* In every state of the graph the source and the sink are as they leave each
\* other, and the database is made of what went from one to the other.
THEOREM Invariance == Spec => []IInv
<1>1. QED
  BY GraphBegins, GraphKeeps, PTL DEF Spec

\* While the sink waits for the source, every event that the source ever handed
\* on has become a point (influxdb_consume, kafka_msg_iter_next).
THEOREM EachBecomesAPoint == Spec => []EventsBecomePoints
<1>1. IInv => EventsBecomePoints
  <2> SUFFICES ASSUME IInv, sink = "idle"
               PROVE  Len(points) = Len(EventItems(out))
    BY DEF EventsBecomePoints
  <2>1. Handed /\ Linked
    BY SourceHands DEF IInv
  <2>2. out \in Seq(Item) /\ \A i \in 1..Len(out) : out[i].idx = 0 <=> i = 1
    BY <2>1, HandedShape DEF Handed
  <2>3. Len(EventItems(out)) = IF out = <<>> THEN 0 ELSE Len(out) - 1
    BY <2>2, EventItemsAre
  <2>4. /\ handled = Len(out)
        /\ Len(points) = IF handled = 0 THEN 0 ELSE handled - 1
    BY <2>1, SinkHas DEF IInv, Linked
  <2>5. out = <<>> <=> Len(out) = 0
    BY <2>2, EmptySeq
  <2>6. QED
    BY <2>3, <2>4, <2>5
<1>2. QED
  BY <1>1, Invariance, PTL

\* What is stored in one run of the program are the first events after the DOF,
\* in the order of the topic and each with its time: none lost, repeated or
\* exchanged between the poll of the source and the post of the sink.
THEOREM FirstDueAreStored == Spec => []StoredAreFirstDue
<1>1. IInv => StoredAreFirstDue
  <2> DEFINE t == Source!Taken
  <2> SUFFICES ASSUME IInv, base # 0
               PROVE  /\ Len(stored) <= Cardinality(Due)
                      /\ \A e \in Due :
                           Rank(e) <= Len(stored) =>
                             /\ stored[Rank(e)].ts = Time(e)
                             /\ [point |-> stored[Rank(e)], item |-> e] \in db
    BY DEF StoredAreFirstDue
  <2>1. Handed /\ Linked
    BY SourceHands DEF IInv
  <2>2. sink # "gone"
    BY <2>1 DEF Handed, Linked
  <2>3. /\ out \in Seq(Item) /\ Len(out) \in Nat /\ t \in Seq(Item) /\ Len(t) \in Nat
        /\ Len(out) <= Len(t) /\ \A i \in 1..Len(out) : t[i] = out[i]
        /\ Due = {e \in Items(t) : e.idx > 0}
    BY <2>1, LenProperties DEF Handed
  <2> HIDE DEF t
  <2>4. /\ handled \in Nat /\ handled <= Len(out)
        /\ Len(points) \in Nat /\ Len(stored) \in Nat /\ Len(stored) <= Len(points)
        /\ \A k \in 1..Len(stored) : stored[k] = points[k]
        /\ Len(points) = IF handled = 0 THEN 0 ELSE handled - 1
        /\ \A k \in 1..Len(points) : points[k].ts = Time(out[k + 1])
        /\ \A k \in 1..Len(stored) : [point |-> stored[k], item |-> out[k + 1]] \in db
    BY <2>1, <2>2, SinkHas, LenProperties DEF IInv, Linked
  <2>5. CASE out = <<>>
    <3>1. Len(stored) = 0
      BY <2>3, <2>4, <2>5
    <3>2. IsFiniteSet(Due)
      <4>1. IsFiniteSet(Items(t))
        <5> DEFINE f == [i \in 1..Len(t) |-> t[i]]
        <5>1. f \in Surjection(1..Len(t), Items(t))
          BY DEF Surjection, Items
        <5>2. IsFiniteSet(1..Len(t))
          BY <2>3, FS_Interval
        <5> HIDE DEF f
        <5>3. QED
          BY <5>1, <5>2, FS_Surjection
      <4>2. Due \in SUBSET Items(t)
        BY <2>3
      <4>3. QED
        BY <4>1, <4>2, FS_Subset
    <3>3. Cardinality(Due) \in Nat
      BY <3>2, FS_CardinalityType
    <3>4. ASSUME NEW e \in Due
          PROVE  Rank(e) \in Nat /\ Rank(e) >= 1
      <4>1. {d \in Due : Before(d, e)} \in SUBSET Due
        OBVIOUS
      <4>2. Cardinality({d \in Due : Before(d, e)}) \in Nat
        BY <3>2, <4>1, FS_Subset, FS_CardinalityType
      <4>3. QED
        BY <4>2 DEF Rank
    <3>5. QED
      BY <3>1, <3>3, <3>4
  <2>6. CASE out # <<>>
    <3>1. /\ Cardinality(Due) = Len(t) - 1
          /\ \A e \in Due : \E k \in 1..(Len(t) - 1) : e = t[k + 1] /\ Rank(e) = k
      BY <2>1, <2>6, RankIsPlace DEF t
    <3>2. Len(stored) <= Cardinality(Due)
      <4>1. Len(out) # 0
        BY <2>3, <2>6, EmptySeq
      <4>2. QED
        BY <2>3, <2>4, <3>1, <4>1
    <3>3. ASSUME NEW e \in Due, Rank(e) <= Len(stored)
          PROVE  /\ stored[Rank(e)].ts = Time(e)
                 /\ [point |-> stored[Rank(e)], item |-> e] \in db
      <4>1. PICK k \in 1..(Len(t) - 1) : e = t[k + 1] /\ Rank(e) = k
        BY <3>1
      <4>2. k \in 1..Len(stored) /\ k \in 1..Len(points) /\ k + 1 \in 1..Len(out)
        BY <2>3, <2>4, <3>3, <4>1
      <4>3. e = out[k + 1]
        BY <2>3, <4>1, <4>2
      <4>4. QED
        BY <2>4, <4>1, <4>2, <4>3
    <3>4. QED
      BY <3>2, <3>3
  <2>7. QED
    BY <2>5, <2>6
<1>2. QED
  BY <1>1, Invariance, PTL

\* A later item has no earlier timestamp.
LEMMA TimeGrows ==
  ASSUME NEW a \in Item, NEW b \in Item, Before(a, b)
  PROVE  Time(a) <= Time(b)
<1>1. a.off \in Nat /\ b.off \in Nat /\ a.off <= b.off /\ Tick \in Nat /\ Tick > 0
  BY PipelineAssumption DEF Item, Before
<1> DEFINE p == a.off \div Tick
           q == b.off \div Tick
           r == a.off % Tick
           s == b.off % Tick
<1>2. /\ p \in Nat /\ q \in Nat /\ r \in Nat /\ s \in Nat
      /\ a.off = Tick * p + r /\ r < Tick
      /\ b.off = Tick * q + s /\ s < Tick
  BY <1>1
<1> HIDE DEF p, q, r, s
<1>3. ~(q + 1 <= p)
  <2> SUFFICES ASSUME q + 1 <= p PROVE FALSE
    OBVIOUS
  <2>1. PICK d \in Nat : p = q + 1 + d
    <3>1. p - (q + 1) \in Nat /\ p = q + 1 + (p - (q + 1))
      BY <1>2
    <3>2. QED
      BY <3>1
  <2>2. Tick * p = Tick * q + Tick + Tick * d /\ Tick * d \in Nat /\ Tick * q \in Nat
    BY <1>1, <1>2, <2>1
  <2>3. QED
    BY <1>1, <1>2, <2>2
<1>4. QED
  BY <1>2, <1>3 DEF Time, p, q

\* What the sink relies on the source keeps: an array is never empty nor larger
\* than the graph asked for, and the timestamps never go back, from one array
\* to the next either (kafka_msg_iter_callback, handle_message's ts_val).
THEOREM SourceMeetsSink ==
  ASSUME IInv, Source!StreamStep, out' # out
  PROVE  Len(Delivered) \in 1..Capacity /\ Sink!InTimeOrder(seen \o Delivered)
<1>1. Source!IInv'
  <2>1. Source!Next
    BY DEF Source!Next
  <2>2. QED
    BY <2>1, SourceKeeps DEF IInv
<1>2. Handed'
  BY <1>1, SourceHandsNext
<1> DEFINE s == seen \o Delivered
           t == Source!Taken'
<1>3. /\ Len(Delivered) \in 1..Capacity
      /\ Len(s) = Len(out')
      /\ \A i \in 1..Len(out') : s[i] = MessageOf(out'[i])
  BY <1>1, DeliveredAre
<1>4. /\ out' \in Seq(Item) /\ Len(out') \in Nat /\ t \in Seq(Item) /\ Len(t) \in Nat
      /\ Len(out') <= Len(t) /\ \A i \in 1..Len(out') : t[i] = out'[i]
      /\ Ordered(t)
  BY <1>2, LenProperties DEF Handed
<1> HIDE DEF s, t
<1>5. ASSUME NEW i \in 1..Len(s), NEW j \in 1..Len(s), i < j, s[i].event, s[j].event
      PROVE  s[i].ts <= s[j].ts
  <2>1. /\ i \in 1..Len(out') /\ j \in 1..Len(out') /\ i \in 1..Len(t) /\ j \in 1..Len(t)
    BY <1>3, <1>4
  <2>2. out'[i] \in Item /\ out'[j] \in Item
    BY <1>4, <2>1, ElementOfSeq
  <2>3. Before(out'[i], out'[j])
    BY <1>4, <1>5, <2>1 DEF Ordered
  <2>4. Time(out'[i]) <= Time(out'[j])
    BY <2>2, <2>3, TimeGrows
  <2>5. s[i] = MessageOf(out'[i]) /\ s[j] = MessageOf(out'[j])
    BY <1>3, <2>1
  <2>6. MessageOf(out'[i]).ts = Time(out'[i]) /\ MessageOf(out'[j]).ts = Time(out'[j])
    BY <1>5, <2>2, <2>5, MessageType
  <2>7. QED
    BY <2>4, <2>5, <2>6
<1>6. QED
  BY <1>3, <1>5 DEF Sink!InTimeOrder, s

\* In the graph the source is the source: it takes no step but its own, so that
\* everything proved of it holds there.
THEOREM GraphRunsSource == Spec => SourceThm!Spec
<1>1. Init => SourceThm!Init
  BY SameSourceInit DEF Init
<1>2. UNCHANGED sourceVars => UNCHANGED SourceThm!vars
  BY DEF sourceVars, SourceThm!vars, SourceThm!topicVars, SourceThm!compVars,
         SourceThm!traceVars, SourceThm!streamVars, SourceThm!outVars, SourceThm!auditVars
<1>3. IInv /\ [Next]_vars => [SourceThm!Next]_(SourceThm!vars)
  BY <1>2, SourceMoves, SameSourceNext
<1>4. QED
  BY <1>1, <1>3, Invariance, PTL DEF Spec, SourceThm!Spec

\* In the graph too, whatever the sink does, the source hands on what the
\* abstract ordered delivery allows.
THEOREM GraphDeliversInOrder == Spec => SourceThm!ImplementsOrderedDelivery
<1>1. QED
  BY GraphRunsSource, SourceThm!Implements, SourceAssumptions, PTL
=============================================================================
