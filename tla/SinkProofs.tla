----------------------------- MODULE SinkProofs -----------------------------
(***************************************************************************)
(* The theorems about the influxdb sink and the jaegertracing sink, for    *)
(* every set of messages, size of the arrays, batch and set of failures.   *)
(***************************************************************************)
EXTENDS InfluxSink, SequenceTheorems, TLAPS

VARIABLES spans, finished

\* The other sink, with the variables of the loop in common.
Jaeger == INSTANCE JaegerSink

(***************************************************************************)
(* The loop of consume(), which both sinks have, keeps its invariant.      *)
(***************************************************************************)

LEMMA LoopInvInit ==
  ASSUME SinkAssumption, SinkInit
  PROVE  LoopInv
<1>1. SinkTypeOK
  BY DEF SinkInit, SinkTypeOK, SinkAssumption
<1>2. QED
  BY <1>1 DEF SinkInit, LoopInv, ReleasedOnce

\* A step that touches neither the messages nor their releases, and does not
\* enter or leave the loop.
LEMMA LoopInvOutside ==
  ASSUME LoopInv, UNCHANGED <<seen, handled, released>>,
         sink \notin {"handling", "crashed"},
         sink' \in {"none", "ready", "idle"} => sink \in {"none", "ready", "idle"},
         sink' \in {"none", "ready", "idle", "ended", "failed", "gone", "crashed"},
         iterator' \in {"null", "live", "junk"},
         failedAsserts' \subseteq {"destroy", "configured"}
  PROVE  LoopInv'
<1>1. SinkTypeOK'
  BY DEF LoopInv, SinkTypeOK
<1>2. ReleasedOnce'
  BY DEF LoopInv, ReleasedOnce
<1>3. QED
  BY <1>1, <1>2 DEF LoopInv

\* An array of messages begins the loop, none of them released.
LEMMA LoopInvArray ==
  ASSUME SinkAssumption, LoopInv, NEW msgs \in Seq(TraceMessages), ConsumeArray(msgs)
  PROVE  LoopInv'
<1> DEFINE zeros == [i \in 1..Len(msgs) |-> 0]
<1>1. /\ seen \in Seq(TraceMessages)
      /\ released \in Seq(Nat)
      /\ Len(seen) \in Nat /\ Len(msgs) \in Nat \ {0}
      /\ Len(released) = Len(seen)
      /\ handled \in 0..Len(seen)
  BY DEF LoopInv, SinkTypeOK, ConsumeArray
<1>2. zeros \in Seq(Nat) /\ Len(zeros) = Len(msgs)
  BY <1>1
<1>3. /\ seen' \in Seq(TraceMessages)
      /\ Len(seen') = Len(seen) + Len(msgs)
  BY <1>1, ConcatProperties DEF ConsumeArray
<1>4. /\ released' \in Seq(Nat)
      /\ Len(released') = Len(seen) + Len(msgs)
      /\ \A i \in 1..Len(seen) + Len(msgs) :
           released'[i] = IF i <= Len(seen) THEN released[i] ELSE zeros[i - Len(seen)]
  <2> HIDE DEF zeros
  <2>1. /\ released \o zeros \in Seq(Nat)
        /\ Len(released \o zeros) = Len(released) + Len(zeros)
        /\ \A i \in 1..Len(released) + Len(zeros) : (released \o zeros)[i] =
             IF i <= Len(released) THEN released[i] ELSE zeros[i - Len(released)]
    <3>1. released \in Seq(Nat) /\ zeros \in Seq(Nat)
      BY <1>1, <1>2
    <3>2. QED
      BY ONLY <3>1, ConcatProperties
  <2>2. released' = released \o zeros
    BY DEF ConsumeArray, zeros
  <2>3. QED
    BY <1>1, <1>2, <2>1, <2>2
<1>5. SinkTypeOK'
  <2>1. Len(seen') <= MaxSeen /\ handled' \in 0..Len(seen')
    BY <1>1, <1>3 DEF ConsumeArray
  <2>2. QED
    BY <1>3, <1>4, <2>1 DEF ConsumeArray, LoopInv, SinkTypeOK
<1>6. /\ (sink = "handling" => handled < Len(seen))'
      /\ (sink \in {"none", "ready", "idle"} => handled = Len(seen))'
  BY <1>1, <1>3 DEF ConsumeArray
<1>7. ReleasedOnce'
  <2>1. sink = "idle" /\ sink' = "handling" /\ handled' = handled
    BY DEF ConsumeArray
  <2>2. SUFFICES ASSUME NEW n \in 1..Len(seen) + Len(msgs)
                 PROVE  released'[n] = IF n > handled THEN 0 ELSE 1
    BY <1>3, <2>1 DEF ReleasedOnce
  <2>3. handled = Len(seen)
    BY <2>1 DEF LoopInv
  <2>4. CASE n <= Len(seen)
    <3>1. released[n] = 1
      BY <1>1, <2>1, <2>4 DEF LoopInv, ReleasedOnce
    <3>2. QED
      BY <1>1, <1>4, <2>3, <2>4, <3>1
  <2>5. CASE ~(n <= Len(seen))
    <3>1. n - Len(seen) \in 1..Len(msgs)
      BY <1>1, <2>5
    <3>2. QED
      BY <1>1, <1>4, <2>3, <2>5, <3>1
  <2>6. QED
    BY <2>4, <2>5
<1>8. QED
  BY <1>5, <1>6, <1>7 DEF LoopInv

\* A message that was handled is released.
LEMMA LoopInvHandled ==
  ASSUME LoopInv, Handled
  PROVE  LoopInv'
<1>1. /\ released \in Seq(Nat)
      /\ Len(seen) \in Nat
      /\ Len(released) = Len(seen)
      /\ handled \in Nat
      /\ handled + 1 \in 1..Len(seen)
  BY DEF LoopInv, SinkTypeOK, Handled
<1>2. \A n \in 1..Len(seen) : released[n] = IF n > handled THEN 0 ELSE 1
  BY DEF LoopInv, ReleasedOnce, Handled
<1>3. /\ released' \in Seq(Nat)
      /\ Len(released') = Len(seen)
      /\ \A n \in 1..Len(seen) :
           released'[n] = IF n = handled + 1 THEN 1 ELSE released[n]
  <2>1. released[handled + 1] + 1 = 1
    BY <1>1, <1>2
  <2>2. released' = [released EXCEPT ![handled + 1] = 1]
    BY <2>1 DEF Handled
  <2>3. QED
    BY <1>1, <2>2, ExceptSeq
<1>4. SinkTypeOK'
  BY <1>1, <1>3 DEF Handled, LoopInv, SinkTypeOK
<1>5. /\ (sink = "handling" => handled < Len(seen))'
      /\ (sink \in {"none", "ready", "idle"} => handled = Len(seen))'
  BY <1>1 DEF Handled
<1>6. ReleasedOnce'
  BY <1>1, <1>2, <1>3 DEF ReleasedOnce, Handled
<1>7. QED
  BY <1>4, <1>5, <1>6 DEF LoopInv

\* When handle_message() fails, what is left of the array is released.
LEMMA LoopInvFails ==
  ASSUME LoopInv, HandleFails
  PROVE  LoopInv'
<1>1. /\ released \in Seq(Nat)
      /\ Len(seen) \in Nat
      /\ Len(released) = Len(seen)
      /\ handled \in Nat
      /\ handled + 1 \in 1..Len(seen)
  BY DEF LoopInv, SinkTypeOK, HandleFails
<1>2. \A n \in 1..Len(seen) : released[n] = IF n > handled THEN 0 ELSE 1
  BY DEF LoopInv, ReleasedOnce, HandleFails
<1>3. released' = [n \in 1..Len(seen) |-> IF n >= handled + 1 THEN released[n] + 1
                                                            ELSE released[n]]
  BY <1>1 DEF HandleFails, ReleasedFrom
<1>4. \A n \in 1..Len(seen) : released'[n] = 1
  BY <1>1, <1>2, <1>3
<1>5. released' \in Seq(Nat) /\ Len(released') = Len(seen)
  <2>1. \A n \in 1..Len(seen) : released[n] \in Nat
    BY <1>1
  <2>2. QED
    BY <1>1, <1>3, <2>1
<1>6. SinkTypeOK'
  BY <1>1, <1>5 DEF HandleFails, LoopInv, SinkTypeOK
<1>7. ReleasedOnce'
  BY <1>4 DEF ReleasedOnce, HandleFails
<1>8. QED
  BY <1>6, <1>7 DEF LoopInv, HandleFails

(***************************************************************************)
(* The influxdb sink.                                                      *)
(***************************************************************************)

\* A point appended to the buffer is appended to all there is.
LEMMA AppendToConcat ==
  ASSUME NEW s \in Seq(Point), NEW t \in Seq(Point), NEW x \in Point
  PROVE  /\ Append(s \o t, x) = s \o Append(t, x)
         /\ Append(t, x) \in Seq(Point)
         /\ Len(Append(t, x)) = Len(t) + 1
<1>1. <<x>> \in Seq(Point) /\ s \o t \in Seq(Point)
  BY ConcatProperties
<1>2. Append(s \o t, x) = (s \o t) \o <<x>> /\ Append(t, x) = t \o <<x>>
  BY <1>1, AppendIsConcat
<1>3. (s \o t) \o <<x>> = s \o (t \o <<x>>)
  BY <1>1, ConcatAssociative
<1>4. QED
  BY <1>2, <1>3, AppendProperties

\* The invariant holds of a sink that was not made yet.
THEOREM InitInv ==
  ASSUME SinkAssumption, BatchAssumption, Init
  PROVE  IInv
<1>1. LoopInv
  BY LoopInvInit DEF Init
<1>2. TypeOK
  BY <1>1 DEF Init, TypeOK, LoopInv
<1>3. LastTimestamp /\ TagsBelow /\ NoneOverwritten
  BY DEF Init, SinkInit, LastTimestamp, InTimeOrder, TagsBelow, NoneOverwritten
<1>4. BufferNotFull /\ StoredIsPrefix /\ LossIsBounded
  BY DEF Init, BufferNotFull, StoredIsPrefix, LossIsBounded, BatchSize, BatchAssumption
<1>5. StoredOrBuffered
  BY DEF Init, StoredOrBuffered
<1>6. QED
  BY <1>1, <1>2, <1>3, <1>4, <1>5 DEF IInv

\* What the sink's part of the invariant needs of a step that is not about an
\* event: the client is left alone.
LEMMA ClientUnchanged ==
  ASSUME IInv, LoopInv', UNCHANGED <<seen, handled, influxVars>>, Alive' => Alive
  PROVE  IInv'
<1>1. TypeOK'
  BY DEF IInv, TypeOK, LoopInv, influxVars, clientVars
<1>2. LastTimestamp'
  BY DEF IInv, LastTimestamp, influxVars
<1>3. (TagsBelow /\ NoneOverwritten)'
  BY DEF IInv, TagsBelow, NoneOverwritten, influxVars
<1>4. (BufferNotFull /\ StoredIsPrefix /\ LossIsBounded)'
  BY DEF IInv, BufferNotFull, StoredIsPrefix, LossIsBounded, influxVars, clientVars
<1>5. StoredOrBuffered'
  BY DEF IInv, StoredOrBuffered, influxVars, clientVars
<1>6. QED
  BY <1>1, <1>2, <1>3, <1>4, <1>5 DEF IInv

\* The tag of a new point sets it apart from every point before it.
LEMMA TagStep ==
  ASSUME SinkAssumption, IInv, InEvent, Tag, handled' = handled + 1, seen' = seen
  PROVE  /\ NewPoint \in Point
         /\ points' \in Seq(Point)
         /\ tsVal' \in Nat
         /\ uniqCnt' \in Nat \ {0}
         /\ LastTimestamp'
         /\ TagsBelow'
         /\ NoneOverwritten'
<1>1. /\ tsVal \in Nat
      /\ uniqCnt \in Nat \ {0}
      /\ points \in Seq(Point)
      /\ seen \in Seq(TraceMessages)
      /\ handled \in Nat
      /\ handled + 1 \in 1..Len(seen)
  BY DEF IInv, TypeOK, SinkTypeOK, LoopInv, InEvent
<1>2. Current \in TraceMessage /\ Current.ts \in Nat /\ Current.name \in Names
  <2>1. Current \in TraceMessages
    BY <1>1, ElementOfSeq DEF Current
  <2>2. QED
    BY <2>1 DEF SinkAssumption, TraceMessage
<1>3. NewPoint \in Point
  BY <1>1, <1>2 DEF NewPoint, Point
<1>4. tsVal' = Current.ts /\ tsVal' \in Nat
  BY <1>2 DEF Tag
<1>5. uniqCnt' \in Nat \ {0}
  BY <1>1 DEF Tag
<1>6. tsVal <= Current.ts
  <2>1. CASE tsVal = 0
    BY <1>2, <2>1
  <2>2. CASE \E i \in 1..handled : seen[i].event /\ seen[i].ts = tsVal
    <3>1. PICK i \in 1..handled : seen[i].event /\ seen[i].ts = tsVal
      BY <2>2
    <3>2. i \in 1..Len(seen) /\ i < handled + 1 /\ Len(seen) \in Nat
      BY <1>1
    <3>3. seen[handled + 1].event
      BY DEF InEvent, Current
    <3>4. QED
      BY <1>1, <3>1, <3>2, <3>3 DEF IInv, LastTimestamp, InTimeOrder, Current
  <2>3. QED
    BY <2>1, <2>2 DEF IInv, LastTimestamp
<1>7. LastTimestamp'
  <2>1. handled + 1 \in 1..(handled + 1)
    BY <1>1
  <2>2. seen[handled + 1].event /\ seen[handled + 1].ts = tsVal'
    BY <1>4 DEF InEvent, Current
  <2>3. QED
    BY <2>1, <2>2 DEF IInv, LastTimestamp, InTimeOrder
<1>8. /\ points' \in Seq(Point)
      /\ Len(points) \in Nat
      /\ Len(points') = Len(points) + 1
      /\ \A i \in 1..Len(points) : points'[i] = points[i]
      /\ points'[Len(points) + 1] = NewPoint
  <2>1. points' = Append(points, NewPoint)
    BY DEF Tag
  <2>2. QED
    BY <1>1, <1>3, <2>1, AppendProperties
<1>9. \A i \in 1..Len(points) :
        /\ points[i] \in Point
        /\ points[i].ts <= tsVal
        /\ points[i].ts = tsVal => points[i].uniq < uniqCnt
  BY <1>1, ElementOfSeq DEF IInv, TagsBelow
<1>10. NewPoint.ts = Current.ts /\ NewPoint.uniq = IF Current.ts = tsVal THEN uniqCnt ELSE 0
  BY DEF NewPoint
<1>11. TagsBelow'
  <2>1. SUFFICES ASSUME NEW i \in 1..(Len(points) + 1)
                 PROVE  /\ points'[i].ts <= tsVal'
                        /\ points'[i].ts = tsVal' => points'[i].uniq < uniqCnt'
    BY <1>8 DEF TagsBelow
  <2>2. uniqCnt' = IF Current.ts = tsVal THEN uniqCnt + 1 ELSE 1
    BY DEF Tag
  <2>3. CASE i = Len(points) + 1
    BY <1>1, <1>2, <1>4, <1>8, <1>10, <2>2, <2>3
  <2>4. CASE i \in 1..Len(points)
    <3>1. points[i].ts \in Nat /\ points[i].uniq \in Nat
      BY <1>9, <2>4 DEF Point
    <3>2. QED
      BY <1>1, <1>2, <1>4, <1>6, <1>8, <1>9, <2>2, <2>4, <3>1
  <2>5. QED
    BY <1>8, <2>3, <2>4
<1>12. \A i \in 1..Len(points) : points[i] # NewPoint
  <2>1. SUFFICES ASSUME NEW i \in 1..Len(points), points[i] = NewPoint
                 PROVE  FALSE
    OBVIOUS
  <2>2. points[i].ts \in Nat /\ points[i].uniq \in Nat
    BY <1>9 DEF Point
  <2>3. QED
    BY <1>1, <1>2, <1>6, <1>9, <1>10, <2>1, <2>2
<1>13. NoneOverwritten'
  <2>1. SUFFICES ASSUME NEW i \in 1..(Len(points) + 1), NEW j \in 1..(Len(points) + 1),
                        i # j
                 PROVE  points'[i] # points'[j]
    BY <1>8 DEF NoneOverwritten
  <2>2. CASE i \in 1..Len(points) /\ j \in 1..Len(points)
    BY <1>8, <2>1, <2>2 DEF IInv, NoneOverwritten
  <2>3. CASE i = Len(points) + 1 \/ j = Len(points) + 1
    BY <1>8, <1>12, <2>1, <2>3
  <2>4. QED
    BY <1>8, <2>2, <2>3
<1>14. QED
  BY <1>3, <1>4, <1>5, <1>7, <1>8, <1>11, <1>13

\* What is to be written, after what is stored, is all the points made.
LEMMA OutgoingCompletes ==
  ASSUME SinkAssumption, BatchAssumption, IInv, InEvent, Tag, NewPoint \in Point
  PROVE  /\ points' = stored \o Outgoing
         /\ stored \in Seq(Point)
         /\ Outgoing \in Seq(Point)
         /\ Len(Outgoing) = Len(mBuffer) + 1
         /\ Len(Outgoing) \in Nat
         /\ Len(mBuffer) \in Nat
         /\ Len(mBuffer) < BatchSize
<1>1. points = stored \o mBuffer
  BY DEF IInv, StoredOrBuffered, Alive, InEvent
<1>2. stored \in Seq(Point) /\ mBuffer \in Seq(Point)
  BY DEF IInv, TypeOK
<1>3. points' = Append(stored \o mBuffer, NewPoint)
  BY <1>1 DEF Tag
<1>4. /\ Append(stored \o mBuffer, NewPoint) = stored \o Outgoing
      /\ Outgoing \in Seq(Point)
      /\ Len(Outgoing) = Len(mBuffer) + 1
  BY <1>2, AppendToConcat DEF Outgoing
<1>5. QED
  BY <1>2, <1>3, <1>4 DEF IInv, BufferNotFull

\* Every step of the sink keeps the invariant.
THEOREM NextInv ==
  ASSUME SinkAssumption, BatchAssumption, IInv, [Next]_vars
  PROVE  IInv'
<1> USE SinkAssumption, BatchAssumption
<1>0. /\ LoopInv
      /\ iterator \in {"null", "live", "junk"}
      /\ failedAsserts \subseteq {"destroy", "configured"}
      /\ sink \in {"none", "ready", "idle", "handling", "ended", "failed", "gone", "crashed"}
  BY DEF IInv, LoopInv, SinkTypeOK
<1>1. CASE InfluxInit
  <2>1. LoopInv'
    <3>1. UNCHANGED <<seen, handled, released, failedAsserts>> /\ sink = "none"
      BY <1>1 DEF InfluxInit, InitSucceeds
    <3>2. sink' \in {"ready", "crashed"} /\ iterator' \in {"null", "live", "junk"}
      BY <1>0, <1>1 DEF InfluxInit, InitSucceeds, Uninitialised
    <3>3. QED
      BY <1>0, <3>1, <3>2, LoopInvOutside
  <2>2. UNCHANGED <<seen, handled, influxVars>> /\ Alive
    BY <1>1 DEF InfluxInit, InitSucceeds, Alive
  <2>3. QED
    BY <2>1, <2>2, ClientUnchanged
<1>2. CASE InfluxInitFails
  <2>1. PICK iter \in Uninitialised : InitFails(iter)
    BY <1>2 DEF InfluxInitFails
  <2>2. LoopInv'
    <3>1. UNCHANGED <<seen, handled, released>> /\ sink = "none"
      BY <2>1 DEF InitFails, Destroy
    <3>2. sink' \in {"gone", "crashed"} /\ iterator' \in {"null", "live", "junk"}
      BY <2>1 DEF InitFails, Destroy
    <3>3. failedAsserts' \subseteq {"destroy", "configured"}
      BY <1>0, <2>1 DEF InitFails, Destroy
    <3>4. QED
      BY <1>0, <3>1, <3>2, <3>3, LoopInvOutside
  <2>3. UNCHANGED <<seen, handled, influxVars>> /\ Alive
    BY <1>2, <2>1 DEF InfluxInitFails, InitFails, Destroy, Alive
  <2>4. QED
    BY <2>2, <2>3, ClientUnchanged
<1>3. CASE LoopStep
  <2>1. /\ UNCHANGED <<seen, handled, released>>
        /\ iterator' \in {"null", "live", "junk"}
        /\ failedAsserts' \subseteq {"destroy", "configured"}
        /\ sink \in {"none", "ready", "idle"}
        /\ sink' \in {"idle", "ended", "failed", "gone"}
    <3>1. CASE CreateFails
      BY <1>0, <3>1 DEF CreateFails
    <3>2. CASE GraphIsConfigured
      BY <1>0, <3>2 DEF GraphIsConfigured, AssertConfigured
    <3>3. CASE GraphIsConfiguredFails
      BY <1>0, <3>3 DEF GraphIsConfiguredFails, AssertConfigured
    <3>4. CASE ConsumeEnd
      BY <1>0, <3>4 DEF ConsumeEnd
    <3>5. CASE ConsumeError
      BY <1>0, <3>5 DEF ConsumeError
    <3>6. QED
      BY <1>3, <3>1, <3>2, <3>3, <3>4, <3>5 DEF LoopStep
  <2>2. LoopInv'
    BY <1>0, <2>1, LoopInvOutside
  <2>3. UNCHANGED influxVars /\ Alive
    BY <1>3, <2>1 DEF LoopStep, Alive
  <2>4. QED
    BY <2>1, <2>2, <2>3, ClientUnchanged
<1>4. CASE Consume
  <2>1. PICK n \in 1..MaxArray : \E msgs \in [1..n -> TraceMessages] : ConsumeArray(msgs)
    BY <1>4 DEF Consume
  <2>2. PICK msgs \in [1..n -> TraceMessages] : ConsumeArray(msgs)
    BY <2>1
  <2>3. n \in Nat /\ msgs \in Seq(TraceMessages)
    <3>1. n \in Nat
      BY <2>1 DEF SinkAssumption
    <3>2. QED
      BY <2>2, <3>1
  <2>4. LoopInv'
    BY <1>0, <2>2, <2>3, LoopInvArray
  <2>5. UNCHANGED influxVars
    BY <1>4 DEF Consume
  <2>6. TypeOK'
    BY <2>4, <2>5 DEF IInv, TypeOK, LoopInv, influxVars, clientVars
  <2>7. LastTimestamp'
    <3>1. InTimeOrder(seen)'
      BY <2>2 DEF ConsumeArray, InTimeOrder
    <3>2. tsVal' = tsVal /\ handled' = handled
      BY <2>2, <2>5 DEF ConsumeArray, influxVars
    <3>3. handled \in 0..Len(seen) /\ seen \in Seq(TraceMessages) /\ Len(seen) \in Nat
      BY <1>0 DEF LoopInv, SinkTypeOK
    <3>4. \A i \in 1..Len(seen) : seen'[i] = seen[i]
      <4>1. seen' = seen \o msgs
        BY <2>2 DEF ConsumeArray
      <4>2. Len(msgs) \in Nat
        BY <2>3
      <4>3. QED
        BY <2>3, <3>3, <4>1, <4>2, ConcatProperties
    <3>5. (tsVal = 0 \/ \E i \in 1..handled : seen[i].event /\ seen[i].ts = tsVal)'
      BY <3>2, <3>3, <3>4 DEF IInv, LastTimestamp
    <3>6. QED
      BY <3>1, <3>5 DEF LastTimestamp
  <2>8. (TagsBelow /\ NoneOverwritten)'
    BY <2>5 DEF IInv, TagsBelow, NoneOverwritten, influxVars
  <2>9. (BufferNotFull /\ StoredIsPrefix /\ LossIsBounded)'
    BY <2>5 DEF IInv, BufferNotFull, StoredIsPrefix, LossIsBounded, influxVars, clientVars
  <2>10. StoredOrBuffered'
    BY <2>2, <2>5 DEF IInv, StoredOrBuffered, Alive, ConsumeArray, influxVars, clientVars
  <2>11. QED
    BY <2>4, <2>6, <2>7, <2>8, <2>9, <2>10 DEF IInv
<1>5. CASE HandleOther
  <2>1. LoopInv'
    BY <1>0, <1>5, LoopInvHandled DEF HandleOther
  <2>2. /\ UNCHANGED influxVars /\ seen' = seen /\ handled' = handled + 1
        /\ handled \in Nat /\ Alive
    BY <1>0, <1>5 DEF HandleOther, Handled, LoopInv, SinkTypeOK, Alive
  <2>3. TypeOK'
    BY <2>1, <2>2 DEF IInv, TypeOK, LoopInv, influxVars, clientVars
  <2>4. LastTimestamp'
    <3>1. 1..handled \subseteq 1..(handled + 1)
      BY <2>2
    <3>2. QED
      BY <2>2, <3>1 DEF IInv, LastTimestamp, InTimeOrder, influxVars
  <2>5. (TagsBelow /\ NoneOverwritten)'
    BY <2>2 DEF IInv, TagsBelow, NoneOverwritten, influxVars
  <2>6. (BufferNotFull /\ StoredIsPrefix /\ LossIsBounded)'
    BY <2>2 DEF IInv, BufferNotFull, StoredIsPrefix, LossIsBounded, influxVars, clientVars
  <2>7. StoredOrBuffered'
    BY <2>2 DEF IInv, StoredOrBuffered, influxVars, clientVars
  <2>8. QED
    BY <2>1, <2>3, <2>4, <2>5, <2>6, <2>7 DEF IInv
<1>6. CASE Buffer
  <2>1. InEvent /\ Tag /\ handled' = handled + 1 /\ seen' = seen
    BY <1>6 DEF Buffer, Handled
  <2>2. /\ NewPoint \in Point
        /\ points' \in Seq(Point) /\ tsVal' \in Nat /\ uniqCnt' \in Nat \ {0}
        /\ LastTimestamp' /\ TagsBelow' /\ NoneOverwritten'
    BY <2>1, TagStep
  <2>3. /\ points' = stored \o Outgoing
        /\ stored \in Seq(Point) /\ Outgoing \in Seq(Point)
        /\ Len(Outgoing) = Len(mBuffer) + 1
        /\ Len(Outgoing) \in Nat
    BY <2>1, <2>2, OutgoingCompletes
  <2>4. mBuffer' = Outgoing /\ stored' = stored
    BY <1>6 DEF Buffer, Outgoing
  <2>5. LoopInv'
    BY <1>0, <1>6, LoopInvHandled DEF Buffer
  <2>6. TypeOK'
    BY <2>2, <2>3, <2>4, <2>5 DEF TypeOK, LoopInv
  <2>7. BufferNotFull'
    BY <1>6, <2>3, <2>4 DEF Buffer, BufferNotFull, BatchSize, BatchAssumption
  <2>8. StoredOrBuffered'
    BY <2>3, <2>4 DEF StoredOrBuffered
  <2>9. StoredIsPrefix' /\ LossIsBounded'
    <3>1. /\ Len(points') = Len(stored) + Len(Outgoing)
          /\ \A k \in 1..Len(stored) + Len(Outgoing) :
               points'[k] = IF k <= Len(stored) THEN stored[k] ELSE Outgoing[k - Len(stored)]
      BY <2>3, ConcatProperties
    <3>2. Len(stored) \in Nat
      BY <2>3
    <3>3. QED
      BY <2>3, <2>4, <2>7, <3>1, <3>2
         DEF StoredIsPrefix, LossIsBounded, BufferNotFull, BatchSize, BatchAssumption
  <2>10. QED
    BY <2>2, <2>5, <2>6, <2>7, <2>8, <2>9 DEF IInv
<1>7. CASE Transmit
  <2>1. InEvent /\ Tag /\ handled' = handled + 1 /\ seen' = seen
    BY <1>7 DEF Transmit, Transmitting, Handled
  <2>2. /\ NewPoint \in Point
        /\ points' \in Seq(Point) /\ tsVal' \in Nat /\ uniqCnt' \in Nat \ {0}
        /\ LastTimestamp' /\ TagsBelow' /\ NoneOverwritten'
    BY <2>1, TagStep
  <2>3. points' = stored \o Outgoing
    BY <2>1, <2>2, OutgoingCompletes
  <2>4. mBuffer' = <<>> /\ stored' = points'
    BY <1>7, <2>3 DEF Transmit
  <2>5. LoopInv'
    BY <1>0, <1>7, LoopInvHandled DEF Transmit
  <2>6. TypeOK'
    BY <2>2, <2>4, <2>5 DEF TypeOK, LoopInv
  <2>7. BufferNotFull'
    BY <2>4 DEF BufferNotFull, BatchSize, BatchAssumption
  <2>8. StoredOrBuffered'
    <3>1. points' \o <<>> = points'
      BY <2>2, ConcatEmptySeq
    <3>2. QED
      BY <2>4, <3>1 DEF StoredOrBuffered
  <2>9. StoredIsPrefix' /\ LossIsBounded'
    <3>1. Len(points') \in Nat
      BY <2>2
    <3>2. QED
      BY <2>4, <3>1 DEF StoredIsPrefix, LossIsBounded, BatchSize, BatchAssumption
  <2>10. QED
    BY <2>2, <2>5, <2>6, <2>7, <2>8, <2>9 DEF IInv
<1>8. CASE TransmitFails
  <2>1. InEvent /\ Tag /\ handled' = handled + 1 /\ seen' = seen
    BY <1>8 DEF TransmitFails, Transmitting, HandleFails
  <2>2. /\ NewPoint \in Point
        /\ points' \in Seq(Point) /\ tsVal' \in Nat /\ uniqCnt' \in Nat \ {0}
        /\ LastTimestamp' /\ TagsBelow' /\ NoneOverwritten'
    BY <2>1, TagStep
  <2>3. /\ points' = stored \o Outgoing
        /\ stored \in Seq(Point) /\ Outgoing \in Seq(Point)
        /\ Len(Outgoing) = Len(mBuffer) + 1
        /\ Len(Outgoing) \in Nat /\ Len(mBuffer) \in Nat
        /\ Len(mBuffer) < BatchSize
    BY <2>1, <2>2, OutgoingCompletes
  <2>4. mBuffer' = <<>> /\ stored' \in {stored, points'} /\ sink' = "failed"
    BY <1>8, <2>3 DEF TransmitFails, HandleFails
  <2>5. LoopInv'
    BY <1>0, <1>8, LoopInvFails DEF TransmitFails
  <2>6. TypeOK'
    <3>1. stored' \in Seq(Point)
      <4> DEFINE p == points' s == stored'
      <4>1. p \in Seq(Point) /\ s \in {stored, p}
        BY <2>2, <2>4
      <4> HIDE DEF p, s
      <4>2. s \in Seq(Point)
        BY <2>3, <4>1
      <4>3. QED
        BY <4>2 DEF s
    <3>2. QED
      BY <2>2, <2>4, <2>5, <3>1 DEF TypeOK, LoopInv
  <2>7. BufferNotFull'
    BY <2>4 DEF BufferNotFull, BatchSize, BatchAssumption
  <2>8. StoredOrBuffered'
    BY <2>4 DEF StoredOrBuffered, Alive
  <2>9. StoredIsPrefix' /\ LossIsBounded'
    <3>1. /\ Len(points') = Len(stored) + Len(Outgoing)
          /\ \A k \in 1..Len(stored) + Len(Outgoing) :
               points'[k] = IF k <= Len(stored) THEN stored[k] ELSE Outgoing[k - Len(stored)]
      BY <2>3, ConcatProperties
    <3>2. Len(stored) \in Nat /\ Len(points') \in Nat /\ BatchSize \in Nat
      BY <2>2, <2>3 DEF BatchSize, BatchAssumption
    <3>3. CASE stored' = stored
      BY <2>3, <3>1, <3>2, <3>3 DEF StoredIsPrefix, LossIsBounded, BatchSize
    <3>4. CASE stored' = points'
      BY <3>2, <3>4 DEF StoredIsPrefix, LossIsBounded, BatchSize
    <3>5. QED
      BY <2>4, <3>3, <3>4
  <2>10. QED
    BY <2>2, <2>5, <2>6, <2>7, <2>8, <2>9 DEF IInv
<1>9. CASE InfluxFinalize
  <2>1. /\ UNCHANGED <<seen, handled, released, tsVal, uniqCnt, stored, points>>
        /\ mBuffer' = <<>>
        /\ sink' \in {"gone", "crashed"}
        /\ iterator' \in {"null", "live", "junk"}
        /\ sink \notin {"handling", "crashed"}
    BY <1>9 DEF InfluxFinalize, Finalize, Destroy
  <2>2. failedAsserts' \subseteq {"destroy", "configured"}
    BY <1>0, <1>9 DEF InfluxFinalize, Finalize, Destroy
  <2>3. LoopInv'
    BY <1>0, <2>1, <2>2, LoopInvOutside
  <2>4. TypeOK'
    BY <2>1, <2>3 DEF IInv, TypeOK, LoopInv
  <2>5. LastTimestamp'
    BY <2>1 DEF IInv, LastTimestamp, InTimeOrder
  <2>6. (TagsBelow /\ NoneOverwritten)'
    BY <2>1 DEF IInv, TagsBelow, NoneOverwritten
  <2>7. BufferNotFull'
    BY <2>1 DEF BufferNotFull, BatchSize, BatchAssumption
  <2>8. (StoredIsPrefix /\ LossIsBounded)'
    BY <2>1 DEF IInv, StoredIsPrefix, LossIsBounded
  <2>9. StoredOrBuffered'
    BY <2>1 DEF StoredOrBuffered, Alive
  <2>10. QED
    BY <2>3, <2>4, <2>5, <2>6, <2>7, <2>8, <2>9 DEF IInv
<1>10. CASE UNCHANGED vars
  <2>1. UNCHANGED <<sink, iterator, seen, handled, released, failedAsserts, influxVars>>
    BY <1>10 DEF vars, sinkVars
  <2>2. LoopInv'
    BY <1>0, <2>1 DEF LoopInv, SinkTypeOK, ReleasedOnce
  <2>3. Alive' => Alive
    BY <2>1 DEF Alive
  <2>4. QED
    BY <2>1, <2>2, <2>3, ClientUnchanged
<1>11. QED
  BY <1>1, <1>2, <1>3, <1>4, <1>5, <1>6, <1>7, <1>8, <1>9, <1>10 DEF Next

\* The inductive invariant: the loop's, the last timestamp and the tags given
\* at it, and where the points are.
THEOREM Invariance == Spec => []IInv
<1>1. Init => IInv
  BY InitInv, SinkAssumption, BatchAssumption
<1>2. IInv /\ [Next]_vars => IInv'
  BY NextInv, SinkAssumption, BatchAssumption
<1>3. QED
  BY <1>1, <1>2, PTL DEF Spec

\* The types of the sink's state (struct influxdb_component, InfluxDB).
THEOREM TypeCorrect == Spec => []TypeOK
<1>1. IInv => TypeOK
  BY DEF IInv
<1>2. QED
  BY <1>1, Invariance, PTL

\* No point takes the place of another in the database (ts_val, uniq_cnt).
THEOREM PointsDistinct == Spec => []NoneOverwritten
<1>1. IInv => NoneOverwritten
  BY DEF IInv
<1>2. QED
  BY <1>1, Invariance, PTL

\* Every point of a living sink is stored or buffered (InfluxDB::write).
THEOREM NoneLostAlive == Spec => []StoredOrBuffered
<1>1. IInv => StoredOrBuffered
  BY DEF IInv
<1>2. QED
  BY <1>1, Invariance, PTL

\* The database holds the first points made (flushBuffer, handle_message).
THEOREM StoredInOrder == Spec => []StoredIsPrefix
<1>1. IInv => StoredIsPrefix
  BY DEF IInv
<1>2. QED
  BY <1>1, Invariance, PTL

\* A failure or the end of the sink loses a batch at most.
THEOREM BoundedLoss == Spec => []LossIsBounded
<1>1. IInv => LossIsBounded
  BY DEF IInv
<1>2. QED
  BY <1>1, Invariance, PTL

\* Each message of upstream is released exactly once (influxdb_consume).
THEOREM EachReleasedOnce == Spec => []ReleasedOnce
<1>1. IInv => ReleasedOnce
  BY DEF IInv, LoopInv
<1>2. QED
  BY <1>1, Invariance, PTL

(***************************************************************************)
(* The jaegertracing sink.                                                 *)
(***************************************************************************)

\* Its spans need only the type of the names they are made of.
JaegerInv == LoopInv /\ Jaeger!TypeOK

LEMMA JaegerBegins ==
  ASSUME SinkAssumption, Jaeger!Init
  PROVE  JaegerInv
<1>1. SinkInit
  BY DEF Jaeger!Init, Jaeger!SinkInit, SinkInit
<1>2. LoopInv
  BY <1>1, LoopInvInit
<1>3. Jaeger!TypeOK
  BY <1>2 DEF LoopInv, SinkTypeOK, Jaeger!TypeOK, Jaeger!SinkTypeOK, Jaeger!Init
<1>4. QED
  BY <1>2, <1>3 DEF JaegerInv

\* The loop of the jaegertracing sink; an exception leaves it for good.
LEMMA JaegerLoop ==
  ASSUME SinkAssumption, LoopInv, [Jaeger!Next]_(Jaeger!vars)
  PROVE  LoopInv'
<1>1. /\ iterator \in {"null", "live", "junk"}
      /\ failedAsserts \subseteq {"destroy", "configured"}
      /\ sink \in {"none", "ready", "idle", "handling", "ended", "failed", "gone", "crashed"}
  BY DEF LoopInv, SinkTypeOK
<1>2. CASE \/ Jaeger!JaegerInit \/ Jaeger!JaegerInitFails \/ Jaeger!LoopStep
           \/ Jaeger!JaegerFinalize
  <2>1. /\ UNCHANGED <<seen, handled, released>>
        /\ sink \notin {"handling", "crashed"}
        /\ sink' \in {"none", "ready", "idle"} => sink \in {"none", "ready", "idle"}
        /\ sink' \in {"none", "ready", "idle", "ended", "failed", "gone", "crashed"}
        /\ iterator' \in {"null", "live", "junk"}
        /\ failedAsserts' \subseteq {"destroy", "configured"}
    <3>1. CASE Jaeger!JaegerInit
      BY <1>1, <3>1 DEF Jaeger!JaegerInit, Jaeger!InitSucceeds
    <3>2. CASE Jaeger!JaegerInitFails
      BY <1>1, <3>2 DEF Jaeger!JaegerInitFails, Jaeger!InitFails, Jaeger!Destroy
    <3>3. CASE Jaeger!LoopStep
      <4>1. CASE Jaeger!CreateFails
        BY <1>1, <4>1 DEF Jaeger!CreateFails
      <4>2. CASE Jaeger!GraphIsConfigured
        BY <1>1, <4>2 DEF Jaeger!GraphIsConfigured, Jaeger!AssertConfigured
      <4>3. CASE Jaeger!GraphIsConfiguredFails
        BY <1>1, <4>3 DEF Jaeger!GraphIsConfiguredFails, Jaeger!AssertConfigured
      <4>4. CASE Jaeger!ConsumeEnd \/ Jaeger!ConsumeError
        BY <1>1, <4>4 DEF Jaeger!ConsumeEnd, Jaeger!ConsumeError
      <4>5. QED
        BY <3>3, <4>1, <4>2, <4>3, <4>4 DEF Jaeger!LoopStep
    <3>4. CASE Jaeger!JaegerFinalize
      BY <1>1, <3>4 DEF Jaeger!JaegerFinalize, Jaeger!Finalize, Jaeger!Destroy
    <3>5. QED
      BY <1>2, <3>1, <3>2, <3>3, <3>4
  <2>2. QED
    BY <2>1, LoopInvOutside
<1>3. CASE Jaeger!Consume
  <2>1. PICK n \in 1..MaxArray : \E msgs \in [1..n -> TraceMessages] : Jaeger!ConsumeArray(msgs)
    BY <1>3 DEF Jaeger!Consume
  <2>2. PICK msgs \in [1..n -> TraceMessages] : Jaeger!ConsumeArray(msgs)
    BY <2>1
  <2>3. msgs \in Seq(TraceMessages)
    <3>1. n \in Nat
      BY <2>1 DEF SinkAssumption
    <3>2. QED
      BY <2>2, <3>1
  <2>4. ConsumeArray(msgs)
    BY <2>2 DEF ConsumeArray, Jaeger!ConsumeArray, InTimeOrder, Jaeger!InTimeOrder
  <2>5. QED
    BY <2>3, <2>4, LoopInvArray
<1>4. CASE Jaeger!HandleOther \/ Jaeger!HandleEvent
  <2>1. Handled
    BY <1>4 DEF Jaeger!HandleOther, Jaeger!HandleEvent, Jaeger!Handled, Handled
  <2>2. QED
    BY <2>1, LoopInvHandled
<1>5. CASE Jaeger!HandleNoColon
  BY <1>5 DEF Jaeger!HandleNoColon, LoopInv, SinkTypeOK, ReleasedOnce
<1>6. CASE UNCHANGED Jaeger!vars
  BY <1>6 DEF Jaeger!vars, Jaeger!sinkVars, LoopInv, SinkTypeOK, ReleasedOnce
<1>7. QED
  BY <1>2, <1>3, <1>4, <1>5, <1>6 DEF Jaeger!Next

\* A span is named by words of a message's name, and by the number of the message.
LEMMA SpansAreSpans ==
  ASSUME SinkAssumption, JaegerInv, [Jaeger!Next]_(Jaeger!vars)
  PROVE  spans' \subseteq Jaeger!Span /\ finished' \subseteq Jaeger!Span
<1>1. spans \subseteq Jaeger!Span /\ finished \subseteq Jaeger!Span
  BY DEF JaegerInv, Jaeger!TypeOK
<1>2. CASE Jaeger!HandleEvent
  <2>1. /\ handled \in Nat /\ handled + 1 \in 1..Len(seen)
        /\ seen \in Seq(TraceMessages)
    BY <1>2 DEF Jaeger!HandleEvent, JaegerInv, LoopInv, SinkTypeOK
  <2>2. seen[handled + 1] \in TraceMessage
    BY <2>1 DEF SinkAssumption
  <2>3. Jaeger!Current.name \in Seq(STRING)
    BY <2>2 DEF Jaeger!Current, TraceMessage, Names
  <2>4. Jaeger!ProvModFunc \in Seq(STRING)
    <3>1. Len(Jaeger!Current.name) - 1 \in 0..Len(Jaeger!Current.name)
      BY <1>2, <2>3 DEF Jaeger!HandleEvent
    <3>2. QED
      BY <2>3, <3>1, SubSeqProperties DEF Jaeger!ProvModFunc
  <2>5. [func |-> Jaeger!ProvModFunc, from |-> handled + 1] \in Jaeger!Span
    BY <2>1, <2>4 DEF Jaeger!Span, Jaeger!Names
  <2>6. spans' \subseteq Jaeger!Span
    BY <1>1, <1>2, <2>5 DEF Jaeger!HandleEvent
  <2>7. finished' \subseteq Jaeger!Span
    BY <1>1, <1>2 DEF Jaeger!HandleEvent, Jaeger!OpenSpans
  <2>8. QED
    BY <2>6, <2>7
<1>3. CASE ~Jaeger!HandleEvent
  <2>1. spans' \in {spans, {}} /\ finished' = finished
    BY <1>3 DEF Jaeger!Next, Jaeger!vars, Jaeger!jaegerVars, Jaeger!JaegerInit,
       Jaeger!JaegerInitFails, Jaeger!LoopStep, Jaeger!Consume, Jaeger!HandleOther,
       Jaeger!HandleNoColon, Jaeger!JaegerFinalize
  <2>2. QED
    BY <1>1, <2>1
<1>4. QED
  BY <1>2, <1>3

\* The loop of the jaegertracing sink keeps the invariant of the loop.
THEOREM JaegerInvariance == Jaeger!Spec => []JaegerInv
<1>1. Jaeger!Init => JaegerInv
  BY JaegerBegins, SinkAssumption
<1>2. JaegerInv /\ [Jaeger!Next]_(Jaeger!vars) => JaegerInv'
  <2>1. SUFFICES ASSUME JaegerInv, [Jaeger!Next]_(Jaeger!vars)
                 PROVE  JaegerInv'
    OBVIOUS
  <2>2. LoopInv'
    BY <2>1, JaegerLoop, SinkAssumption DEF JaegerInv
  <2>3. Jaeger!SinkTypeOK'
    BY <2>2 DEF LoopInv, SinkTypeOK, Jaeger!SinkTypeOK
  <2>4. Jaeger!TypeOK'
    BY <2>1, <2>3, SpansAreSpans, SinkAssumption DEF Jaeger!TypeOK
  <2>5. QED
    BY <2>2, <2>4 DEF JaegerInv
<1>3. QED
  BY <1>1, <1>2, PTL DEF Jaeger!Spec

\* What the end by an exception rests on: the iterator's field never holds junk.
JaegerEnd == Jaeger!EndsAtNameless /\ iterator \in {"null", "live"}

\* Only the event without a colon leaves the loop for good, before its message
\* is released.
LEMMA JaegerEnds ==
  ASSUME SinkAssumption, LoopInv, JaegerEnd, [Jaeger!Next]_(Jaeger!vars)
  PROVE  JaegerEnd'
<1>1. /\ seen \in Seq(TraceMessages)
      /\ handled \in 0..Len(seen)
      /\ released \in Seq(Nat) /\ Len(released) = Len(seen)
      /\ sink = "handling" => handled < Len(seen)
      /\ \A n \in 1..handled : seen[n].event => Len(seen[n].name) >= 2
      /\ iterator \in {"null", "live"}
  BY DEF LoopInv, SinkTypeOK, JaegerEnd, Jaeger!EndsAtNameless
<1>2. CASE \/ Jaeger!JaegerInit \/ Jaeger!JaegerInitFails \/ Jaeger!LoopStep
           \/ Jaeger!JaegerFinalize
  <2>1. UNCHANGED <<seen, handled>> /\ sink' # "crashed" /\ iterator' \in {"null", "live"}
    <3>1. CASE Jaeger!JaegerInit
      BY <1>1, <3>1 DEF Jaeger!JaegerInit, Jaeger!InitSucceeds
    <3>2. CASE Jaeger!JaegerInitFails
      BY <1>1, <3>2 DEF Jaeger!JaegerInitFails, Jaeger!InitFails, Jaeger!Destroy
    <3>3. CASE Jaeger!LoopStep
      BY <1>1, <3>3 DEF Jaeger!LoopStep, Jaeger!CreateFails, Jaeger!GraphIsConfigured,
         Jaeger!GraphIsConfiguredFails, Jaeger!ConsumeEnd, Jaeger!ConsumeError
    <3>4. CASE Jaeger!JaegerFinalize
      BY <1>1, <3>4 DEF Jaeger!JaegerFinalize, Jaeger!Finalize, Jaeger!Destroy
    <3>5. QED
      BY <1>2, <3>1, <3>2, <3>3, <3>4
  <2>2. QED
    BY <1>1, <2>1 DEF JaegerEnd, Jaeger!EndsAtNameless
<1>3. CASE Jaeger!Consume
  <2>1. PICK n \in 1..MaxArray : \E msgs \in [1..n -> TraceMessages] : Jaeger!ConsumeArray(msgs)
    BY <1>3 DEF Jaeger!Consume
  <2>2. PICK msgs \in [1..n -> TraceMessages] : Jaeger!ConsumeArray(msgs)
    BY <2>1
  <2>3. msgs \in Seq(TraceMessages)
    BY <2>1, <2>2 DEF SinkAssumption
  <2>4. /\ sink' = "handling" /\ iterator' = iterator /\ handled' = handled
        /\ seen' = seen \o msgs
    BY <2>2 DEF Jaeger!ConsumeArray
  <2>5. \A n2 \in 1..handled : seen'[n2] = seen[n2]
    BY <1>1, <2>3, <2>4, ConcatProperties
  <2>6. QED
    BY <1>1, <2>4, <2>5 DEF JaegerEnd, Jaeger!EndsAtNameless
<1>4. CASE Jaeger!HandleOther \/ Jaeger!HandleEvent
  <2>1. /\ sink = "handling" /\ sink' # "crashed" /\ handled' = handled + 1
        /\ UNCHANGED <<seen, iterator>>
        /\ Jaeger!Current.event => Len(Jaeger!Current.name) >= 2
    BY <1>4 DEF Jaeger!HandleOther, Jaeger!HandleEvent, Jaeger!Handled
  <2>2. \A n \in 1..handled' : seen[n].event => Len(seen[n].name) >= 2
    <3>1. SUFFICES ASSUME NEW n \in 1..(handled + 1), seen[n].event
                   PROVE  Len(seen[n].name) >= 2
      BY <2>1
    <3>2. CASE n = handled + 1
      BY <2>1, <3>1, <3>2 DEF Jaeger!Current
    <3>3. CASE n \in 1..handled
      BY <1>1, <3>1, <3>3
    <3>4. QED
      BY <1>1, <3>2, <3>3
  <2>3. QED
    BY <1>1, <2>1, <2>2 DEF JaegerEnd, Jaeger!EndsAtNameless
<1>5. CASE Jaeger!HandleNoColon
  <2>1. /\ sink = "handling" /\ UNCHANGED <<iterator, seen, handled, released>>
        /\ Jaeger!Current.event /\ Len(Jaeger!Current.name) < 2
        /\ Jaeger!Current' = Jaeger!Current
    BY <1>5 DEF Jaeger!HandleNoColon, Jaeger!Current
  <2>2. \A n \in 1..Len(seen) : released[n] = IF n <= handled THEN 1 ELSE 0
    BY <1>1, <2>1 DEF LoopInv, ReleasedOnce
  <2>3. QED
    BY <1>1, <2>1, <2>2 DEF JaegerEnd, Jaeger!EndsAtNameless
<1>6. CASE UNCHANGED Jaeger!vars
  BY <1>6 DEF Jaeger!vars, Jaeger!sinkVars, JaegerEnd, Jaeger!EndsAtNameless, Jaeger!Current
<1>7. QED
  BY <1>2, <1>3, <1>4, <1>5, <1>6 DEF Jaeger!Next

\* The process ends in the event without a colon only: what came before it was
\* released once, the rest never (jaeger_consume, handle_message).
THEOREM JaegerDiesAtNameless == Jaeger!Spec => []Jaeger!EndsAtNameless
<1>1. Jaeger!Init => JaegerEnd
  BY DEF Jaeger!Init, Jaeger!SinkInit, JaegerEnd, Jaeger!EndsAtNameless
<1>2. JaegerInv /\ JaegerEnd /\ [Jaeger!Next]_(Jaeger!vars) => JaegerEnd'
  BY JaegerEnds, SinkAssumption DEF JaegerInv
<1>3. JaegerEnd => Jaeger!EndsAtNameless
  BY DEF JaegerEnd
<1>4. QED
  BY <1>1, <1>2, <1>3, JaegerInvariance, PTL DEF Jaeger!Spec

\* Each message of upstream is released exactly once, as long as no exception ends
\* the program (jaeger_consume).
THEOREM JaegerReleasesOnce == Jaeger!Spec => []ReleasedOnce
<1>1. JaegerInv => ReleasedOnce
  BY DEF JaegerInv, LoopInv
<1>2. QED
  BY <1>1, JaegerInvariance, PTL
=============================================================================
