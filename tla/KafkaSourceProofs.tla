------------------------- MODULE KafkaSourceProofs --------------------------
(***************************************************************************)
(* Theorems about the source, for every topic, array size and number of    *)
(* runs of the program, and for every set of failures.                     *)
(***************************************************************************)
EXTENDS KafkaSource, SequenceTheorems, TLAPS

(***************************************************************************)
(* Sequences of items.                                                     *)
(***************************************************************************)

\* The items of a concatenation are those of its parts.
LEMMA ItemsConcat ==
  ASSUME NEW s \in Seq(Item), NEW t \in Seq(Item)
  PROVE  Items(s \o t) = Items(s) \cup Items(t)
<1>1. /\ Len(s \o t) = Len(s) + Len(t)
      /\ \A i \in 1..Len(s) + Len(t) :
           (s \o t)[i] = IF i <= Len(s) THEN s[i] ELSE t[i - Len(s)]
  BY ConcatProperties
<1>2. Len(s) \in Nat /\ Len(t) \in Nat
  BY LenProperties
<1>3. ASSUME NEW e \in Items(s \o t)
      PROVE  e \in Items(s) \cup Items(t)
  <2>1. PICK i \in 1..Len(s) + Len(t) : e = (s \o t)[i]
    BY <1>1, <1>3 DEF Items
  <2>2. CASE i <= Len(s)
    <3>1. i \in 1..Len(s) /\ e = s[i]
      BY <1>1, <1>2, <2>1, <2>2
    <3>2. QED
      BY <3>1 DEF Items
  <2>3. CASE ~(i <= Len(s))
    <3>1. i - Len(s) \in 1..Len(t) /\ e = t[i - Len(s)]
      BY <1>1, <1>2, <2>1, <2>3
    <3>2. QED
      BY <3>1 DEF Items
  <2>4. QED
    BY <2>2, <2>3
<1>4. ASSUME NEW e \in Items(s)
      PROVE  e \in Items(s \o t)
  <2>1. PICK i \in 1..Len(s) : e = s[i]
    BY DEF Items
  <2>2. i \in 1..Len(s) + Len(t) /\ e = (s \o t)[i]
    BY <1>1, <1>2, <2>1
  <2>3. QED
    BY <1>1, <2>2 DEF Items
<1>5. ASSUME NEW e \in Items(t)
      PROVE  e \in Items(s \o t)
  <2>1. PICK i \in 1..Len(t) : e = t[i]
    BY DEF Items
  <2>2. i + Len(s) \in 1..Len(s) + Len(t) /\ e = (s \o t)[i + Len(s)]
    BY <1>1, <1>2, <2>1
  <2>3. QED
    BY <1>1, <2>2 DEF Items
<1>6. QED
  BY <1>3, <1>4, <1>5

LEMMA ItemsEmpty == Items(<<>>) = {}
  BY DEF Items

\* The items of a sequence of items are items.
LEMMA ItemsType ==
  ASSUME NEW s \in Seq(Item)
  PROVE  Items(s) \subseteq Item
  BY ElementOfSeq DEF Items

\* A concatenation is in order when its parts are and all of the first comes
\* before all of the second.
LEMMA OrderedConcat ==
  ASSUME NEW s \in Seq(Item), NEW t \in Seq(Item),
         Ordered(s), Ordered(t),
         \A a \in Items(s), b \in Items(t) : Before(a, b)
  PROVE  Ordered(s \o t)
<1>1. /\ Len(s \o t) = Len(s) + Len(t)
      /\ \A i \in 1..Len(s) + Len(t) :
           (s \o t)[i] = IF i <= Len(s) THEN s[i] ELSE t[i - Len(s)]
  BY ConcatProperties
<1>2. Len(s) \in Nat /\ Len(t) \in Nat
  BY LenProperties
<1>3. SUFFICES ASSUME NEW i \in 1..Len(s) + Len(t), NEW j \in 1..Len(s) + Len(t),
                      i < j
               PROVE  Before((s \o t)[i], (s \o t)[j])
  BY <1>1 DEF Ordered
<1>4. CASE j <= Len(s)
  <2>1. i \in 1..Len(s) /\ j \in 1..Len(s)
    BY <1>2, <1>3, <1>4
  <2>2. (s \o t)[i] = s[i] /\ (s \o t)[j] = s[j]
    BY <1>1, <2>1, <1>2
  <2>3. QED
    BY <1>3, <2>1, <2>2 DEF Ordered
<1>5. CASE i <= Len(s) /\ ~(j <= Len(s))
  <2>1. i \in 1..Len(s) /\ j - Len(s) \in 1..Len(t)
    BY <1>2, <1>3, <1>5
  <2>2. (s \o t)[i] = s[i] /\ (s \o t)[j] = t[j - Len(s)]
    BY <1>1, <1>5
  <2>3. s[i] \in Items(s) /\ t[j - Len(s)] \in Items(t)
    BY <2>1 DEF Items
  <2>4. QED
    BY <2>2, <2>3
<1>6. CASE ~(i <= Len(s)) /\ ~(j <= Len(s))
  <2>1. /\ i - Len(s) \in 1..Len(t)
        /\ j - Len(s) \in 1..Len(t)
        /\ i - Len(s) < j - Len(s)
    BY <1>2, <1>3, <1>6
  <2>2. (s \o t)[i] = t[i - Len(s)] /\ (s \o t)[j] = t[j - Len(s)]
    BY <1>1, <1>6
  <2>3. QED
    BY <2>1, <2>2 DEF Ordered
<1>7. QED
  BY <1>2, <1>3, <1>4, <1>5, <1>6

\* An item moves from the front of one sequence to the end of another.
LEMMA MoveHead ==
  ASSUME NEW s \in Seq(Item), NEW t \in Seq(Item), t # <<>>
  PROVE  /\ Append(s, Head(t)) \o Tail(t) = s \o t
         /\ Append(s, Head(t)) \in Seq(Item)
         /\ Tail(t) \in Seq(Item)
<1>1. /\ Head(t) \in Item
      /\ Tail(t) \in Seq(Item)
  BY HeadTailProperties
<1>2. Append(s, Head(t)) = s \o <<Head(t)>> /\ Append(s, Head(t)) \in Seq(Item)
  BY <1>1, AppendIsConcat, AppendProperties
<1>3. <<Head(t)>> \in Seq(Item)
  BY <1>1
<1>4. (s \o <<Head(t)>>) \o Tail(t) = s \o (<<Head(t)>> \o Tail(t))
  BY <1>1, <1>3, ConcatAssociative
<1>5. <<Head(t)>> \o Tail(t) = t
  <2>1. /\ Len(t) \in Nat \ {0}
        /\ Head(t) = t[1]
        /\ Len(Tail(t)) = Len(t) - 1
        /\ \A i \in 1..Len(t) - 1 : Tail(t)[i] = t[i + 1]
    BY HeadTailProperties, EmptySeq
  <2>2. /\ <<Head(t)>> \o Tail(t) \in Seq(Item)
        /\ Len(<<Head(t)>> \o Tail(t)) = 1 + Len(Tail(t))
        /\ \A i \in 1..1 + Len(Tail(t)) : (<<Head(t)>> \o Tail(t))[i] =
             IF i <= 1 THEN Head(t) ELSE Tail(t)[i - 1]
    BY <1>1, <1>3, ConcatProperties
  <2>3. \A i \in 1..Len(t) : (<<Head(t)>> \o Tail(t))[i] = t[i]
    BY <2>1, <2>2
  <2>4. QED
    BY <2>1, <2>2, <2>3, SeqEqual
<1>6. QED
  BY <1>1, <1>2, <1>4, <1>5

\* What is appended to a topic does not change the events before it.
LEMMA EventsStable ==
  ASSUME NEW t, NEW u, NEW from \in Nat, NEW to \in Nat,
         \A o \in 1..to : u[o] = t[o]
  PROVE  Events(u, from, to) = Events(t, from, to)
<1>1. \A o \in (from + 1)..to : u[o] = t[o]
  OBVIOUS
<1>2. DataOffsets(u, from, to) = DataOffsets(t, from, to)
  BY <1>1 DEF DataOffsets
<1>3. \A o \in DataOffsets(t, from, to) : EventsOf(u, o) = EventsOf(t, o)
  BY <1>1 DEF DataOffsets, EventsOf
<1>4. QED
  BY <1>2, <1>3 DEF Events

LEMMA NoEvents ==
  ASSUME NEW t, NEW from \in Nat
  PROVE  Events(t, from, from) = {}
<1>1. (from + 1)..from = {}
  OBVIOUS
<1>2. QED
  BY <1>1 DEF Events, DataOffsets

\* One more position brings the events of its message, if it is stream data.
LEMMA EventsGrow ==
  ASSUME NEW t, NEW from \in Nat, NEW to \in Nat, from <= to
  PROVE  Events(t, from, to + 1) =
           IF t[to + 1].key = "ddtrace"
           THEN Events(t, from, to) \cup EventsOf(t, to + 1)
           ELSE Events(t, from, to)
<1>1. (from + 1)..(to + 1) = (from + 1)..to \cup {to + 1}
  OBVIOUS
<1>2. DataOffsets(t, from, to + 1) =
        IF t[to + 1].key = "ddtrace"
        THEN DataOffsets(t, from, to) \cup {to + 1}
        ELSE DataOffsets(t, from, to)
  BY <1>1 DEF DataOffsets
<1>3. QED
  BY <1>2 DEF Events

(***************************************************************************)
(* The topic.                                                              *)
(***************************************************************************)

\* A message of the topic is one a producer may append.
LEMMA MessageType ==
  ASSUME NEW m \in Messages
  PROVE  m \in Message /\ m.events \in Nat /\ m.key \in Keys /\ m.tsdl \in Outcomes
  BY TopicAssumption DEF Message

\* A poll that returns a message advances the position by one within the log.
LEMMA ReceiveStep ==
  ASSUME TopicTypeOK, NEW m \in Messages, Receive(m)
  PROVE  /\ TopicTypeOK'
         /\ pos' = pos + 1
         /\ pos' \in 1..Len(log)
         /\ log' = log
         /\ log[pos'] = m
  BY LenProperties DEF TopicTypeOK, Receive

\* A producer only appends: what the log held stays where it was.
LEMMA ProduceStep ==
  ASSUME TopicTypeOK, Produce
  PROVE  /\ TopicTypeOK'
         /\ Len(log') = Len(log) + 1
         /\ \A o \in 1..Len(log) : log'[o] = log[o]
<1>1. PICK m \in Messages : log' = Append(log, m)
  BY DEF Produce
<1>2. /\ log' \in Seq(Messages)
      /\ Len(log') = Len(log) + 1
      /\ \A o \in 1..Len(log) : log'[o] = log[o]
  BY <1>1, AppendProperties DEF TopicTypeOK
<1>3. Len(log) \in Nat
  BY LenProperties DEF TopicTypeOK
<1>4. QED
  BY <1>2, <1>3, TopicAssumption DEF TopicTypeOK, Produce

LEMMA OtherTopicSteps ==
  ASSUME TopicTypeOK,
         AutoCommit \/ Subscribe \/ CloseConsumer \/ LoseConsumer \/ UNCHANGED topicVars
  PROVE  TopicTypeOK' /\ log' = log
<1>1. Len(log) \in Nat
  BY LenProperties DEF TopicTypeOK
<1>2. QED
  BY <1>1 DEF TopicTypeOK, AutoCommit, Subscribe, CloseConsumer, LoseConsumer,
              topicVars

(***************************************************************************)
(* Type correctness.                                                       *)
(***************************************************************************)

\* Storing an item keeps the batch below the size of the graph's array.
LEMMA StoreType ==
  ASSUME TypeOK, NEW e \in Item, Store(e)
  PROVE  /\ batch' \in Seq(Item)
         /\ Len(batch') < Capacity
         /\ out' \in Seq(Item)
         /\ iter' \in {"idle", iter}
<1> DEFINE b == Append(batch, e)
<1>1. b \in Seq(Item) /\ Len(b) = Len(batch) + 1
  BY AppendProperties DEF TypeOK
<1>2. Len(batch) \in Nat /\ Len(batch) < Capacity
  BY LenProperties DEF TypeOK
<1>3. CASE Len(b) = Capacity
  <2>1. Return(b)
    BY <1>3 DEF Store
  <2>2. out \o b \in Seq(Item)
    BY <1>1, ConcatProperties DEF TypeOK
  <2>3. <<>> \in Seq(Item) /\ Len(<<>>) = 0
    BY EmptySeq
  <2>4. QED
    BY <2>1, <2>2, <2>3, SourceAssumption DEF Return
<1>4. CASE Len(b) # Capacity
  <2>1. batch' = b /\ UNCHANGED <<out, iter>>
    BY <1>4 DEF Store
  <2>2. out \in Seq(Item)
    BY DEF TypeOK
  <2>3. Capacity \in Nat
    BY SourceAssumption
  <2>4. Len(b) < Capacity
    BY ONLY <1>1, <1>2, <1>4, <2>3
  <2>5. QED
    BY <1>1, <2>1, <2>2, <2>4
<1>5. QED
  BY <1>3, <1>4

LEMMA ForgetType ==
  ASSUME ForgetMsgIter
  PROVE  /\ pending' \in Seq(Item)
         /\ batch' \in Seq(Item)
         /\ Len(batch') < Capacity
         /\ out' \in Seq(Item)
         /\ hasMsgIter' \in BOOLEAN
         /\ wasInterrupted' \in BOOLEAN
         /\ newMetadataNeeded' \in BOOLEAN
         /\ ctfMsgIter' \in BOOLEAN
         /\ stream' \in BOOLEAN
         /\ base' \in Nat
<1>1. <<>> \in Seq(Item) /\ Len(<<>>) = 0
  BY EmptySeq
<1>2. /\ hasMsgIter' \in BOOLEAN
      /\ wasInterrupted' \in BOOLEAN
      /\ newMetadataNeeded' \in BOOLEAN
      /\ ctfMsgIter' \in BOOLEAN
      /\ stream' \in BOOLEAN
  BY DEF ForgetMsgIter
<1>3. QED
  BY <1>1, <1>2, SourceAssumption DEF ForgetMsgIter

LEMMA ReturnType ==
  ASSUME TypeOK, Return(batch)
  PROVE  /\ batch' = <<>>
         /\ batch' \in Seq(Item)
         /\ Len(batch') < Capacity
         /\ out' \in Seq(Item)
         /\ iter' = "idle"
<1>1. out \o batch \in Seq(Item)
  BY ConcatProperties DEF TypeOK
<1>2. <<>> \in Seq(Item) /\ Len(<<>>) = 0
  BY EmptySeq
<1>3. QED
  BY <1>1, <1>2, SourceAssumption DEF Return

\* The events of a polled message are items.
LEMMA BytesType ==
  ASSUME TypeOK, StreamBytes
  PROVE  /\ pending' \in Seq(Item)
         /\ \E n \in Nat : /\ Len(pending') = n
                           /\ log[pos + 1].key = "ddtrace"
                           /\ log[pos + 1].events = n
                           /\ \A i \in 1..n : pending'[i] = [off |-> pos + 1, idx |-> i]
<1>1. PICK m \in Messages :
        /\ Receive(m)
        /\ IsData(m)
        /\ pending' = [i \in 1..m.events |-> [off |-> pos', idx |-> i]]
  BY DEF StreamBytes
<1>2. m.events \in Nat
  BY MessageType
<1>3. pos' = pos + 1 /\ pos' \in Nat /\ log[pos + 1] = m
  BY <1>1, ReceiveStep DEF TypeOK, TopicTypeOK
<1>4. \A i \in 1..m.events : [off |-> pos', idx |-> i] \in Item
  BY <1>2, <1>3 DEF Item
<1>5. pending' \in Seq(Item) /\ Len(pending') = m.events
  BY <1>1, <1>2, <1>4
<1>6. QED
  BY <1>1, <1>2, <1>3, <1>5 DEF IsData

\* Every step preserves the types.
LEMMA TypeStep == TypeOK /\ [Next]_vars => TypeOK'
<1> SUFFICES ASSUME TypeOK, [Next]_vars
             PROVE  TypeOK'
  OBVIOUS
<1> USE DEF TypeOK
<1>1. CASE TopicStep
  <2>1. CASE Produce
    BY <1>1, <2>1, ProduceStep DEF TopicStep, compVars, traceVars, streamVars, outVars, auditVars
  <2>2. CASE AutoCommit
    BY <1>1, <2>2, OtherTopicSteps DEF TopicStep, compVars, traceVars, streamVars, outVars, auditVars
  <2>3. QED
    BY <1>1, <2>1, <2>2 DEF TopicStep
<1>2. CASE ComponentInit
  <2>1. TopicTypeOK' /\ lives' \in 0..MaxLives
    BY <1>2, OtherTopicSteps, SourceAssumption DEF ComponentInit
  <2>2. QED
    BY <1>2, <2>1 DEF ComponentInit, compVars, traceVars, streamVars, outVars, auditVars
<1>3. CASE MsgIterInit
  <2>1. hasMsgIter' \in BOOLEAN
    BY <1>3 DEF MsgIterInit
  <2>2. QED
    BY <1>3, <2>1, OtherTopicSteps DEF MsgIterInit, compVars, traceVars, streamVars, outVars, auditVars
<1>4. CASE MsgIterInitFails
  <2>1. hasMsgIter' \in BOOLEAN
    BY <1>4 DEF MsgIterInitFails
  <2>2. /\ streamIters' \in Nat
        /\ failedAsserts' \subseteq failedAsserts \cup {"metadata"}
    BY <1>4 DEF MsgIterInitFails
  <2>3. TopicTypeOK'
    BY <1>4, OtherTopicSteps DEF MsgIterInitFails
  <2>4. QED
    BY <1>4, <2>1, <2>2, <2>3 DEF MsgIterInitFails, compVars, traceVars, streamVars, outVars, auditVars
<1>5. CASE MsgIterInitNoConsumer \/ ComponentFinalize \/ Crash \/ NextNoCtfMsgIter
  <2>1. ProcessGone
    BY <1>5 DEF MsgIterInitNoConsumer, ComponentFinalize, Crash, NextNoCtfMsgIter
  <2>2. TopicTypeOK'
    BY <2>1, OtherTopicSteps DEF ProcessGone
  <2>3. failedAsserts' \subseteq failedAsserts \cup {"consumer"}
    BY <1>5 DEF MsgIterInitNoConsumer, ComponentFinalize, Crash, NextNoCtfMsgIter
  <2>4. ForgetMsgIter /\ canceled' \in BOOLEAN
    BY <2>1 DEF ProcessGone
  <2>5. QED
    BY <2>1, <2>2, <2>3, <2>4, ForgetType DEF ProcessGone, ForgetMsgIter
<1>6. CASE MsgIterFinalize
  <2>1. TopicTypeOK' /\ ForgetMsgIter
    BY <1>6, OtherTopicSteps DEF MsgIterFinalize
  <2>2. QED
    BY <1>6, <2>1, ForgetType DEF MsgIterFinalize, ForgetMsgIter, auditVars
<1>7. CASE Cancel
  BY <1>7, OtherTopicSteps DEF Cancel, compVars, traceVars, streamVars, outVars, auditVars
<1>8. CASE NextInterrupted
  BY <1>8, OtherTopicSteps DEF NextInterrupted, compVars, traceVars, streamVars, outVars, auditVars
<1>9. CASE MetadataTimeout
  BY <1>9, OtherTopicSteps DEF MetadataTimeout, compVars, traceVars, streamVars, outVars, auditVars
<1>10. CASE MetadataPollError
  BY <1>10, OtherTopicSteps DEF MetadataPollError, compVars, traceVars, streamVars, outVars, auditVars
<1>11. CASE NextEnter
  BY <1>11, OtherTopicSteps DEF NextEnter, compVars, traceVars, streamVars, outVars, auditVars
<1>12. CASE MetadataDiscard
  <2>1. PICK m \in Messages : Receive(m)
    BY <1>12 DEF MetadataDiscard
  <2>2. TopicTypeOK' /\ pos' \in Nat
    BY <2>1, ReceiveStep DEF TopicTypeOK
  <2>3. QED
    BY <1>12, <2>2 DEF MetadataDiscard, compVars, traceVars, streamVars, outVars, auditVars
<1>13. CASE MetadataNoMemstream
  <2>1. PICK m \in Messages : Receive(m)
    BY <1>13 DEF MetadataNoMemstream
  <2>2. TopicTypeOK' /\ pos' \in Nat
    BY <2>1, ReceiveStep DEF TopicTypeOK
  <2>3. QED
    BY <1>13, <2>2 DEF MetadataNoMemstream, compVars, traceVars, streamVars, outVars, auditVars
<1>14. CASE MetadataRejected
  <2>1. PICK m \in Messages : Receive(m)
    BY <1>14 DEF MetadataRejected
  <2>2. TopicTypeOK' /\ pos' \in Nat
    BY <2>1, ReceiveStep DEF TopicTypeOK
  <2>3. QED
    BY <1>14, <2>2 DEF MetadataRejected, compVars, traceVars, streamVars, outVars, auditVars
<1>15. CASE MetadataNotConfigured
  <2>1. PICK m \in Messages : Receive(m)
    BY <1>15 DEF MetadataNotConfigured
  <2>2. TopicTypeOK' /\ pos' \in Nat
    BY <2>1, ReceiveStep DEF TopicTypeOK
  <2>3. QED
    BY <1>15, <2>2 DEF MetadataNotConfigured, compVars, traceVars, streamVars, outVars, auditVars
<1>16. CASE MetadataUpdate
  <2>1. PICK m \in Messages : Receive(m)
    BY <1>16 DEF MetadataUpdate
  <2>2. TopicTypeOK' /\ pos' \in Nat
    BY <2>1, ReceiveStep DEF TopicTypeOK
  <2>3. QED
    BY <1>16, <2>2 DEF MetadataUpdate, compVars, traceVars, streamVars, outVars, auditVars
<1>17. CASE BorrowStream
  <2>1. [off |-> Head(pending).off, idx |-> 0] \in Item
    BY <1>17, HeadTailProperties DEF BorrowStream, Item
  <2>2. Store([off |-> Head(pending).off, idx |-> 0])
    BY <1>17 DEF BorrowStream
  <2>3. QED
    BY <1>17, <2>1, <2>2, StoreType, OtherTopicSteps DEF BorrowStream, compVars, traceVars, streamVars, outVars, auditVars
<1>18. CASE BorrowStreamFails
  <2>1. Return(batch)
    BY <1>18 DEF BorrowStreamFails
  <2>2. QED
    BY <1>18, <2>1, ReturnType, OtherTopicSteps DEF BorrowStreamFails, compVars, traceVars, streamVars, outVars, auditVars
<1>19. CASE DecodeEvent
  <2>1. Head(pending) \in Item /\ Tail(pending) \in Seq(Item)
    BY <1>19, HeadTailProperties DEF DecodeEvent
  <2>2. Store(Head(pending))
    BY <1>19 DEF DecodeEvent
  <2>3. QED
    BY <1>19, <2>1, <2>2, StoreType, OtherTopicSteps DEF DecodeEvent, compVars, traceVars, streamVars, outVars, auditVars
<1>20. CASE StreamBytes
  <2>1. PICK m \in Messages : Receive(m)
    BY <1>20 DEF StreamBytes
  <2>2. TopicTypeOK'
    BY <2>1, ReceiveStep
  <2>3. QED
    BY <1>20, <2>2, BytesType DEF StreamBytes, compVars, traceVars, streamVars, outVars, auditVars
<1>21. CASE StreamDiscard
  <2>1. PICK m \in Messages : Receive(m)
    BY <1>21 DEF StreamDiscard
  <2>2. TopicTypeOK' /\ Return(batch)
    BY <1>21, <2>1, ReceiveStep DEF StreamDiscard, StreamAgain
  <2>3. QED
    BY <1>21, <2>2, ReturnType DEF StreamDiscard, StreamAgain, compVars, traceVars, streamVars, outVars, auditVars
<1>22. CASE StreamTimeout \/ StreamPartitionEof
  <2>1. TopicTypeOK' /\ Return(batch)
    BY <1>22, OtherTopicSteps DEF StreamTimeout, StreamPartitionEof, StreamAgain
  <2>2. wasInterrupted' \in BOOLEAN
    BY <1>22 DEF StreamTimeout, StreamPartitionEof
  <2>3. StreamAgain
    BY <1>22 DEF StreamTimeout, StreamPartitionEof
  <2>4. QED
    BY <2>1, <2>2, <2>3, ReturnType DEF StreamAgain, compVars, traceVars, streamVars, outVars, auditVars
<1>23. CASE StreamPollError
  <2>1. TopicTypeOK' /\ Return(batch)
    BY <1>23, OtherTopicSteps DEF StreamPollError
  <2>2. QED
    BY <1>23, <2>1, ReturnType DEF StreamPollError, compVars, traceVars, streamVars, outVars, auditVars
<1>24. CASE UNCHANGED vars
  BY <1>24, OtherTopicSteps DEF vars, topicVars, compVars, traceVars, streamVars, outVars, auditVars
<1>25. QED
  BY <1>1, <1>2, <1>3, <1>4, <1>5, <1>6, <1>7, <1>8, <1>9, <1>10, <1>11, <1>12, <1>13, <1>14, <1>15, <1>16, <1>17, <1>18, <1>19, <1>20, <1>21, <1>22, <1>23, <1>24 DEF Next, LifeStep, MetadataStep, StreamStep

LEMMA InitType == Init => TypeOK
<1>1. /\ <<>> \in Seq(Item)
      /\ <<>> \in Seq(Messages)
      /\ Len(<<>>) = 0
  BY EmptySeq
<1>2. SUFFICES ASSUME Init
             PROVE  TypeOK
  OBVIOUS
<1>3. TopicTypeOK
  BY <1>1, <1>2, TopicAssumption DEF Init, TopicInit, TopicTypeOK
<1>4. Len(batch) < Capacity
  BY <1>1, <1>2, SourceAssumption DEF Init
<1>5. {hasMsgIter, wasInterrupted, newMetadataNeeded, ctfMsgIter, stream, canceled}
         \subseteq BOOLEAN
  BY <1>2 DEF Init
<1>6. QED
  BY <1>1, <1>2, <1>3, <1>4, <1>5, SourceAssumption DEF Init, TypeOK

\* The type invariant.
THEOREM TypeCorrect == Spec => []TypeOK
<1>1. QED
  BY InitType, TypeStep, PTL DEF Spec

(***************************************************************************)
(* What a step does to the items taken.                                    *)
(***************************************************************************)

LEMMA TakenType ==
  ASSUME TypeOK
  PROVE  Taken \in Seq(Item) /\ out \o batch \in Seq(Item)
  BY ConcatProperties DEF Taken, TypeOK

\* A return from next moves the batch, no item is lost or added.
LEMMA TakenReturn ==
  ASSUME TypeOK, Return(batch), pending' = pending
  PROVE  Taken' = Taken
<1>1. out \o batch \in Seq(Item)
  BY TakenType
<1>2. (out \o batch) \o <<>> = out \o batch
  BY <1>1, ConcatEmptySeq
<1>3. QED
  BY <1>2 DEF Taken, Return

\* Storing an item puts it behind those of the batch.
LEMMA TakenStore ==
  ASSUME TypeOK, NEW e \in Item, Store(e)
  PROVE  out' \o batch' = Append(out \o batch, e)
<1>1. Append(batch, e) \in Seq(Item) /\ Append(batch, e) = batch \o <<e>>
  BY AppendProperties, AppendIsConcat DEF TypeOK
<1>2. out \o batch \in Seq(Item) /\ <<e>> \in Seq(Item)
  BY TakenType
<1>3. Append(out \o batch, e) = (out \o batch) \o <<e>>
  BY <1>2, AppendIsConcat
<1>4. out \o Append(batch, e) = (out \o batch) \o <<e>>
  BY <1>1, <1>2, ConcatAssociative DEF TypeOK
<1>5. out \o Append(batch, e) \in Seq(Item)
  BY <1>1, ConcatProperties DEF TypeOK
<1>6. CASE Len(Append(batch, e)) = Capacity
  <2>1. out' = out \o Append(batch, e) /\ batch' = <<>>
    BY <1>6 DEF Store, Return
  <2>2. out' \o batch' = out \o Append(batch, e)
    BY <1>5, <2>1, ConcatEmptySeq
  <2>3. QED
    BY <1>3, <1>4, <2>2
<1>7. CASE Len(Append(batch, e)) # Capacity
  BY <1>3, <1>4, <1>7 DEF Store
<1>8. QED
  BY <1>6, <1>7

\* Decoding an event moves it from the bytes in hand to the batch.
LEMMA TakenDecode ==
  ASSUME TypeOK, DecodeEvent
  PROVE  /\ Taken' = Taken
         /\ Items(pending') \subseteq Items(pending)
<1>1. pending \in Seq(Item) /\ pending # <<>> /\ pending' = Tail(pending)
  BY DEF DecodeEvent, TypeOK
<1>2. Head(pending) \in Item /\ Tail(pending) \in Seq(Item)
  BY <1>1, HeadTailProperties
<1>3. out' \o batch' = Append(out \o batch, Head(pending))
  BY <1>2, TakenStore DEF DecodeEvent
<1>4. Append(out \o batch, Head(pending)) \o Tail(pending) = (out \o batch) \o pending
  BY <1>1, TakenType, MoveHead
<1>5. Items(Tail(pending)) \subseteq Items(pending)
  <2>1. /\ Len(Tail(pending)) = Len(pending) - 1
        /\ \A i \in 1..Len(Tail(pending)) : Tail(pending)[i] = pending[i + 1]
    BY <1>1, HeadTailProperties
  <2>2. Len(pending) \in Nat
    BY <1>1, LenProperties
  <2>3. \A i \in 1..Len(Tail(pending)) : i + 1 \in 1..Len(pending)
    BY <2>1, <2>2
  <2>4. QED
    BY <2>1, <2>3 DEF Items
<1>6. QED
  BY <1>1, <1>3, <1>4, <1>5 DEF Taken

\* The first item is the stream beginning, put before the bytes in hand.
LEMMA TakenBorrow ==
  ASSUME TypeOK, BorrowStream, out = <<>>, batch = <<>>
  PROVE  /\ Taken' = <<[off |-> Head(pending).off, idx |-> 0]>> \o Taken
         /\ [off |-> Head(pending).off, idx |-> 0] \in Item
<1> DEFINE e == [off |-> Head(pending).off, idx |-> 0]
<1>1. pending \in Seq(Item) /\ pending # <<>> /\ pending' = pending /\ Store(e)
  BY DEF BorrowStream, streamVars, TypeOK
<1>2. e \in Item
  BY <1>1, HeadTailProperties DEF Item
<1>3. out' \o batch' = Append(out \o batch, e)
  BY <1>1, <1>2, TakenStore
<1>4. out \o batch = <<>> /\ Taken = pending
  BY <1>1, ConcatEmptySeq, EmptySeq DEF Taken
<1>5. Append(<<>>, e) = <<e>>
  OBVIOUS
<1>6. QED
  BY <1>1, <1>2, <1>3, <1>4, <1>5 DEF Taken

\* The events of a polled message come after all that was taken before.
LEMMA TakenBytes ==
  ASSUME TypeOK, StreamBytes
  PROVE  Taken' = Taken \o pending'
<1>1. pending = <<>> /\ out' = out /\ batch' = batch
  BY DEF StreamBytes, InRequestBytes, outVars
<1>2. Taken = out \o batch
  BY <1>1, TakenType, ConcatEmptySeq DEF Taken
<1>3. QED
  BY <1>1, <1>2 DEF Taken

\* Without a described trace, nothing has been taken.
LEMMA TakenNothing ==
  ASSUME TypeOK, Lifecycle, newMetadataNeeded
  PROVE  out = <<>> /\ batch = <<>> /\ pending = <<>> /\ Taken = <<>>
<1>1. out = <<>> /\ batch = <<>> /\ pending = <<>>
  BY DEF Lifecycle
<1>2. QED
  BY <1>1, EmptySeq, ConcatEmptySeq DEF Taken

(***************************************************************************)
(* The inductive invariant: the parts that say what exists when.           *)
(***************************************************************************)

\* A return before the stream has begun hands on nothing.
LEMMA ReturnNothing ==
  ASSUME TypeOK, Return(batch), out = <<>>, batch = <<>>
  PROVE  out' = <<>> /\ batch' = <<>>
  BY EmptySeq, ConcatEmptySeq DEF Return

\* Storing an item ends the call or goes on with it.
LEMMA StoreLife ==
  ASSUME NEW e, Store(e)
  PROVE  iter' \in {"idle", iter} /\ (iter' # "idle" \/ iter = "idle" \/ batch' = <<>>)
  BY DEF Store, Return

\* Every step preserves OneMsgIter and Lifecycle.
LEMMA LifecycleStep ==
  ASSUME TypeOK, OneMsgIter, Lifecycle, [Next]_vars
  PROVE  OneMsgIter' /\ Lifecycle'
<1> USE DEF OneMsgIter, Lifecycle
<1>1. CASE TopicStep
  <2>1. CASE Produce
    <3>1. \A o \in 1..Len(log) : log'[o] = log[o]
      BY <2>1, ProduceStep DEF TypeOK
    <3>2. pos' = pos /\ consumer' = consumer /\ (base \in 1..pos => base \in 1..Len(log))
      BY <2>1 DEF Produce, TypeOK, TopicTypeOK
    <3>3. QED
      BY <1>1, <3>1, <3>2 DEF TopicStep, compVars, traceVars, streamVars, outVars, auditVars
  <2>2. CASE AutoCommit
    BY <1>1, <2>2 DEF TopicStep, AutoCommit, compVars, traceVars, streamVars, outVars, auditVars
  <2>3. QED
    BY <1>1, <2>1, <2>2 DEF TopicStep
<1>2. CASE ComponentInit
  BY <1>2 DEF ComponentInit, topicVars, compVars, traceVars, streamVars, outVars, auditVars, TypeOK
<1>3. CASE MsgIterInit
  BY <1>3 DEF MsgIterInit, WantsMsgIter, Subscribe, compVars, traceVars, streamVars, outVars, auditVars
<1>4. CASE MsgIterInitFails
  BY <1>4 DEF MsgIterInitFails, WantsMsgIter, topicVars, compVars, traceVars, streamVars, outVars, auditVars
<1>5. CASE MsgIterInitNoConsumer \/ ComponentFinalize \/ Crash \/ NextNoCtfMsgIter
  <2>1. ProcessGone
    BY <1>5 DEF MsgIterInitNoConsumer, ComponentFinalize, Crash, NextNoCtfMsgIter
  <2>2. QED
    BY <2>1 DEF ProcessGone, LoseConsumer, ForgetMsgIter
<1>6. CASE MsgIterFinalize
  BY <1>6 DEF MsgIterFinalize, CloseConsumer, ForgetMsgIter
<1>7. CASE Cancel
  BY <1>7 DEF Cancel, topicVars, compVars, traceVars, streamVars, outVars, auditVars
<1>8. CASE NextInterrupted
  BY <1>8 DEF NextInterrupted, topicVars, compVars, traceVars, streamVars, outVars, auditVars
<1>9. CASE MetadataTimeout
  BY <1>9 DEF MetadataTimeout, InMetadataUpdate, topicVars, compVars, traceVars, streamVars, outVars, auditVars
<1>10. CASE MetadataPollError
  BY <1>10 DEF MetadataPollError, InMetadataUpdate, topicVars, compVars, traceVars, streamVars, outVars, auditVars
<1>11. CASE NextEnter
  BY <1>11 DEF NextEnter, topicVars, compVars, traceVars, streamVars, outVars, auditVars
<1>12. CASE MetadataDiscard
  <2>1. PICK m \in Messages : Receive(m)
    BY <1>12 DEF MetadataDiscard
  <2>2. pos' \in 1..Len(log) /\ log' = log /\ log[pos'] = m /\ pos' \in Nat
    BY <2>1, ReceiveStep DEF TypeOK, TopicTypeOK
  <2>3. consumer' = consumer
    BY <2>1 DEF Receive
  <2>4. QED
    BY <1>12, <2>1, <2>2, <2>3 DEF MetadataDiscard, InMetadataUpdate, compVars, traceVars, streamVars, outVars, auditVars
<1>13. CASE MetadataNoMemstream
  <2>1. PICK m \in Messages : Receive(m)
    BY <1>13 DEF MetadataNoMemstream
  <2>2. pos' \in 1..Len(log) /\ log' = log /\ log[pos'] = m /\ pos' \in Nat
    BY <2>1, ReceiveStep DEF TypeOK, TopicTypeOK
  <2>3. consumer' = consumer
    BY <2>1 DEF Receive
  <2>4. QED
    BY <1>13, <2>1, <2>2, <2>3 DEF MetadataNoMemstream, InMetadataUpdate, compVars, traceVars, streamVars, outVars, auditVars
<1>14. CASE MetadataRejected
  <2>1. PICK m \in Messages : Receive(m)
    BY <1>14 DEF MetadataRejected
  <2>2. pos' \in 1..Len(log) /\ log' = log /\ log[pos'] = m /\ pos' \in Nat
    BY <2>1, ReceiveStep DEF TypeOK, TopicTypeOK
  <2>3. consumer' = consumer
    BY <2>1 DEF Receive
  <2>4. QED
    BY <1>14, <2>1, <2>2, <2>3 DEF MetadataRejected, InMetadataUpdate, compVars, traceVars, streamVars, outVars, auditVars
<1>15. CASE MetadataNotConfigured
  <2>1. PICK m \in Messages : Receive(m) /\ IsGoodDof(m)
    BY <1>15 DEF MetadataNotConfigured
  <2>2. pos' \in 1..Len(log) /\ log' = log /\ log[pos'] = m /\ pos' \in Nat
    BY <2>1, ReceiveStep DEF TypeOK, TopicTypeOK
  <2>3. consumer' = consumer
    BY <2>1 DEF Receive
  <2>4. QED
    BY <1>15, <2>1, <2>2, <2>3 DEF MetadataNotConfigured, InMetadataUpdate, compVars, traceVars, streamVars, outVars, auditVars
<1>16. CASE MetadataUpdate
  <2>1. PICK m \in Messages : Receive(m) /\ IsGoodDof(m)
    BY <1>16 DEF MetadataUpdate
  <2>2. pos' \in 1..Len(log) /\ log' = log /\ log[pos'] = m /\ pos' \in Nat
    BY <2>1, ReceiveStep DEF TypeOK, TopicTypeOK
  <2>3. consumer' = consumer
    BY <2>1 DEF Receive
  <2>4. QED
    BY <1>16, <2>1, <2>2, <2>3 DEF MetadataUpdate, InMetadataUpdate, compVars, traceVars, streamVars, outVars, auditVars
<1>17. CASE BorrowStream
  <2>1. /\ iter' \in {"idle", iter}
        /\ iter' # "idle" \/ iter = "idle" \/ batch' = <<>>
    BY <1>17, StoreLife DEF BorrowStream
  <2>2. QED
    BY <1>17, <2>1 DEF BorrowStream, InCallback, topicVars, compVars, traceVars, streamVars, outVars, auditVars
<1>18. CASE BorrowStreamFails
  <2>1. Return(batch) /\ out = <<>> /\ batch = <<>>
    BY <1>18 DEF BorrowStreamFails
  <2>2. out' = <<>> /\ batch' = <<>> /\ iter' = "idle"
    BY <2>1, ReturnNothing DEF Return
  <2>3. QED
    BY <1>18, <2>2 DEF BorrowStreamFails, InCallback, topicVars, compVars, traceVars, streamVars, outVars, auditVars
<1>19. CASE DecodeEvent
  <2>1. /\ iter' \in {"idle", iter}
        /\ iter' # "idle" \/ iter = "idle" \/ batch' = <<>>
    BY <1>19, StoreLife DEF DecodeEvent
  <2>2. QED
    BY <1>19, <2>1 DEF DecodeEvent, InCallback, topicVars, compVars, traceVars, streamVars, outVars, auditVars
<1>20. CASE StreamBytes
  <2>1. PICK m \in Messages : Receive(m)
    BY <1>20 DEF StreamBytes
  <2>2. pos' = pos + 1 /\ log' = log /\ consumer' = consumer /\ pos \in Nat
    BY <2>1, ReceiveStep DEF Receive, TypeOK, TopicTypeOK
  <2>3. QED
    BY <1>20, <2>2 DEF StreamBytes, InRequestBytes, InCallback, TypeOK, compVars, traceVars, streamVars, outVars, auditVars
<1>21. CASE StreamDiscard
  <2>1. PICK m \in Messages : Receive(m)
    BY <1>21 DEF StreamDiscard
  <2>2. pos' = pos + 1 /\ log' = log /\ consumer' = consumer /\ pos \in Nat
    BY <2>1, ReceiveStep DEF Receive, TypeOK, TopicTypeOK
  <2>3. StreamAgain /\ Return(batch)
    BY <1>21 DEF StreamDiscard, StreamAgain
  <2>4. ~stream => out' = <<>>
    BY <2>3, ReturnNothing
  <2>5. QED
    BY <1>21, <2>2, <2>3, <2>4
    DEF StreamDiscard, StreamAgain, Return, InRequestBytes, InCallback, TypeOK, compVars, traceVars, streamVars, outVars, auditVars
<1>22. CASE StreamTimeout \/ StreamPartitionEof
  <2>1. StreamAgain /\ Return(batch) /\ InRequestBytes /\ UNCHANGED topicVars
    BY <1>22 DEF StreamTimeout, StreamPartitionEof, StreamAgain
  <2>2. ~stream => out' = <<>>
    BY <2>1, ReturnNothing
  <2>3. QED
    BY <2>1, <2>2 DEF StreamAgain, Return, InRequestBytes, InCallback, topicVars, compVars, traceVars, streamVars, outVars, auditVars
<1>23. CASE StreamPollError
  <2>1. Return(batch)
    BY <1>23 DEF StreamPollError
  <2>2. ~stream => out' = <<>>
    BY <2>1, ReturnNothing
  <2>3. QED
    BY <1>23, <2>1, <2>2
    DEF StreamPollError, Return, InRequestBytes, InCallback, topicVars, compVars, traceVars, streamVars, outVars, auditVars
<1>24. CASE UNCHANGED vars
  BY <1>24 DEF vars, topicVars, compVars, traceVars, streamVars, outVars, auditVars
<1>25. QED
  BY <1>1, <1>2, <1>3, <1>4, <1>5, <1>6, <1>7, <1>8, <1>9, <1>10, <1>11, <1>12, <1>13, <1>14, <1>15, <1>16, <1>17, <1>18, <1>19, <1>20, <1>21, <1>22, <1>23, <1>24 DEF Next, LifeStep, MetadataStep, StreamStep


(***************************************************************************)
(* The inductive invariant: the parts about the items taken.               *)
(***************************************************************************)

\* With nothing taken and nothing passed over, the parts hold.
LEMMA DeliveryOfNothing ==
  ASSUME TypeOK', Taken' = <<>>, pending' = <<>>, stream' = FALSE,
         base' \in {0, pos'}
  PROVE  Delivery'
<1>1. Items(Taken') = {} /\ Items(pending') = {} /\ Len(Taken') = 0
  BY ItemsEmpty
<1>2. base' # 0 => Events(log', base', pos') = {}
  BY NoEvents DEF TypeOK, TopicTypeOK
<1>3. Positions' /\ DeliveryInOrder'
  BY <1>1 DEF Positions, DeliveryInOrder, Ordered
<1>4. StreamBeginsFirst'
  BY <1>1 DEF StreamBeginsFirst
<1>5. NothingSkipped'
  BY <1>1, <1>2 DEF NothingSkipped
<1>6. QED
  BY <1>3, <1>4, <1>5 DEF Delivery

\* The parts hold on when the items stay, and no position, or one without
\* stream data, is passed over.
LEMMA DeliveryKept ==
  ASSUME TypeOK, TypeOK', Lifecycle, Delivery,
         Taken' = Taken, Items(pending') \subseteq Items(pending),
         stream' = stream, base' = base,
         \A o \in 1..pos : log'[o] = log[o],
         \/ pos' = pos
         \/ pos' = pos + 1 /\ log'[pos'].key # "ddtrace"
  PROVE  Delivery'
<1> USE DEF Delivery
<1>1. pos \in Nat /\ base \in Nat /\ (base # 0 => base <= pos)
  BY DEF TypeOK, TopicTypeOK, Lifecycle
<1>2. Items(Taken) \subseteq Item
  BY TakenType, ItemsType
<1>3. Positions'
  BY <1>1, <1>2 DEF Positions, Item, IsData
<1>4. DeliveryInOrder' /\ StreamBeginsFirst'
  BY DEF DeliveryInOrder, StreamBeginsFirst
<1>5. NothingSkipped'
  <2>1. Events(log', base, pos) = Events(log, base, pos)
    BY <1>1, EventsStable
  <2>2. base # 0 => Events(log', base, pos') = Events(log', base, pos)
    BY <1>1, EventsGrow
  <2>3. QED
    BY <2>1, <2>2 DEF NothingSkipped
<1>6. QED
  BY <1>3, <1>4, <1>5

LEMMA DeliveryBorrow ==
  ASSUME TypeOK, TypeOK', Lifecycle, Delivery, BorrowStream
  PROVE  Delivery'
<1> USE DEF Delivery
<1> DEFINE e == [off |-> Head(pending).off, idx |-> 0]
<1>1. /\ out = <<>> /\ batch = <<>> /\ ~stream /\ stream' = TRUE
      /\ pending # <<>> /\ pending' = pending
      /\ base' = base /\ pos' = pos /\ log' = log
  BY DEF BorrowStream, Lifecycle, traceVars, topicVars
<1>2. Taken' = <<e>> \o Taken /\ e \in Item
  BY <1>1, TakenBorrow
<1>3. Taken = pending /\ Taken \in Seq(Item) /\ <<e>> \in Seq(Item)
  BY <1>1, <1>2, ConcatEmptySeq, EmptySeq DEF Taken, TypeOK
<1>4. Items(<<e>>) = {e} /\ Ordered(<<e>>)
  BY DEF Items, Ordered
<1>5. Items(Taken') = {e} \cup Items(Taken)
  BY <1>2, <1>3, <1>4, ItemsConcat
<1>6. Len(Taken) \in Nat \ {0} /\ Head(pending) = Taken[1] /\ Taken[1] \in Items(Taken)
  BY <1>1, <1>3, EmptySeq DEF Items
<1>7. Items(Taken) \subseteq Item
  BY <1>3, ItemsType
<1>8. \A x \in Items(Taken) : Before(e, x)
  <2>1. ASSUME NEW x \in Items(Taken)
        PROVE  Before(e, x)
    <3>1. PICK i \in 1..Len(Taken) : x = Taken[i]
      BY DEF Items
    <3>2. x.idx > 0
      BY <1>3 DEF Positions
    <3>3. CASE i = 1
      BY <1>6, <3>1, <3>2, <3>3 DEF Before
    <3>4. CASE i # 1
      <4>1. 1 < i /\ 1 \in 1..Len(Taken)
        BY <1>6, <3>1, <3>4
      <4>2. Before(Taken[1], x)
        BY <3>1, <4>1 DEF DeliveryInOrder, Ordered
      <4>3. x \in Item /\ Taken[1] \in Item
        BY <1>6, <1>7
      <4>4. QED
        BY <1>6, <3>2, <4>2, <4>3 DEF Before, Item
    <3>5. QED
      BY <3>3, <3>4
  <2>2. QED
    BY <2>1
<1>9. DeliveryInOrder'
  BY <1>2, <1>3, <1>4, <1>8, OrderedConcat DEF DeliveryInOrder
<1>10. Positions'
  BY <1>1, <1>5, <1>6 DEF Positions
<1>11. StreamBeginsFirst'
  <2>1. /\ Len(Taken') = 1 + Len(Taken)
        /\ Taken'[1] = e
        /\ \A i \in 2..1 + Len(Taken) : Taken'[i] = Taken[i - 1]
    BY <1>2, <1>3, <1>6, ConcatProperties
  <2>2. \A i \in 1..Len(Taken) : Taken[i].idx # 0
    BY <1>1, <1>6 DEF StreamBeginsFirst
  <2>3. \A i \in 2..1 + Len(Taken) : Taken'[i].idx # 0
    BY <1>6, <2>1, <2>2
  <2>4. Taken' # <<>>
    BY <1>6, <2>1
  <2>5. QED
    BY <1>1, <1>6, <2>1, <2>3, <2>4 DEF StreamBeginsFirst
<1>12. NothingSkipped'
  BY <1>1, <1>5 DEF NothingSkipped
<1>13. QED
  BY <1>9, <1>10, <1>11, <1>12

LEMMA DeliveryBytes ==
  ASSUME TypeOK, TypeOK', Lifecycle, Delivery, StreamBytes
  PROVE  Delivery'
<1> USE DEF Delivery
<1>1. PICK n \in Nat : /\ Len(pending') = n
                       /\ log[pos + 1].key = "ddtrace"
                       /\ log[pos + 1].events = n
                       /\ \A i \in 1..n : pending'[i] = [off |-> pos + 1, idx |-> i]
  BY BytesType
<1>2. /\ Taken' = Taken \o pending'
      /\ Taken \in Seq(Item)
      /\ pending' \in Seq(Item)
  BY TakenBytes, TakenType, BytesType
<1>3. pos' = pos + 1 /\ log' = log /\ pos \in Nat
  <2>1. PICK m \in Messages : Receive(m)
    BY DEF StreamBytes
  <2>2. QED
    BY <2>1, ReceiveStep DEF TypeOK, TopicTypeOK
<1>4. base' = base /\ stream' = stream /\ base \in 1..pos /\ pending = <<>>
  BY DEF StreamBytes, InRequestBytes, InCallback, traceVars, Lifecycle
<1>5. Items(pending') = EventsOf(log, pos + 1)
  BY <1>1 DEF Items, EventsOf
<1>6. Items(Taken') = Items(Taken) \cup EventsOf(log, pos + 1)
  BY <1>2, <1>5, ItemsConcat
<1>7. \A x \in EventsOf(log, pos + 1) : x.off = pos + 1 /\ x.idx \in Nat /\ x.idx > 0
  BY <1>1 DEF EventsOf
<1>8. Items(Taken) \subseteq Item
  BY <1>2, ItemsType
<1>9. Positions'
  <2>1. \A x \in Items(Taken) : x.off \in (base + 1)..(pos + 1) /\ IsData(log[x.off])
    BY <1>3, <1>4, <1>8 DEF Positions, Item
  <2>2. IsData(log[pos + 1])
    BY <1>1 DEF IsData
  <2>3. QED
    BY <1>3, <1>4, <1>5, <1>6, <1>7, <2>1, <2>2 DEF Positions
<1>10. DeliveryInOrder'
  <2>1. \A x \in Items(Taken), y \in Items(pending') : Before(x, y)
    BY <1>3, <1>4, <1>5, <1>7, <1>8 DEF Positions, Before, Item
  <2>2. Ordered(pending')
    BY <1>1, <1>3 DEF Ordered, Before
  <2>3. QED
    BY <1>2, <2>1, <2>2, OrderedConcat DEF DeliveryInOrder
<1>11. StreamBeginsFirst'
  <2>1. /\ Len(Taken') = Len(Taken) + n
        /\ \A i \in 1..Len(Taken) + n : Taken'[i] =
             IF i <= Len(Taken) THEN Taken[i] ELSE pending'[i - Len(Taken)]
        /\ Len(Taken) \in Nat
    <3> DEFINE p == pending'
    <3>1. /\ Len(Taken \o p) = Len(Taken) + Len(p)
          /\ \A i \in 1..Len(Taken) + Len(p) : (Taken \o p)[i] =
               IF i <= Len(Taken) THEN Taken[i] ELSE p[i - Len(Taken)]
      <4>1. p \in Seq(Item) /\ Taken \in Seq(Item)
        BY <1>2
      <4> HIDE DEF p
      <4>2. QED
        BY <4>1, ConcatProperties
    <3>2. Len(p) = n /\ Taken' = Taken \o p
      BY <1>1, <1>2
    <3>3. Len(Taken) \in Nat
      BY <1>2, LenProperties
    <3> HIDE DEF p
    <3>4. /\ Len(Taken') = Len(Taken) + n
          /\ \A i \in 1..Len(Taken) + n : Taken'[i] =
               IF i <= Len(Taken) THEN Taken[i] ELSE p[i - Len(Taken)]
      BY <3>1, <3>2
    <3>5. QED
      BY <3>3, <3>4 DEF p
  <2>2. \A i \in 1..Len(Taken) + n :
          i > Len(Taken) => Taken'[i].idx = i - Len(Taken)
    BY <1>1, <2>1
  <2>3. \A i \in 1..Len(Taken) + n : Taken'[i].idx = 0 => i = 1
    BY <1>1, <2>1, <2>2 DEF StreamBeginsFirst
  <2>4. CASE Taken = <<>>
    <3>1. ~stream /\ Len(Taken) = 0
      BY <2>4, EmptySeq DEF StreamBeginsFirst
    <3>2. Taken' # <<>> => 1 \in 1..n
      BY <1>1, <1>2, <2>1, <3>1, EmptySeq, ConcatProperties
    <3>3. Taken' # <<>> => Taken'[1].idx = 1
      BY <2>1, <2>2, <3>1, <3>2
    <3>4. QED
      BY <1>4, <2>1, <2>3, <3>1, <3>3 DEF StreamBeginsFirst
  <2>5. CASE Taken # <<>>
    <3>1. Len(Taken) \in Nat \ {0}
      BY <1>2, <2>5, EmptySeq
    <3>2. Taken'[1] = Taken[1] /\ Taken' # <<>>
      BY <1>1, <2>1, <3>1
    <3>3. QED
      BY <1>4, <2>1, <2>3, <2>5, <3>2 DEF StreamBeginsFirst
  <2>6. QED
    BY <2>4, <2>5
<1>12. NothingSkipped'
  <2>1. Events(log, base, pos + 1) = Events(log, base, pos) \cup EventsOf(log, pos + 1)
    <3>1. base \in Nat /\ pos \in Nat /\ base <= pos
      BY <1>3, <1>4
    <3>2. log[pos + 1].key = "ddtrace"
      BY <1>1
    <3>3. QED
      BY <3>1, <3>2, EventsGrow
  <2>2. QED
    BY <1>3, <1>4, <1>6, <1>7, <2>1 DEF NothingSkipped
<1>13. QED
  BY <1>9, <1>10, <1>11, <1>12
\* Items nobody touches stay taken.
LEMMA TakenSame ==
  ASSUME UNCHANGED outVars, pending' = pending
  PROVE  Taken' = Taken
  BY DEF Taken, outVars

\* An iterator that is forgotten takes its items along.
LEMMA TakenForgotten ==
  ASSUME ForgetMsgIter
  PROVE  Taken' = <<>> /\ pending' = <<>> /\ stream' = FALSE /\ base' = 0
<1>1. out' = <<>> /\ batch' = <<>> /\ pending' = <<>>
  BY DEF ForgetMsgIter
<1>2. <<>> \in Seq(Item)
  BY EmptySeq
<1>3. <<>> \o <<>> = <<>>
  BY <1>2, ConcatEmptySeq
<1>4. QED
  BY <1>1, <1>3 DEF Taken, ForgetMsgIter

\* Every step preserves Delivery.
LEMMA DeliveryStep ==
  ASSUME TypeOK, TypeOK', Lifecycle, Delivery, [Next]_vars
  PROVE  Delivery'
<1>1. CASE TopicStep
  <2>1. UNCHANGED <<outVars, streamVars, traceVars>> /\ pos' = pos
    BY <1>1 DEF TopicStep, Produce, AutoCommit
  <2>2. \A o \in 1..pos : log'[o] = log[o]
    <3>1. CASE Produce
      <4>1. pos \in 0..Len(log) /\ Len(log) \in Nat
        BY LenProperties DEF TypeOK, TopicTypeOK
      <4>2. QED
        BY <3>1, <4>1, ProduceStep DEF TypeOK
    <3>2. CASE AutoCommit
      BY <3>2 DEF AutoCommit
    <3>3. QED
      BY <1>1, <3>1, <3>2 DEF TopicStep
  <2>3. Taken' = Taken /\ pending' = pending /\ stream' = stream /\ base' = base
    BY <2>1, TakenSame DEF streamVars, traceVars
  <2>4. QED
    BY <2>1, <2>2, <2>3, DeliveryKept
<1>2. CASE ComponentInit \/ MsgIterInitFails \/ Cancel \/ NextInterrupted
  <2>1. UNCHANGED <<outVars, streamVars, traceVars>> /\ pos' = pos /\ log' = log
    BY <1>2 DEF ComponentInit, MsgIterInitFails, Cancel, NextInterrupted, topicVars
  <2>2. Taken' = Taken /\ pending' = pending /\ stream' = stream /\ base' = base
    BY <2>1, TakenSame DEF streamVars, traceVars
  <2>3. QED
    BY <2>1, <2>2, DeliveryKept
<1>3. CASE MetadataTimeout \/ MetadataPollError \/ NextEnter
  <2>1. UNCHANGED <<outVars, streamVars, traceVars>> /\ pos' = pos /\ log' = log
    BY <1>3 DEF MetadataTimeout, MetadataPollError, NextEnter, topicVars
  <2>2. Taken' = Taken /\ pending' = pending /\ stream' = stream /\ base' = base
    BY <2>1, TakenSame DEF streamVars, traceVars
  <2>3. QED
    BY <2>1, <2>2, DeliveryKept
<1>4. CASE UNCHANGED vars
  <2>1. UNCHANGED <<outVars, streamVars, traceVars>> /\ pos' = pos /\ log' = log
    BY <1>4 DEF vars, topicVars
  <2>2. Taken' = Taken /\ pending' = pending /\ stream' = stream /\ base' = base
    BY <2>1, TakenSame DEF streamVars, traceVars
  <2>3. QED
    BY <2>1, <2>2, DeliveryKept
<1>5. CASE MsgIterInit
  <2>1. newMetadataNeeded /\ UNCHANGED <<outVars, streamVars, traceVars>>
    BY <1>5 DEF MsgIterInit, WantsMsgIter, Lifecycle
  <2>2. Taken' = <<>> /\ pending' = <<>> /\ stream' = FALSE /\ base' = 0
    BY <2>1, TakenNothing, TakenSame DEF streamVars, traceVars, Lifecycle, TypeOK
  <2>3. QED
    BY <2>2, DeliveryOfNothing
<1>6. CASE MsgIterInitNoConsumer \/ ComponentFinalize \/ Crash \/ NextNoCtfMsgIter \/ MsgIterFinalize
  <2>1. ForgetMsgIter
    BY <1>6 DEF MsgIterInitNoConsumer, ComponentFinalize, Crash, NextNoCtfMsgIter, MsgIterFinalize, ProcessGone
  <2>2. QED
    BY <2>1, TakenForgotten, DeliveryOfNothing
<1>7. CASE MetadataDiscard
  <2>1. PICK m \in Messages : Receive(m)
    BY <1>7 DEF MetadataDiscard
  <2>2. pos' = pos + 1 /\ log' = log
    BY <2>1, ReceiveStep DEF TypeOK
  <2>3. /\ newMetadataNeeded /\ ~stream /\ UNCHANGED <<outVars, streamVars>>
        /\ base' \in {base, pos'}
    BY <1>7 DEF MetadataDiscard, InMetadataUpdate, Lifecycle, traceVars
  <2>4. base' \in {0, pos'}
    BY <2>3 DEF Lifecycle
  <2>5. Taken' = <<>> /\ pending' = <<>> /\ stream' = FALSE
    BY <2>3, TakenNothing, TakenSame DEF streamVars, TypeOK
  <2>6. QED
    BY <2>4, <2>5, DeliveryOfNothing
<1>8. CASE MetadataNoMemstream
  <2>1. PICK m \in Messages : Receive(m)
    BY <1>8 DEF MetadataNoMemstream
  <2>2. pos' = pos + 1 /\ log' = log
    BY <2>1, ReceiveStep DEF TypeOK
  <2>3. /\ newMetadataNeeded /\ ~stream /\ UNCHANGED <<outVars, streamVars>>
        /\ base' \in {base, pos'}
    BY <1>8 DEF MetadataNoMemstream, InMetadataUpdate, Lifecycle, traceVars
  <2>4. base' \in {0, pos'}
    BY <2>3 DEF Lifecycle
  <2>5. Taken' = <<>> /\ pending' = <<>> /\ stream' = FALSE
    BY <2>3, TakenNothing, TakenSame DEF streamVars, TypeOK
  <2>6. QED
    BY <2>4, <2>5, DeliveryOfNothing
<1>9. CASE MetadataRejected
  <2>1. PICK m \in Messages : Receive(m)
    BY <1>9 DEF MetadataRejected
  <2>2. pos' = pos + 1 /\ log' = log
    BY <2>1, ReceiveStep DEF TypeOK
  <2>3. /\ newMetadataNeeded /\ ~stream /\ UNCHANGED <<outVars, streamVars>>
        /\ base' \in {base, pos'}
    BY <1>9 DEF MetadataRejected, InMetadataUpdate, Lifecycle, traceVars
  <2>4. base' \in {0, pos'}
    BY <2>3 DEF Lifecycle
  <2>5. Taken' = <<>> /\ pending' = <<>> /\ stream' = FALSE
    BY <2>3, TakenNothing, TakenSame DEF streamVars, TypeOK
  <2>6. QED
    BY <2>4, <2>5, DeliveryOfNothing
<1>10. CASE MetadataNotConfigured
  <2>1. PICK m \in Messages : Receive(m)
    BY <1>10 DEF MetadataNotConfigured
  <2>2. pos' = pos + 1 /\ log' = log
    BY <2>1, ReceiveStep DEF TypeOK
  <2>3. /\ newMetadataNeeded /\ ~stream /\ UNCHANGED <<outVars, streamVars>>
        /\ base' \in {base, pos'}
    BY <1>10 DEF MetadataNotConfigured, InMetadataUpdate, Lifecycle, traceVars
  <2>4. base' \in {0, pos'}
    BY <2>3 DEF Lifecycle
  <2>5. Taken' = <<>> /\ pending' = <<>> /\ stream' = FALSE
    BY <2>3, TakenNothing, TakenSame DEF streamVars, TypeOK
  <2>6. QED
    BY <2>4, <2>5, DeliveryOfNothing
<1>11. CASE MetadataUpdate
  <2>1. PICK m \in Messages : Receive(m)
    BY <1>11 DEF MetadataUpdate
  <2>2. pos' = pos + 1 /\ log' = log
    BY <2>1, ReceiveStep DEF TypeOK
  <2>3. /\ newMetadataNeeded /\ ~stream /\ UNCHANGED <<outVars, streamVars>>
        /\ base' \in {base, pos'}
    BY <1>11 DEF MetadataUpdate, InMetadataUpdate, Lifecycle, traceVars
  <2>4. base' \in {0, pos'}
    BY <2>3 DEF Lifecycle
  <2>5. Taken' = <<>> /\ pending' = <<>> /\ stream' = FALSE
    BY <2>3, TakenNothing, TakenSame DEF streamVars, TypeOK
  <2>6. QED
    BY <2>4, <2>5, DeliveryOfNothing
<1>12. CASE BorrowStream
  BY <1>12, DeliveryBorrow
<1>13. CASE BorrowStreamFails
  <2>1. /\ Return(batch) /\ UNCHANGED <<topicVars, traceVars, streamVars>>
    BY <1>13 DEF BorrowStreamFails
  <2>2. QED
    BY <2>1, TakenReturn, DeliveryKept DEF topicVars, traceVars, streamVars
<1>14. CASE DecodeEvent
  <2>1. UNCHANGED <<topicVars, traceVars, stream>>
    BY <1>14 DEF DecodeEvent
  <2>2. QED
    BY <1>14, <2>1, TakenDecode, DeliveryKept DEF topicVars, traceVars
<1>15. CASE StreamBytes
  BY <1>15, DeliveryBytes
<1>16. CASE StreamDiscard
  <2>1. PICK m \in Messages : Receive(m) /\ ~IsData(m)
    BY <1>16 DEF StreamDiscard
  <2>2. pos' = pos + 1 /\ log' = log /\ log[pos'] = m
    BY <2>1, ReceiveStep DEF TypeOK
  <2>3. Return(batch) /\ UNCHANGED <<traceVars, stream, pending>>
    BY <1>16 DEF StreamDiscard, StreamAgain
  <2>4. log'[pos'].key # "ddtrace"
    BY <2>1, <2>2 DEF IsData
  <2>5. QED
    BY <2>2, <2>3, <2>4, TakenReturn, DeliveryKept DEF traceVars
<1>17. CASE StreamTimeout \/ StreamPartitionEof \/ StreamPollError
  <2>1. /\ Return(batch) /\ UNCHANGED <<traceVars, stream, pending>>
        /\ pos' = pos /\ log' = log
    BY <1>17 DEF StreamTimeout, StreamPartitionEof, StreamPollError, StreamAgain, topicVars
  <2>2. QED
    BY <2>1, TakenReturn, DeliveryKept DEF traceVars
<1>18. QED
  BY <1>1, <1>2, <1>3, <1>4, <1>5, <1>6, <1>7, <1>8, <1>9, <1>10, <1>11, <1>12, <1>13, <1>14, <1>15, <1>16, <1>17
  DEF Next, LifeStep, MetadataStep, StreamStep

(***************************************************************************)
(* The theorems.                                                           *)
(***************************************************************************)

LEMMA InitInv == Init => IInv
<1>1. Init => OneMsgIter /\ Lifecycle
  BY DEF Init, TopicInit, OneMsgIter, Lifecycle
<1>2. Init /\ TypeOK => Delivery
  <2>1. SUFFICES ASSUME Init, TypeOK
                 PROVE  Delivery
    OBVIOUS
  <2>2. newMetadataNeeded /\ base = 0 /\ stream = FALSE
    BY <2>1 DEF Init
  <2>3. Taken = <<>> /\ pending = <<>>
    BY <1>1, <2>1, <2>2, TakenNothing
  <2>4. Items(Taken) = {} /\ Items(pending) = {} /\ Len(Taken) = 0
    BY <2>3, ItemsEmpty
  <2>5. QED
    BY <2>2, <2>3, <2>4
    DEF Delivery, Positions, DeliveryInOrder, Ordered, StreamBeginsFirst, NothingSkipped
<1>3. QED
  BY <1>1, <1>2, InitType DEF IInv

LEMMA NextInv == IInv /\ [Next]_vars => IInv'
<1>1. SUFFICES ASSUME IInv, [Next]_vars
               PROVE  IInv'
  OBVIOUS
<1>2. TypeOK'
  BY <1>1, TypeStep DEF IInv
<1>3. OneMsgIter' /\ Lifecycle'
  BY <1>1, LifecycleStep DEF IInv
<1>4. Delivery'
  BY <1>1, <1>2, DeliveryStep DEF IInv
<1>5. QED
  BY <1>2, <1>3, <1>4 DEF IInv

\* The inductive invariant: the types, what exists when, and what was taken.
THEOREM Invariance == Spec => []IInv
<1>1. QED
  BY InitInv, NextInv, PTL DEF Spec

\* Items are taken in topic order and none twice, for every size of the
\* graph's array and every mix of messages, errors and interruptions.
THEOREM InOrder == Spec => []DeliveryInOrder
  BY Invariance, PTL DEF IInv, Delivery

\* No event polled after the DOF is lost on its way to the graph.
THEOREM NoneSkipped == Spec => []NothingSkipped
  BY Invariance, PTL DEF IInv, Delivery

\* The graph sees the stream beginning before any event, and once.
THEOREM BeginsFirst == Spec => []StreamBeginsFirst
  BY Invariance, PTL DEF IInv, Delivery

\* The iterator flag, the consumer and the configuration stay together.
THEOREM OneIterator == Spec => []OneMsgIter
  BY Invariance, PTL DEF IInv

\* Whatever is decoded was described by a DOF this iterator decoded before it.
THEOREM DescribedFirst == Spec => []MetadataFirst
<1>1. IInv => MetadataFirst
  <2>1. SUFFICES ASSUME IInv, NEW e \in Items(Taken)
                 PROVE  /\ base \in 1..(e.off - 1)
                        /\ IsGoodDof(log[base])
                        /\ irTrace = "ready"
                        /\ ctfMsgIter
    BY DEF MetadataFirst
  <2>2. Taken # <<>>
    BY <2>1, ItemsEmpty
  <2>3. ctfMsgIter
    <3>1. ~ctfMsgIter => out = <<>> /\ batch = <<>> /\ pending = <<>>
      BY <2>1 DEF IInv, Lifecycle
    <3>2. ~ctfMsgIter => Taken = <<>>
      BY <3>1, EmptySeq, ConcatEmptySeq DEF Taken
    <3>3. QED
      BY <2>2, <3>2
  <2>4. ~newMetadataNeeded
    BY <2>1, <2>3 DEF IInv, Lifecycle
  <2>5. base \in 1..pos /\ IsGoodDof(log[base]) /\ irTrace = "ready"
    BY <2>1, <2>4 DEF IInv, Lifecycle
  <2>6. e.off \in (base + 1)..pos
    BY <2>1 DEF IInv, Delivery, Positions
  <2>7. pos \in Nat
    BY <2>1 DEF IInv, TypeOK, TopicTypeOK
  <2>8. QED
    BY <2>3, <2>5, <2>6, <2>7
<1>2. QED
  BY <1>1, Invariance, PTL

\* Nothing reaches the graph once an interruption was noticed.
THEOREM InterruptedForGood == Spec => InterruptIsFinal
<1> DEFINE Quiet == wasInterrupted /\ iter' # "none" => wasInterrupted' /\ out' = out
<1>1. IInv /\ [Next]_vars => [Quiet]_vars
  <2>1. SUFFICES ASSUME IInv, Next, wasInterrupted, iter' # "none"
                 PROVE  wasInterrupted' /\ out' = out
    OBVIOUS
  <2>2. iter # "batch" /\ iter # "none"
    BY <2>1 DEF IInv, Lifecycle
  <2>3. CASE TopicStep
    BY <2>1, <2>3 DEF TopicStep, outVars
  <2>4. CASE LifeStep
    BY <2>1, <2>2, <2>4 DEF LifeStep, ComponentInit, MsgIterInit, MsgIterInitFails, MsgIterInitNoConsumer,
         MsgIterFinalize, ComponentFinalize, Crash, WantsMsgIter, ProcessGone, ForgetMsgIter, outVars
  <2>5. CASE Cancel \/ NextInterrupted
    BY <2>1, <2>5 DEF Cancel, NextInterrupted, outVars
  <2>6. CASE MetadataStep \/ NextEnter \/ NextNoCtfMsgIter
    BY <2>1, <2>6 DEF MetadataStep, MetadataTimeout, MetadataPollError, MetadataDiscard, MetadataNoMemstream,
         MetadataRejected, MetadataNotConfigured, MetadataUpdate, InMetadataUpdate, NextEnter, NextNoCtfMsgIter
  <2>7. CASE StreamStep
    BY <2>2, <2>7 DEF StreamStep, BorrowStream, BorrowStreamFails, DecodeEvent, StreamBytes, StreamDiscard,
         StreamTimeout, StreamPartitionEof, StreamPollError, InRequestBytes, InCallback
  <2>8. QED
    BY <2>1, <2>3, <2>4, <2>5, <2>6, <2>7 DEF Next
<1>2. QED
  BY <1>1, Invariance, PTL DEF Spec, InterruptIsFinal

(***************************************************************************)
(* The source implements OrderedDelivery.                                  *)
(***************************************************************************)

\* The abstract specification speaks of the same items and the same order.
LEMMA SameVocabulary ==
  /\ \A s : Abstract!Items(s) = Items(s)
  /\ \A s : Abstract!Ordered(s) <=> Ordered(s)
  /\ \A a, b : Abstract!Before(a, b) <=> Before(a, b)
  /\ \A t, from, to : Abstract!DataOffsets(t, from, to) = DataOffsets(t, from, to)
  /\ \A t, from, to : Abstract!Events(t, from, to) = Events(t, from, to)
<1>1. \A s : Abstract!Items(s) = Items(s)
  BY DEF Abstract!Items, Items
<1>2. \A a, b : Abstract!Before(a, b) <=> Before(a, b)
  BY DEF Abstract!Before, Before
<1>3. \A s : Abstract!Ordered(s) <=> Ordered(s)
  BY <1>2 DEF Abstract!Ordered, Ordered
<1>4. \A t, from, to : Abstract!DataOffsets(t, from, to) = DataOffsets(t, from, to)
  BY DEF Abstract!DataOffsets, DataOffsets
<1>5. \A t, o : Abstract!EventsOf(t, o) = EventsOf(t, o)
  BY DEF Abstract!EventsOf, EventsOf
<1>6. \A t, from, to : Abstract!Events(t, from, to) = Events(t, from, to)
  BY <1>4, <1>5 DEF Abstract!Events, Events
<1>7. QED
  BY <1>1, <1>2, <1>3, <1>4, <1>6

\* What is due: the events of the stream data after the DOF, and a beginning
\* at the first of its messages.
LEMMA DueIs ==
  ASSUME NEW d
  PROVE  d \in Abstract!Due(base) <=>
           \/ d \in Events(log, base, Len(log))
           \/ /\ d = [off |-> d.off, idx |-> 0]
              /\ d.off \in DataOffsets(log, base, Len(log))
              /\ \A p \in DataOffsets(log, base, Len(log)) : d.off <= p
<1> DEFINE data == DataOffsets(log, base, Len(log))
           first == {o \in data : \A p \in data : o <= p}
<1>1. Abstract!Due(base) = Events(log, base, Len(log)) \cup {[off |-> o, idx |-> 0] : o \in first}
  BY SameVocabulary DEF Abstract!Due
<1>2. QED
  BY <1>1

\* What has been handed on is a prefix of what is due, if all events up to some
\* position q are in s or in the rest p that follows it.
LEMMA DuePrefix ==
  ASSUME log \in Seq(Messages), base \in Nat,
         NEW s \in Seq(Item), NEW p \in Seq(Item), NEW q \in Nat, q <= Len(log),
         Ordered(s \o p),
         \A e \in Items(s \o p) : e.off \in (base + 1)..q /\ IsData(log[e.off]),
         {e \in Items(s \o p) : e.idx > 0} = Events(log, base, q),
         \A i \in 1..Len(s \o p) : (s \o p)[i].idx = 0 => i = 1,
         s # <<>>, (s \o p)[1].idx = 0
  PROVE  Abstract!IsDuePrefix(s)
<1> DEFINE t == s \o p
<1>1. /\ t \in Seq(Item) /\ Len(t) = Len(s) + Len(p)
      /\ Len(s) \in Nat \ {0} /\ Len(p) \in Nat /\ Len(log) \in Nat
      /\ \A i \in 1..Len(s) : t[i] = s[i]
      /\ \A i \in 1..Len(p) : t[i + Len(s)] = p[i]
      /\ Items(t) = Items(s) \cup Items(p)
  <2>1. /\ t \in Seq(Item) /\ Len(t) = Len(s) + Len(p)
        /\ \A i \in 1..Len(s) + Len(p) : t[i] = IF i <= Len(s) THEN s[i] ELSE p[i - Len(s)]
    BY ConcatProperties
  <2>2. Len(s) \in Nat \ {0} /\ Len(p) \in Nat /\ Len(log) \in Nat
    BY EmptySeq, LenProperties
  <2> HIDE DEF t
  <2>3. \A i \in 1..Len(p) : i + Len(s) \in 1..Len(s) + Len(p) /\ ~(i + Len(s) <= Len(s))
    BY <2>2
  <2>4. \A i \in 1..Len(s) : i \in 1..Len(s) + Len(p) /\ i <= Len(s)
    BY <2>2
  <2>5. \A i \in 1..Len(p) : (i + Len(s)) - Len(s) = i
    BY <2>2
  <2>6. \A i \in 1..Len(s) : t[i] = s[i]
    BY <2>1, <2>4
  <2>7. \A i \in 1..Len(p) : t[i + Len(s)] = p[i]
    BY <2>1, <2>3, <2>5
  <2>8. Items(t) = Items(s) \cup Items(p)
    BY ItemsConcat DEF t
  <2>9. QED
    BY <2>1, <2>2, <2>6, <2>7, <2>8
<1>2. /\ Ordered(t)
      /\ \A e \in Items(t) : e.off \in (base + 1)..q /\ IsData(log[e.off])
      /\ {e \in Items(t) : e.idx > 0} = Events(log, base, q)
      /\ \A i \in 1..Len(t) : t[i].idx = 0 => i = 1
      /\ t[1].idx = 0
  OBVIOUS
<1> HIDE DEF t
<1>3. Items(t) \subseteq Item
  BY <1>1, ItemsType
<1>4. t[1] \in Items(s) /\ t[1] \in Items(t)
  BY <1>1 DEF Items
<1>5. \A e \in Items(t) : e = t[1] \/ Before(t[1], e)
  BY <1>1, <1>2 DEF Items, Ordered
<1>6. \A e \in Items(t) : e.idx = 0 => e = t[1]
  BY <1>2 DEF Items
\* Every message of stream data up to q has a first event, which is in t.
<1>7. \A o \in DataOffsets(log, base, q) : [off |-> o, idx |-> 1] \in Items(t)
  <2>1. SUFFICES ASSUME NEW o \in DataOffsets(log, base, q)
                 PROVE  [off |-> o, idx |-> 1] \in Events(log, base, q)
    BY <1>2
  <2>2. o \in 1..Len(log) /\ log[o].key = "ddtrace"
    BY <1>1 DEF DataOffsets
  <2>3. log[o] \in Messages
    BY <2>2, ElementOfSeq
  <2>4. log[o].events \in Nat /\ log[o].events > 0
    BY <2>2, <2>3, MessageType, TopicAssumption DEF IsData
  <2>5. [off |-> o, idx |-> 1] \in EventsOf(log, o)
    BY <2>4 DEF EventsOf
  <2>6. QED
    BY <2>5 DEF Events
\* The beginning stands at the first message of stream data.
<1>8. /\ t[1].off \in DataOffsets(log, base, Len(log))
      /\ \A o \in DataOffsets(log, base, Len(log)) : t[1].off <= o
      /\ t[1] = [off |-> t[1].off, idx |-> 0]
  <2>1. t[1].off \in (base + 1)..q /\ IsData(log[t[1].off])
    BY <1>2, <1>4
  <2>2. t[1].off \in DataOffsets(log, base, Len(log))
    BY <1>1, <2>1 DEF DataOffsets, IsData
  <2>3. ASSUME NEW o \in DataOffsets(log, base, Len(log))
        PROVE  t[1].off <= o
    <3>1. CASE o <= q
      <4>1. o \in DataOffsets(log, base, q)
        BY <3>1 DEF DataOffsets
      <4>2. PICK e \in Items(t) : e.off = o
        BY <1>7, <4>1
      <4>3. t[1].off \in Nat /\ e.off \in Nat
        BY <1>3, <1>4 DEF Item
      <4>4. e = t[1] \/ t[1].off < e.off \/ t[1].off = e.off
        BY <1>5 DEF Before
      <4>5. QED
        BY <4>2, <4>3, <4>4
    <3>2. CASE ~(o <= q)
      BY <1>1, <2>1, <3>2 DEF DataOffsets
    <3>3. QED
      BY <3>1, <3>2
  <2>4. t[1] \in Item
    BY <1>3, <1>4
  <2>5. t[1] = [off |-> t[1].off, idx |-> 0]
    BY <1>2, <2>4 DEF Item
  <2>6. QED
    BY <2>2, <2>3, <2>5
<1>9. Ordered(s)
  <2>1. \A i \in 1..Len(s) : i \in 1..Len(t)
    BY <1>1
  <2>2. \A i, j \in 1..Len(t) : i < j => Before(t[i], t[j])
    BY <1>2 DEF Ordered
  <2>3. \A i, j \in 1..Len(s) : i < j => Before(s[i], s[j])
    BY <1>1, <2>1, <2>2
  <2>4. QED
    BY <2>3 DEF Ordered
<1>10. \A o \in DataOffsets(log, base, q) : o \in DataOffsets(log, base, Len(log))
  BY <1>1 DEF DataOffsets
<1>11. Items(s) \subseteq Abstract!Due(base)
  <2>1. ASSUME NEW e \in Items(s)
        PROVE  e \in Abstract!Due(base)
    <3>1. e \in Items(t) /\ e \in Item
      BY <1>1, <1>3
    <3>2. CASE e.idx = 0
      BY <1>6, <1>8, <3>1, <3>2, DueIs
    <3>3. CASE e.idx > 0
      <4>1. e \in Events(log, base, q)
        BY <1>2, <3>1, <3>3
      <4>2. e \in Events(log, base, Len(log))
        BY <1>10, <4>1 DEF Events
      <4>3. QED
        BY <4>2, DueIs
    <3>4. QED
      BY <3>1, <3>2, <3>3 DEF Item
  <2>2. QED
    BY <2>1
<1>12. ASSUME NEW e \in Items(s), NEW d \in Abstract!Due(base), Before(d, e)
       PROVE  d \in Items(s)
  <2>1. e \in Items(t) /\ e \in Item /\ e.off \in (base + 1)..q
    BY <1>1, <1>2, <1>3
  <2>2. CASE d \in Events(log, base, Len(log))
    <3>1. PICK o \in DataOffsets(log, base, Len(log)) : d \in EventsOf(log, o)
      BY <2>2 DEF Events
    <3>2. d.off = o /\ d.idx > 0 /\ o \in Nat /\ d.idx \in Nat
      BY <1>1, <3>1 DEF EventsOf, DataOffsets
    <3>3. o <= q
      BY <1>12, <2>1, <3>2 DEF Before, Item
    <3>4. d \in Events(log, base, q)
      BY <3>1, <3>2, <3>3 DEF Events, DataOffsets
    <3>5. d \in Items(t)
      BY <1>2, <3>4
    <3>6. PICK i \in 1..Len(s) : e = s[i]
      BY DEF Items
    <3>7. PICK j \in 1..Len(t) : d = t[j]
      BY <3>5 DEF Items
    <3>8. e = t[i] /\ i \in 1..Len(t)
      BY <1>1, <3>6
    <3>9. ~(i <= j)
      <4>1. i = j => ~Before(d, e)
        BY <2>1, <3>2, <3>7, <3>8 DEF Before, Item
      <4>2. i < j => Before(e, d)
        BY <1>2, <3>7, <3>8 DEF Ordered
      <4>3. ~(Before(e, d) /\ Before(d, e))
        <5>1. e.off \in Nat /\ e.idx \in Nat /\ d.off \in Nat /\ d.idx \in Nat
          BY <2>1, <3>2 DEF Item
        <5>2. QED
          BY <5>1 DEF Before
      <4>4. QED
        BY <1>1, <1>12, <4>1, <4>2, <4>3
    <3>10. j \in 1..Len(s)
      BY <1>1, <3>9
    <3>11. QED
      BY <1>1, <3>7, <3>10 DEF Items
  <2>3. CASE d \notin Events(log, base, Len(log))
    <3>1. /\ d = [off |-> d.off, idx |-> 0]
          /\ d.off \in DataOffsets(log, base, Len(log))
          /\ \A o \in DataOffsets(log, base, Len(log)) : d.off <= o
      BY <2>3, DueIs
    <3>2. \A o \in DataOffsets(log, base, Len(log)) : o \in Nat
      BY DEF DataOffsets
    <3>3. d.off = t[1].off
      BY <1>8, <3>1, <3>2
    <3>4. d = t[1]
      BY <1>8, <3>1, <3>3
    <3>5. QED
      BY <1>4, <3>4
  <2>4. QED
    BY <2>2, <2>3
<1>13. QED
  BY <1>9, <1>11, <1>12, SameVocabulary DEF Abstract!IsDuePrefix

\* A return from next delivers its batch, or does nothing.
LEMMA Delivers ==
  ASSUME IInv, IInv', NEW b \in Seq(Item), Len(b) <= Capacity, Return(b),
         log' = log, base' = base, base # 0
  PROVE  [Abstract!Next]_(Abstract!vars)
<1>1. /\ out \in Seq(Item) /\ out' \in Seq(Item) /\ pending' \in Seq(Item)
      /\ out' = out \o b /\ batch' = <<>>
      /\ log \in Seq(Messages) /\ base \in Nat /\ pos' \in Nat /\ pos' <= Len(log)
      /\ Len(b) \in Nat /\ Len(out) \in Nat
  <2>1. Len(log) \in Nat
    BY LenProperties DEF IInv, TypeOK, TopicTypeOK
  <2>2. log' \in Seq(Messages) /\ pos' \in 0..Len(log')
    BY DEF IInv, TypeOK, TopicTypeOK
  <2>3. Len(b) \in Nat /\ Len(out) \in Nat
    BY LenProperties DEF IInv, TypeOK
  <2>4. QED
    BY <2>1, <2>2, <2>3 DEF IInv, TypeOK, Return
<1>2. CASE b = <<>>
  <2>1. out' = out
    BY <1>1, <1>2, ConcatEmptySeq
  <2>2. QED
    BY <2>1 DEF Abstract!vars
<1>3. CASE b # <<>>
  <2>1. /\ Len(out') = Len(out) + Len(b) /\ Len(b) > 0
        /\ \A i \in 1..Len(out) : out'[i] = out[i]
    <3>1. Len(b) > 0
      BY <1>1, <1>3, EmptySeq
    <3>2. /\ Len(out \o b) = Len(out) + Len(b)
          /\ \A i \in 1..Len(out) + Len(b) : (out \o b)[i] = IF i <= Len(out) THEN out[i] ELSE b[i - Len(out)]
      BY <1>1, ConcatProperties
    <3>3. \A i \in 1..Len(out) : i \in 1..Len(out) + Len(b) /\ i <= Len(out)
      BY <1>1
    <3>4. QED
      BY <1>1, <3>1, <3>2, <3>3
  <2>2. Len(out') \in (Len(out) + 1)..(Len(out) + Capacity)
    BY <1>1, <2>1, SourceAssumption
  <2>3. SubSeq(out', 1, Len(out)) = out
    <3>1. /\ SubSeq(out', 1, Len(out)) \in Seq(Item)
          /\ Len(SubSeq(out', 1, Len(out))) = Len(out)
          /\ \A i \in 1..Len(out) : SubSeq(out', 1, Len(out))[i] = out'[i]
      <4>1. \A i \in 1..Len(out) : out'[i] \in Item
        BY <1>1, <2>1, ElementOfSeq
      <4>2. QED
        BY <1>1, <4>1, SubSeqProperties
    <3>2. QED
      BY <1>1, <2>1, <3>1, SeqEqual
  <2>4. Taken' = out' \o pending'
    <3>1. out' \o <<>> = out'
      BY <1>1, ConcatEmptySeq
    <3>2. QED
      BY <1>1, <3>1 DEF Taken
  <2>5. out' # <<>> /\ stream'
    <3>1. out' # <<>>
      BY <1>1, <2>1, EmptySeq
    <3>2. QED
      BY <3>1 DEF IInv, Lifecycle
  <2>6. /\ Ordered(Taken')
        /\ \A e \in Items(Taken') : e.off \in (base + 1)..pos' /\ IsData(log[e.off])
        /\ {e \in Items(Taken') : e.idx > 0} = Events(log, base, pos')
        /\ \A i \in 1..Len(Taken') : Taken'[i].idx = 0 => i = 1
        /\ Taken'[1].idx = 0
    BY <2>5 DEF IInv, Delivery, Positions, DeliveryInOrder, NothingSkipped, StreamBeginsFirst
  <2>7. Abstract!IsDuePrefix(out')
    BY <1>1, <2>4, <2>5, <2>6, DuePrefix
  <2>8. Abstract!Deliver
    BY <2>2, <2>3, <2>7 DEF Abstract!Deliver
  <2>9. QED
    BY <2>8 DEF Abstract!Next
<1>4. QED
  BY <1>2, <1>3

\* Storing an item delivers a full batch, or nothing.
LEMMA StoreDelivers ==
  ASSUME IInv, IInv', NEW e \in Item, Store(e), log' = log, base' = base, base # 0
  PROVE  [Abstract!Next]_(Abstract!vars)
<1>1. Append(batch, e) \in Seq(Item)
  BY AppendProperties DEF IInv, TypeOK
<1>2. CASE Len(Append(batch, e)) = Capacity
  <2>1. Return(Append(batch, e)) /\ Len(Append(batch, e)) <= Capacity
    BY <1>2, SourceAssumption DEF Store
  <2>2. QED
    BY <1>1, <2>1, Delivers
<1>3. CASE Len(Append(batch, e)) # Capacity
  BY <1>3 DEF Store, Abstract!vars
<1>4. QED
  BY <1>2, <1>3

\* Every step of the source is a step of the abstract delivery, or changes
\* nothing that it speaks of.
LEMMA StepImplements ==
  ASSUME IInv, IInv', [Next]_vars
  PROVE  [Abstract!Next]_(Abstract!vars)
<1>1. CASE TopicStep
  <2>1. out' = out /\ base' = base
    BY <1>1 DEF TopicStep, outVars, traceVars
  <2>2. CASE Produce
    BY <2>1, <2>2 DEF Produce, Abstract!Next, Abstract!Produce
  <2>3. CASE AutoCommit
    BY <2>1, <2>3 DEF AutoCommit, Abstract!vars
  <2>4. QED
    BY <1>1, <2>2, <2>3 DEF TopicStep
<1>2. CASE MsgIterInitNoConsumer \/ ComponentFinalize \/ Crash \/ NextNoCtfMsgIter \/ MsgIterFinalize
  <2>1. ForgetMsgIter /\ log' = log
    BY <1>2 DEF MsgIterInitNoConsumer, ComponentFinalize, Crash, NextNoCtfMsgIter, MsgIterFinalize,
                ProcessGone, LoseConsumer, CloseConsumer
  <2>2. Abstract!Restart
    BY <2>1 DEF ForgetMsgIter, Abstract!Restart
  <2>3. QED
    BY <2>2 DEF Abstract!Next
<1>3. CASE ComponentInit \/ MsgIterInit \/ MsgIterInitFails \/ Cancel \/ NextInterrupted \/ NextEnter
  BY <1>3 DEF ComponentInit, MsgIterInit, Subscribe, MsgIterInitFails, Cancel, NextInterrupted, NextEnter,
              topicVars, outVars, traceVars, Abstract!vars
<1>4. CASE MetadataTimeout \/ MetadataPollError
  BY <1>4 DEF MetadataTimeout, MetadataPollError, topicVars, outVars, traceVars, Abstract!vars
<1>5. CASE MetadataDiscard \/ MetadataNoMemstream \/ MetadataRejected \/ MetadataNotConfigured
  <2>1. log' = log
    BY <1>5 DEF MetadataDiscard, MetadataNoMemstream, MetadataRejected, MetadataNotConfigured, Receive
  <2>2. out' = out /\ base' = base
    BY <1>5 DEF MetadataDiscard, MetadataNoMemstream, MetadataRejected, MetadataNotConfigured,
                outVars, traceVars
  <2>3. QED
    BY <2>1, <2>2 DEF Abstract!vars
<1>6. CASE MetadataUpdate
  <2>1. PICK m \in Messages : Receive(m) /\ IsGoodDof(m)
    BY <1>6 DEF MetadataUpdate
  <2>2. pos' \in 1..Len(log) /\ log' = log /\ log[pos'] = m
    BY <2>1, ReceiveStep DEF IInv, TypeOK
  <2>3. base = 0 /\ base' = pos' /\ out' = out
    BY <1>6 DEF MetadataUpdate, InMetadataUpdate, IInv, Lifecycle, outVars
  <2>4. Abstract!Configure
    BY <2>1, <2>2, <2>3 DEF Abstract!Configure, IsGoodDof
  <2>5. QED
    BY <2>4 DEF Abstract!Next
<1>7. CASE StreamStep
  <2>1. base # 0 /\ base \in Nat
    <3>1. iter = "batch"
      BY <1>7 DEF StreamStep, BorrowStream, BorrowStreamFails, DecodeEvent, StreamBytes, StreamDiscard,
                  StreamTimeout, StreamPartitionEof, StreamPollError, InRequestBytes, InCallback
    <3>2. base \in 1..pos
      BY <3>1 DEF IInv, Lifecycle
    <3>3. QED
      BY <3>2
  <2>2. log' = log /\ base' = base
    BY <1>7 DEF StreamStep, BorrowStream, BorrowStreamFails, DecodeEvent, StreamBytes, StreamDiscard,
                StreamTimeout, StreamPartitionEof, StreamPollError, StreamAgain, Receive, topicVars, traceVars
  <2>3. CASE BorrowStream
    <3>1. [off |-> Head(pending).off, idx |-> 0] \in Item
      BY <2>3, HeadTailProperties DEF IInv, TypeOK, BorrowStream, Item
    <3>2. QED
      BY <2>1, <2>2, <2>3, <3>1, StoreDelivers DEF BorrowStream
  <2>4. CASE DecodeEvent
    <3>1. Head(pending) \in Item
      BY <2>4, HeadTailProperties DEF IInv, TypeOK, DecodeEvent
    <3>2. QED
      BY <2>1, <2>2, <2>4, <3>1, StoreDelivers DEF DecodeEvent
  <2>5. CASE StreamBytes
    BY <2>2, <2>5 DEF StreamBytes, outVars, Abstract!vars
  <2>6. CASE BorrowStreamFails \/ StreamDiscard \/ StreamTimeout \/ StreamPartitionEof \/ StreamPollError
    <3>1. Return(batch)
      BY <2>6 DEF BorrowStreamFails, StreamDiscard, StreamTimeout, StreamPartitionEof, StreamPollError,
                  StreamAgain
    <3>2. batch \in Seq(Item) /\ Len(batch) <= Capacity
      <4>1. batch \in Seq(Item) /\ Len(batch) < Capacity
        BY DEF IInv, TypeOK
      <4>2. Len(batch) \in Nat
        BY <4>1, LenProperties
      <4>3. QED
        BY <4>1, <4>2, SourceAssumption
    <3>3. QED
      BY <2>1, <2>2, <3>1, <3>2, Delivers
  <2>7. QED
    BY <1>7, <2>3, <2>4, <2>5, <2>6 DEF StreamStep
<1>8. CASE UNCHANGED vars
  BY <1>8 DEF vars, topicVars, outVars, traceVars, Abstract!vars
<1>9. QED
  BY <1>1, <1>2, <1>3, <1>4, <1>5, <1>6, <1>7, <1>8 DEF Next, LifeStep, MetadataStep

\* The source implements the abstract delivery: whatever the topic, the array
\* of the graph, the failures and the restarts, what it hands on is a prefix of
\* what is due after the DOF it decoded (kafka_msg_iter_next).
THEOREM Implements == Spec => ImplementsOrderedDelivery
<1>1. Init => Abstract!Init
  BY DEF Init, TopicInit, Abstract!Init
<1>2. IInv /\ IInv' /\ [Next]_vars => [Abstract!Next]_(Abstract!vars)
  BY StepImplements
<1>3. QED
  BY <1>1, <1>2, Invariance, PTL DEF Spec, ImplementsOrderedDelivery, Abstract!Spec

=============================================================================
