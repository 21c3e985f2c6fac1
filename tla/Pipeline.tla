------------------------------ MODULE Pipeline ------------------------------
(***************************************************************************)
(* The graph a user builds: the source of KafkaSource, connected to the    *)
(* influxdb sink of InfluxSink, which asks it for messages.  One thread    *)
(* runs the graph (bt_graph_run, external): while the sink handles an      *)
(* array the source stands still, and while the source polls the sink      *)
(* waits; the topic and the user move at any time.                         *)
(*                                                                         *)
(* Only what crosses from one component to the other is added here: the    *)
(* arrays of messages, the creation and the release of the iterator, and   *)
(* the errors.  db is what the database holds after all runs of the        *)
(* program; an item of the topic is known by its place in it, which        *)
(* neither the sink nor the database can see.                              *)
(***************************************************************************)
EXTENDS DeliveryOrder, FiniteSets

CONSTANTS Messages, MaxLog, Capacity, MaxLives, Faults,
          SinkFaults, Batch,
          Tick   \* how many messages of the topic share a timestamp

VARIABLES
  log, pos, committed, consumer,
  comp, conf, hasMsgIter, iter, wasInterrupted, newMetadataNeeded, irTrace,
  ctfMsgIter, stream, streamState, pending, batch, out, base, canceled, lives,
  streamIters, failedAsserts,
  sink, iterator, seen, handled, released, sinkAsserts,
  tsVal, uniqCnt, mBuffer, points, stored,
  db   \* the points in the database, each with the item it was made of

sourceVars == <<log, pos, committed, consumer, comp, conf, hasMsgIter, iter,
  wasInterrupted, newMetadataNeeded, irTrace, ctfMsgIter, stream, streamState,
  pending, batch, out, base, canceled, lives, streamIters,
  failedAsserts>>
sinkVars == <<sink, iterator, seen, handled, released, sinkAsserts,
  tsVal, uniqCnt, mBuffer, points, stored>>
vars == <<sourceVars, sinkVars, db>>

\* The clock snapshot of an item.
Time(e) == e.off \div Tick

\* An item as the sink sees it: all events are of one probe.
MessageOf(e) == IF e.idx = 0 THEN [event |-> FALSE, name |-> <<>>, ts |-> 0]
                             ELSE [event |-> TRUE, name |-> <<"probe">>, ts |-> Time(e)]

Source == INSTANCE KafkaSource
Sink == INSTANCE InfluxSink WITH
  TraceMessages <- {MessageOf(e) : e \in [off : 0..MaxLog, idx : {0, 1}]},
  MaxArray <- Capacity,
  MaxSeen <- (MaxLog + 1) * 4,
  failedAsserts <- sinkAsserts

\* What each component assumes of its constants, and the sharing of timestamps.
\* (That a word is a string is nothing the provers know.)
ASSUME PipelineAssumption ==
  /\ Messages \subseteq Source!Message
  /\ \A m \in Messages : Source!IsData(m) => m.events > 0
  /\ MaxLog \in Nat /\ MaxLives \in Nat /\ Capacity \in Nat \ {0}
  /\ Faults \subseteq Source!FaultNames
  /\ SinkFaults \subseteq Sink!SinkFaultNames
  /\ Batch \in Nat
  /\ Tick \in Nat \ {0}
  /\ "probe" \in STRING

Init == Source!Init /\ Sink!Init /\ db = {}

\* The events among the first n items of s, for each n.
EventsUpTo(s) ==
  LET e[n \in 0..Len(s)] == IF n = 0 THEN <<>>
                           ELSE IF s[n].idx > 0 THEN Append(e[n - 1], s[n]) ELSE e[n - 1]
  IN e

EventItems(s) == EventsUpTo(s)[Len(s)]

\* The database takes in what the sink's step stored.
Store ==
  db' = db \cup {[point |-> points'[k], item |-> EventItems(out')[k]] :
                   k \in (Len(stored) + 1)..Len(stored')}

SinkStands == UNCHANGED <<sinkVars, db>>
SourceStands == UNCHANGED sourceVars

(***************************************************************************)
(* The steps of one component alone.                                       *)
(***************************************************************************)

\* The topic and the user.
Environment ==
  /\ Source!TopicStep \/ Source!Cancel
  /\ SinkStands

ComponentInit ==
  /\ Source!ComponentInit
  /\ SinkStands

SinkInit ==
  /\ comp = "live"
  /\ \/ Sink!InfluxInit
     \/ Sink!InfluxInitFails
     \/ sink = "none" /\ Sink!LoopStep
  /\ SourceStands
  /\ UNCHANGED db

\* The sink handles the messages of an array.
SinkHandles ==
  /\ Sink!HandleOther \/ Sink!Buffer \/ Sink!Transmit \/ Sink!TransmitFails
  /\ SourceStands
  /\ Store

\* The graph is inside the source's next.
InSource == sink = "idle"

\* The source works without an answer for the sink yet, or answers AGAIN.
SourceWorks ==
  /\ InSource
  /\ Source!MetadataStep \/ Source!NextEnter \/ Source!StreamStep
  /\ iter' # "failed"
  /\ out' = out
  /\ SinkStands

(***************************************************************************)
(* The steps of both.                                                      *)
(***************************************************************************)

\* The graph is configured: the sink asks for an iterator.
Configure ==
  /\ Source!MsgIterInit
  /\ Sink!GraphIsConfigured
  /\ UNCHANGED <<tsVal, uniqCnt, mBuffer, points, stored, db>>

ConfigureFails ==
  /\ Source!MsgIterInitFails
  /\ Sink!GraphIsConfiguredFails
  /\ UNCHANGED <<tsVal, uniqCnt, mBuffer, points, stored, db>>

\* Mutant of Delivered: the item that fills the array is not counted.
DeliveredShort == [i \in 1..Len(batch) |-> MessageOf(out'[Len(out) + i])]

\* The new items of out are the array the sink was waiting for.
Delivered == [i \in 1..(Len(out') - Len(out)) |-> MessageOf(out'[Len(out) + i])]

Deliver ==
  /\ InSource
  /\ Source!StreamStep
  /\ out' # out
  /\ Sink!ConsumeArray(Delivered)
  /\ UNCHANGED <<tsVal, uniqCnt, mBuffer, points, stored, db>>

\* The source answers ERROR, or has been interrupted.
SourceFails ==
  /\ InSource
  /\ Source!NextInterrupted \/ Source!MetadataStep
  /\ iter' = "failed"
  /\ Sink!ConsumeError
  /\ UNCHANGED <<tsVal, uniqCnt, mBuffer, points, stored, db>>

\* The graph is destroyed: the sink releases the iterator, which finalizes it.
Destroy ==
  /\ sink \in {"idle", "failed"}
  /\ iterator = "live"
  /\ Source!MsgIterFinalize
  /\ Sink!InfluxFinalize
  /\ UNCHANGED db

\* Without an iterator there is only the sink's data to destroy.
DestroySink ==
  /\ iterator # "live"
  /\ Sink!InfluxFinalize
  /\ SourceStands
  /\ UNCHANGED db

\* The sink has not been made, or is no more.
SinkForgotten ==
  /\ sink' = "none"
  /\ iterator' = "null"
  /\ seen' = <<>>
  /\ handled' = 0
  /\ released' = <<>>
  /\ sinkAsserts' = {}
  /\ tsVal' = 0
  /\ uniqCnt' = 1
  /\ mBuffer' = <<>>
  /\ points' = <<>>
  /\ stored' = <<>>

\* The process ends in order, or dies anywhere in between.
ProcessEnds ==
  /\ sink = "gone"
  /\ Source!ComponentFinalize
  /\ SinkForgotten
  /\ UNCHANGED db

ProcessDies ==
  /\ \/ Source!Crash
     \/ sink = "ready" /\ Source!MsgIterInitNoConsumer
     \/ sink = "crashed" /\ Source!ProcessGone /\ UNCHANGED failedAsserts
  /\ SinkForgotten
  /\ UNCHANGED db

\* The source's next uses a CTF message iterator that could not be made.
NextDies ==
  /\ InSource
  /\ Source!NextNoCtfMsgIter
  /\ SinkForgotten
  /\ UNCHANGED db

Next ==
  \/ Environment \/ ComponentInit \/ SinkInit \/ SinkHandles \/ SourceWorks
  \/ Configure \/ ConfigureFails \/ Deliver \/ SourceFails
  \/ Destroy \/ DestroySink \/ ProcessEnds \/ ProcessDies \/ NextDies

Spec == Init /\ [][Next]_vars

InNext == SourceWorks \/ Deliver \/ SourceFails \/ NextDies

\* The graph runs on as long as it can, and a topic that is polled again and
\* again yields a waiting message, or a timeout if it has none.
Fairness ==
  /\ WF_vars(SinkHandles)
  /\ WF_vars(InNext /\ (Source!NextInterrupted \/ Source!NextEnter \/ Source!NextNoCtfMsgIter))
  /\ WF_vars(InNext /\ (Source!BorrowStream \/ Source!DecodeEvent))
  /\ SF_vars(InNext /\ Source!PollMessage)
  /\ SF_vars(InNext /\ Source!PollTimeout)

FairSpec == Spec /\ Fairness

(***************************************************************************)
(* The inductive invariant: what the sink has seen is what the source      *)
(* handed on, and its points and those in the database are made of it.     *)
(***************************************************************************)

\* The items handed on are a stream beginning and events after it.
Linked ==
  /\ iterator = "live" <=> iter # "none"
  /\ sink \in {"none", "ready", "gone", "crashed"} => iter = "none"
  /\ sink # "none" => comp = "live"
  /\ sink # "gone" =>
       /\ Len(seen) = Len(out)
       /\ \A i \in 1..Len(out) : seen[i] = MessageOf(out[i])
       /\ Len(points) = IF handled = 0 THEN 0 ELSE handled - 1
       /\ \A k \in 1..Len(points) : points[k].ts = Time(out[k + 1])
       /\ \A k \in 1..Len(stored) : [point |-> stored[k], item |-> out[k + 1]] \in db

IInv == Source!IInv /\ Sink!IInv /\ Linked

(***************************************************************************)
(* Properties.                                                             *)
(***************************************************************************)

\* The events this run has polled after its DOF, and the place of each.
Due == Events(log, base, pos)
Rank(e) == Cardinality({d \in Due : Before(d, e)}) + 1

\* What this run of the program stored are the first events after the DOF in
\* the order of the topic, each with its own time: nothing is lost, repeated or
\* exchanged between the poll of the source and the post of the sink, for any
\* cut of messages into arrays and of points into batches.
StoredAreFirstDue ==
  base # 0 =>
    /\ Len(stored) <= Cardinality(Due)
    /\ \A e \in Due :
         Rank(e) <= Len(stored) =>
           /\ stored[Rank(e)].ts = Time(e)
           /\ [point |-> stored[Rank(e)], item |-> e] \in db

\* While the sink waits for the source, every event the source handed on is a
\* point (influxdb_consume, kafka_msg_iter_next).
EventsBecomePoints == sink = "idle" => Len(points) = Len(EventItems(out))

\* influx.cxx:375: a timestamp that is not unique gets a tag, so that no point
\* takes the place of the point of another event.
ItemsApart == \A a, b \in db : a.point = b.point => a.item = b.item

Running == iter \in {"idle", "batch"} /\ sink \in {"idle", "handling"}

\* The debug assertions of both components hold (kafka_stream_iter.c:243, 301,
\* 360; influx.cxx:142, 734).
AssertionsHold == failedAsserts = {} /\ sinkAsserts = {}

\* Every event produced after the DOF becomes a point, unless the graph ends
\* before (kafka_msg_iter_next, influxdb_consume).
EventsArrive ==
  \A o \in 1..MaxLog :
    (Running /\ ~newMetadataNeeded /\ o \in (base + 1)..Len(log) /\ log[o].key = "ddtrace")
      ~> (\/ ~Running
          \/ /\ o <= Len(log)
             /\ EventsOf(log, o) \subseteq
                  {EventItems(out)[k] : k \in 1..Len(points)})
=============================================================================
