---------------------------- MODULE KafkaSource -----------------------------
(***************************************************************************)
(* The source component src.dtrace.kafka: the component and its one        *)
(* message iterator (kafka_component.c, kafka_msg_iter.c), the trace and   *)
(* its metadata (kafka_trace.c, kafka_metadata.c) and the one stream       *)
(* iterator (kafka_stream_iter.c), reading the topic of KafkaTopic through *)
(* the CTF message iterator of libbabeltrace (external).                   *)
(*                                                                         *)
(* The graph calls next repeatedly.  Until the trace has been described,   *)
(* a call polls Kafka once for a DOF; afterwards it polls for stream data  *)
(* until the batch is full or a poll brings nothing.  A step of the module *)
(* is a stretch of next between two polls, since the topic, the consumer   *)
(* and the user (who may interrupt the graph) move while it polls.         *)
(*                                                                         *)
(* This is the release build: BT_ASSERT_DBG is compiled out, and an        *)
(* assertion that would have failed is recorded in failedAsserts.          *)
(***************************************************************************)
EXTENDS KafkaTopic, DeliveryOrder

CONSTANTS Capacity,   \* the size of the array the graph gives to next
          MaxLives,   \* bound: the number of runs of the program
          Faults      \* the failures that may happen

FaultNames == {"new", "setup", "poll", "memstream", "convert", "configure",
               "lazy", "stream", "crash"}

ASSUME SourceAssumption ==
  /\ Capacity \in Nat \ {0}
  /\ MaxLives \in Nat
  /\ Faults \subseteq FaultNames

VARIABLES
  comp,              \* the component's data: "absent" or "live"
  conf,              \* rd_kafka_conf_t: "none", "component", "consumer", "freed"
  hasMsgIter,        \* kafka_component.has_msg_iter
  iter,              \* the message iterator: "none", "idle" between calls of
                     \* next, "batch" inside one, "failed" once next returned ERROR
  wasInterrupted,    \* kafka_msg_iter.was_interrupted
  newMetadataNeeded, \* kafka_trace.new_metadata_needed
  irTrace,           \* trace class, trace and clock class: "none",
                     \* "class" (set, not configured) or "ready"
  ctfMsgIter,        \* kafka_stream_iter.msg_iter # NULL
  stream,            \* kafka_stream_iter.stream # NULL
  streamState,       \* kafka_stream_iter.state
  pending,           \* items of the polled message not yet decoded
  batch,             \* cb_data.msgs: the items stored by the current call
  out,               \* history: the items this iterator handed to the graph
  base,              \* history: the position of the DOF it decoded (0: none)
  canceled,          \* the user interrupted the graph
  lives,             \* history: the number of runs of the program
  streamIters,       \* kafka_stream_iter objects allocated and not destroyed
  failedAsserts      \* the debug assertions that did not hold

compVars == <<comp, conf, hasMsgIter, lives>>
traceVars == <<newMetadataNeeded, irTrace, ctfMsgIter, base>>
streamVars == <<stream, streamState, pending>>
outVars == <<batch, out>>
auditVars == <<streamIters, failedAsserts>>
vars == <<topicVars, compVars, iter, wasInterrupted, traceVars, streamVars,
          outVars, canceled, auditVars>>

TypeOK ==
  /\ TopicTypeOK
  /\ comp \in {"absent", "live"}
  /\ conf \in {"none", "component", "consumer", "freed"}
  /\ hasMsgIter \in BOOLEAN
  /\ iter \in {"none", "idle", "batch", "failed"}
  /\ wasInterrupted \in BOOLEAN
  /\ newMetadataNeeded \in BOOLEAN
  /\ irTrace \in {"none", "class", "ready"}
  /\ ctfMsgIter \in BOOLEAN
  /\ stream \in BOOLEAN
  /\ streamState \in {"KAFKA_STREAM_ACTIVE_NO_DATA", "KAFKA_STREAM_EOF"}
  /\ pending \in Seq(Item)
  /\ batch \in Seq(Item)
  /\ Len(batch) < Capacity
  /\ out \in Seq(Item)
  /\ base \in Nat
  /\ canceled \in BOOLEAN
  /\ lives \in 0..MaxLives
  /\ streamIters \in Nat
  /\ failedAsserts \subseteq {"metadata", "consumer", "msg_iter", "stream"}

(***************************************************************************)
(* The component and the life of its message iterator.                     *)
(***************************************************************************)

Init ==
  /\ TopicInit
  /\ comp = "absent"
  /\ conf = "none"
  /\ hasMsgIter = FALSE
  /\ lives = 0
  /\ iter = "none"
  /\ wasInterrupted = FALSE
  /\ newMetadataNeeded = TRUE
  /\ irTrace = "none"
  /\ ctfMsgIter = FALSE
  /\ base = 0
  /\ stream = FALSE
  /\ streamState = "KAFKA_STREAM_ACTIVE_NO_DATA"
  /\ pending = <<>>
  /\ batch = <<>>
  /\ out = <<>>
  /\ canceled = FALSE
  /\ streamIters = 0
  /\ failedAsserts = {}

\* Mutant of ForgetMsgIter: what the trace knows outlives its iterator.
ForgetMsgIterKeepingTrace ==
  /\ hasMsgIter' = FALSE
  /\ iter' = "none"
  /\ wasInterrupted' = FALSE
  /\ stream' = FALSE
  /\ streamState' = "KAFKA_STREAM_ACTIVE_NO_DATA"
  /\ pending' = <<>>
  /\ batch' = <<>>
  /\ out' = <<>>
  /\ UNCHANGED traceVars

\* The message iterator is gone, and nothing it owned is reachable.  (The next
\* iterator starts from zeroed memory: these are its initial values.)
ForgetMsgIter ==
  /\ hasMsgIter' = FALSE
  /\ iter' = "none"
  /\ wasInterrupted' = FALSE
  /\ newMetadataNeeded' = TRUE
  /\ irTrace' = "none"
  /\ ctfMsgIter' = FALSE
  /\ base' = 0
  /\ stream' = FALSE
  /\ streamState' = "KAFKA_STREAM_ACTIVE_NO_DATA"
  /\ pending' = <<>>
  /\ batch' = <<>>
  /\ out' = <<>>

\* The process ends, by a crash or otherwise: everything but the topic is gone.
ProcessGone ==
  /\ LoseConsumer
  /\ ForgetMsgIter
  /\ comp' = "absent"
  /\ conf' = "none"
  /\ canceled' = FALSE
  /\ streamIters' = 0
  /\ UNCHANGED lives

\* kafka_component_init(): the component owns a fresh configuration.
ComponentInit ==
  /\ comp = "absent"
  /\ lives < MaxLives
  /\ comp' = "live"
  /\ conf' = "component"
  /\ lives' = lives + 1
  /\ UNCHANGED <<topicVars, hasMsgIter, iter, wasInterrupted, traceVars,
                 streamVars, outVars, canceled, auditVars>>

\* The graph asks the component for an iterator.  The sinks of this repository
\* ask once, when the graph is configured; has_msg_iter, cleared with the
\* iterator, would admit a second one, made of the configuration that the
\* first consumer took and freed.
WantsMsgIter ==
  /\ comp = "live"
  /\ iter = "none"
  /\ conf = "component"

\* kafka_msg_iter_init(): the consumer takes the configuration and subscribes;
\* the trace gets its stream iterator, then its metadata (whose absence the
\* stream iterator's assertion meets), and needs a DOF.
MsgIterInit ==
  /\ WantsMsgIter
  /\ Subscribe
  /\ conf' = "consumer"
  /\ hasMsgIter' = TRUE
  /\ iter' = "idle"
  /\ streamIters' = streamIters + 1
  /\ failedAsserts' = failedAsserts \cup {"metadata"}
  /\ UNCHANGED <<comp, lives, wasInterrupted, traceVars, streamVars, outVars,
                 canceled>>

\* Mutant of MsgIterInitFails: the error path leaves has_msg_iter set.
MsgIterInitFailsHeld ==
  /\ WantsMsgIter
  /\ "setup" \in Faults
  /\ conf' = "freed"
  /\ hasMsgIter' = TRUE
  /\ UNCHANGED <<topicVars, comp, lives, iter, wasInterrupted, traceVars,
                 streamVars, outVars, canceled, auditVars>>

\* kafka_msg_iter_init() fails after rd_kafka_new(), which took conf: the
\* iterator is destroyed, and the consumer with it.  A trace that could not be
\* completed is freed without the stream iterator it already has.
MsgIterInitFails ==
  /\ WantsMsgIter
  /\ "setup" \in Faults
  /\ conf' = "freed"
  /\ hasMsgIter' = FALSE
  /\ \/ UNCHANGED <<streamIters, failedAsserts>>
     \/ /\ streamIters' = streamIters + 1
        /\ failedAsserts' = failedAsserts \cup {"metadata"}
  /\ UNCHANGED <<topicVars, comp, lives, iter, wasInterrupted, traceVars,
                 streamVars, outVars, canceled>>

\* rd_kafka_new() fails: the iterator is destroyed with the consumer NULL, which
\* rd_kafka_consumer_close() does not survive.
MsgIterInitNoConsumer ==
  /\ WantsMsgIter
  /\ "new" \in Faults
  /\ ProcessGone
  /\ failedAsserts' = failedAsserts \cup {"consumer"}

\* kafka_msg_iter_finalize(): the consumer is closed and destroyed, the
\* configuration with it.  The trace and its stream iterator stay allocated.
MsgIterFinalize ==
  /\ iter \in {"idle", "failed"}
  /\ CloseConsumer
  /\ conf' = "freed"
  /\ ForgetMsgIter
  /\ UNCHANGED <<comp, lives, canceled, auditVars>>

\* kafka_component_finalize(), and the end of the program.
ComponentFinalize ==
  /\ comp = "live"
  /\ iter = "none"
  /\ ProcessGone
  /\ UNCHANGED failedAsserts

Crash ==
  /\ "crash" \in Faults
  /\ comp = "live"
  /\ ProcessGone
  /\ UNCHANGED failedAsserts

\* The user interrupts the graph.
Cancel ==
  /\ iter # "none"
  /\ ~canceled
  /\ canceled' = TRUE
  /\ UNCHANGED <<topicVars, compVars, iter, wasInterrupted, traceVars,
                 streamVars, outVars, auditVars>>

(***************************************************************************)
(* kafka_msg_iter_next(), as far as the DOF: one poll, then AGAIN or ERROR.*)
(***************************************************************************)

\* A call that finds was_interrupted set returns ERROR, and the graph only
\* finalizes the iterator after that.
NextInterrupted ==
  /\ iter = "idle"
  /\ wasInterrupted
  /\ iter' = "failed"
  /\ UNCHANGED <<topicVars, compVars, wasInterrupted, traceVars, streamVars,
                 outVars, canceled, auditVars>>

InMetadataUpdate == iter = "idle" /\ ~wasInterrupted /\ newMetadataNeeded

\* Mutant of MetadataTimeout: a poll that times out ignores the interruption.
MetadataTimeoutDeaf ==
  /\ InMetadataUpdate
  /\ UNCHANGED vars

\* The poll of kafka_metadata_update() times out.
MetadataTimeout ==
  /\ InMetadataUpdate
  /\ wasInterrupted' = canceled
  /\ UNCHANGED <<topicVars, compVars, iter, traceVars, streamVars, outVars,
                 canceled, auditVars>>

\* The poll brings an error: ERROR, or AGAIN (nothing changes) when errno is
\* EINTR and the graph was interrupted.  At the end of the partition: AGAIN.
MetadataPollError ==
  /\ InMetadataUpdate
  /\ "poll" \in Faults
  /\ iter' = "failed"
  /\ UNCHANGED <<topicVars, compVars, wasInterrupted, traceVars, streamVars,
                 outVars, canceled, auditVars>>

\* Mutant of MetadataDiscard: a DOF is discarded like any other message.
MetadataDiscardDof ==
  /\ InMetadataUpdate
  /\ \E m \in Messages : Receive(m)
  /\ UNCHANGED <<compVars, iter, wasInterrupted, traceVars, streamVars,
                 outVars, canceled, auditVars>>

\* A message that is not a DOF is discarded: AGAIN.  (So is a DOF whose
\* metadata the decoder finds incomplete.)
MetadataDiscard ==
  /\ InMetadataUpdate
  /\ \E m \in Messages :
       /\ Receive(m)
       /\ m.key = "dof" => m.tsdl = "incomplete"
  /\ UNCHANGED <<compVars, iter, wasInterrupted, traceVars, streamVars,
                 outVars, canceled, auditVars>>

\* The memory stream for the metadata cannot be opened: ERROR, and the polled
\* message is not destroyed.
MetadataNoMemstream ==
  /\ InMetadataUpdate
  /\ "memstream" \in Faults
  /\ \E m \in Messages : Receive(m) /\ m.key = "dof"
  /\ iter' = "failed"
  /\ UNCHANGED <<compVars, wasInterrupted, traceVars, streamVars, outVars,
                 canceled, streamIters, failedAsserts>>

\* dof2ctf() or the metadata decoder refuses the DOF, or the memory stream
\* fails on the way: ERROR, with the message destroyed.
MetadataRejected ==
  /\ InMetadataUpdate
  /\ \E m \in Messages :
       /\ Receive(m)
       /\ m.key = "dof"
       /\ m.tsdl \in {"malformed", "rejected"} \/ "convert" \in Faults
  /\ iter' = "failed"
  /\ UNCHANGED <<compVars, wasInterrupted, traceVars, streamVars, outVars,
                 canceled, auditVars>>

\* The metadata is decoded, but the trace cannot be configured or a stream
\* class has no clock: ERROR, with the trace class and trace already set.
MetadataNotConfigured ==
  /\ InMetadataUpdate
  /\ "configure" \in Faults
  /\ \E m \in Messages : Receive(m) /\ IsGoodDof(m)
  /\ irTrace' = "class"
  /\ iter' = "failed"
  /\ UNCHANGED <<compVars, wasInterrupted, newMetadataNeeded, ctfMsgIter, base,
                 streamVars, outVars, canceled, auditVars>>

\* The DOF describes the trace; kafka_lazy_msg_init() then creates the CTF
\* message iterator, and next ignores whether it did.
MetadataUpdate ==
  /\ InMetadataUpdate
  /\ \E m \in Messages : Receive(m) /\ IsGoodDof(m)
  /\ irTrace' = "ready"
  /\ newMetadataNeeded' = FALSE
  /\ ctfMsgIter' \in {TRUE} \cup (IF "lazy" \in Faults THEN {FALSE} ELSE {})
  /\ base' = pos'
  /\ failedAsserts' = failedAsserts \cup {"msg_iter"}
  /\ UNCHANGED <<compVars, iter, wasInterrupted, streamVars, outVars, canceled,
                 streamIters>>

(***************************************************************************)
(* kafka_msg_iter_next() after the DOF: kafka_msg_iter_callback() stores   *)
(* items until the batch is full or the CTF message iterator has none.     *)
(***************************************************************************)

\* next returns OK with the items of b, or AGAIN when there are none.
Return(b) ==
  /\ iter' = "idle"
  /\ out' = out \o b
  /\ batch' = <<>>

\* Mutant of Store: the callback stops one item too late.
StoreOneMore(e) ==
  LET b == Append(batch, e)
  IN  IF Len(b) > Capacity
      THEN Return(b)
      ELSE batch' = b /\ UNCHANGED <<iter, out>>

\* The callback stores an item and goes on while there is room.
Store(e) ==
  LET b == Append(batch, e)
  IN  IF Len(b) = Capacity
      THEN Return(b)
      ELSE batch' = b /\ UNCHANGED <<iter, out>>

\* Mutant of NextEnter: next does not look at was_interrupted.
NextEnterInterrupted ==
  /\ iter = "idle"
  /\ ~newMetadataNeeded
  /\ ctfMsgIter
  /\ iter' = "batch"
  /\ UNCHANGED <<topicVars, compVars, wasInterrupted, traceVars, streamVars,
                 outVars, canceled, auditVars>>

\* Mutant of NextEnter: what a full batch left behind is not taken up again.
NextEnterNoRest ==
  /\ iter = "idle"
  /\ ~wasInterrupted
  /\ ~newMetadataNeeded
  /\ ctfMsgIter
  /\ pending = <<>>
  /\ iter' = "batch"
  /\ UNCHANGED <<topicVars, compVars, wasInterrupted, traceVars, streamVars,
                 outVars, canceled, auditVars>>

NextEnter ==
  /\ iter = "idle"
  /\ ~wasInterrupted
  /\ ~newMetadataNeeded
  /\ ctfMsgIter
  /\ iter' = "batch"
  /\ UNCHANGED <<topicVars, compVars, wasInterrupted, traceVars, streamVars,
                 outVars, canceled, auditVars>>

\* Without a CTF message iterator the callback dereferences NULL.
NextNoCtfMsgIter ==
  /\ iter = "idle"
  /\ ~wasInterrupted
  /\ ~newMetadataNeeded
  /\ ~ctfMsgIter
  /\ ProcessGone
  /\ UNCHANGED failedAsserts

InCallback == iter = "batch"

\* Mutant of BorrowStream: the stream is begun again by every message.
BorrowStreamAgain ==
  /\ InCallback
  /\ pending # <<>>
  /\ ~stream \/ Head(pending).idx = 1
  /\ stream' = TRUE
  /\ failedAsserts' = failedAsserts \cup {"stream"}
  /\ Store([off |-> Head(pending).off, idx |-> 0])
  /\ UNCHANGED <<topicVars, compVars, wasInterrupted, traceVars, streamState,
                 pending, canceled, streamIters>>

\* The first bytes of the stream: medop_borrow_stream() creates the stream
\* and the stream beginning is the item.
BorrowStream ==
  /\ InCallback
  /\ pending # <<>>
  /\ ~stream
  /\ stream' = TRUE
  /\ failedAsserts' = failedAsserts \cup {"stream"}
  /\ Store([off |-> Head(pending).off, idx |-> 0])
  /\ UNCHANGED <<topicVars, compVars, wasInterrupted, traceVars, streamState,
                 pending, canceled, streamIters>>

\* The stream cannot be created; the callback returns, its bytes are kept.
BorrowStreamFails ==
  /\ InCallback
  /\ "stream" \in Faults
  /\ pending # <<>>
  /\ ~stream
  /\ failedAsserts' = failedAsserts \cup {"stream"}
  /\ Return(batch)
  /\ UNCHANGED <<topicVars, compVars, wasInterrupted, traceVars, streamVars,
                 canceled, streamIters>>

\* Mutant of DecodeEvent: an item that fills the batch is not taken off.
DecodeEventTwice ==
  /\ InCallback
  /\ pending # <<>>
  /\ stream
  /\ pending' = IF Len(batch) + 1 = Capacity THEN pending ELSE Tail(pending)
  /\ Store(Head(pending))
  /\ UNCHANGED <<topicVars, compVars, wasInterrupted, traceVars, stream,
                 streamState, canceled, auditVars>>

\* The next event of the bytes in hand.
DecodeEvent ==
  /\ InCallback
  /\ pending # <<>>
  /\ stream
  /\ pending' = Tail(pending)
  /\ Store(Head(pending))
  /\ UNCHANGED <<topicVars, compVars, wasInterrupted, traceVars, stream,
                 streamState, canceled, auditVars>>

\* medop_request_bytes() is called once the bytes in hand are used up.
InRequestBytes == InCallback /\ pending = <<>>

\* Stream data: its events can be decoded.
StreamBytes ==
  /\ InRequestBytes
  /\ \E m \in Messages :
       /\ Receive(m)
       /\ IsData(m)
       /\ pending' = [i \in 1..m.events |-> [off |-> pos', idx |-> i]]
  /\ UNCHANGED <<compVars, iter, wasInterrupted, traceVars, stream,
                 streamState, outVars, canceled, auditVars>>

\* AGAIN ends the call.
StreamAgain ==
  /\ streamState' = "KAFKA_STREAM_ACTIVE_NO_DATA"
  /\ Return(batch)
  /\ UNCHANGED <<compVars, traceVars, stream, pending, canceled, auditVars>>

\* Mutant of StreamDiscard: stream data may be taken for another message.
StreamDiscardAny ==
  /\ InRequestBytes
  /\ \E m \in Messages : Receive(m)
  /\ StreamAgain
  /\ UNCHANGED wasInterrupted

\* A message with another key, a DOF too, is discarded.
StreamDiscard ==
  /\ InRequestBytes
  /\ \E m \in Messages : Receive(m) /\ ~IsData(m)
  /\ StreamAgain
  /\ UNCHANGED wasInterrupted

StreamTimeout ==
  /\ InRequestBytes
  /\ wasInterrupted' = (wasInterrupted \/ canceled)
  /\ StreamAgain
  /\ UNCHANGED topicVars

StreamPartitionEof ==
  /\ InRequestBytes
  /\ pos = Len(log)
  /\ StreamAgain
  /\ UNCHANGED <<topicVars, wasInterrupted>>

\* Mutant of StreamPollError: the items stored before the error are dropped.
StreamPollErrorDrops ==
  /\ InRequestBytes
  /\ "poll" \in Faults
  /\ streamState' = "KAFKA_STREAM_EOF"
  /\ Return(<<>>)
  /\ UNCHANGED <<topicVars, compVars, wasInterrupted, traceVars, stream,
                 pending, canceled, auditVars>>

\* A poll that brings an error ends the call; next swallows the error.
StreamPollError ==
  /\ InRequestBytes
  /\ "poll" \in Faults
  /\ streamState' = "KAFKA_STREAM_EOF"
  /\ Return(batch)
  /\ UNCHANGED <<topicVars, compVars, wasInterrupted, traceVars, stream,
                 pending, canceled, auditVars>>

(***************************************************************************)
(* The specification.                                                      *)
(***************************************************************************)

TopicStep ==
  /\ Produce \/ AutoCommit
  /\ UNCHANGED <<compVars, iter, wasInterrupted, traceVars, streamVars,
                 outVars, canceled, auditVars>>

MetadataStep ==
  \/ MetadataTimeout \/ MetadataPollError \/ MetadataDiscard
  \/ MetadataNoMemstream \/ MetadataRejected \/ MetadataNotConfigured
  \/ MetadataUpdate

StreamStep ==
  \/ BorrowStream \/ BorrowStreamFails \/ DecodeEvent \/ StreamBytes
  \/ StreamDiscard \/ StreamTimeout \/ StreamPartitionEof \/ StreamPollError

LifeStep ==
  \/ ComponentInit \/ MsgIterInit \/ MsgIterInitFails \/ MsgIterInitNoConsumer
  \/ MsgIterFinalize \/ ComponentFinalize \/ Crash

Next ==
  \/ TopicStep \/ LifeStep \/ Cancel
  \/ NextInterrupted \/ MetadataStep \/ NextEnter \/ NextNoCtfMsgIter
  \/ StreamStep

Spec == Init /\ [][Next]_vars

\* A poll that finds a message waiting.
PollMessage ==
  \/ MetadataDiscard \/ MetadataNoMemstream \/ MetadataRejected
  \/ MetadataNotConfigured \/ MetadataUpdate
  \/ StreamBytes \/ StreamDiscard

\* A poll of an exhausted topic that times out.
PollTimeout == pos = Len(log) /\ (MetadataTimeout \/ StreamTimeout)

\* The graph goes on calling next, which runs to its end, and a topic that is
\* polled again and again yields a waiting message, or a timeout if it has none.
Fairness ==
  /\ WF_vars(NextInterrupted \/ NextEnter \/ NextNoCtfMsgIter)
  /\ WF_vars(BorrowStream \/ DecodeEvent)
  /\ SF_vars(PollMessage)
  /\ SF_vars(PollTimeout)

FairSpec == Spec /\ Fairness

(***************************************************************************)
(* Properties.                                                             *)
(***************************************************************************)

\* The items taken from the topic and decoded, or about to be.
Taken == out \o batch \o pending

Ended == iter \in {"none", "failed"}

\* Items leave in topic order and none leaves twice, whatever the size of the
\* graph's array and however the messages fall into polls, partly filled
\* batches and swallowed errors (kafka_msg_iter_callback, medop_request_bytes).
DeliveryInOrder == Ordered(Taken)

\* Of the stream data polled since the DOF was decoded, every event is handed
\* to the graph or still in hand: a full array, an error of a later poll, a
\* failed stream or a discarded message lose none (kafka_msg_iter_callback).
NothingSkipped ==
  {e \in Items(Taken) : e.idx > 0} =
     IF base = 0 THEN {} ELSE Events(log, base, pos)

\* The stream beginning comes first and once: the graph never sees an event of
\* a stream that has not begun (medop_borrow_stream).
StreamBeginsFirst ==
  /\ \A i \in 1..Len(Taken) : Taken[i].idx = 0 => i = 1
  /\ stream <=> Taken # <<>> /\ Taken[1].idx = 0

\* What is decoded was described: a good DOF that this iterator polled lies
\* before it, and the trace and the CTF message iterator made of it exist
\* (kafka_metadata_update, kafka_lazy_msg_init).
MetadataFirst ==
  \A e \in Items(Taken) :
    /\ base \in 1..(e.off - 1)
    /\ IsGoodDof(log[base])
    /\ irTrace = "ready"
    /\ ctfMsgIter

\* The component knows of its message iterator exactly while there is one, and
\* only an iterator has a consumer, made of the component's configuration; no
\* exit of kafka_msg_iter_init or _finalize breaks the bond.
OneMsgIter ==
  /\ hasMsgIter <=> iter # "none"
  /\ consumer = "open" <=> iter # "none"
  /\ iter # "none" => comp = "live" /\ conf = "consumer"

\* What the parts of the source know of each other: nothing is decoded without
\* a described trace and a CTF message iterator, nothing is stored outside a
\* call of next, and nothing leaves a stream that has not begun.
Lifecycle ==
  /\ iter = "none" => newMetadataNeeded /\ ~wasInterrupted
  /\ newMetadataNeeded => base = 0 /\ iter # "batch" /\ ~ctfMsgIter
  /\ ~newMetadataNeeded =>
       base \in 1..pos /\ IsGoodDof(log[base]) /\ irTrace = "ready"
  /\ iter = "batch" => ctfMsgIter /\ ~wasInterrupted
  /\ iter # "batch" => batch = <<>>
  /\ ~stream => out = <<>> /\ batch = <<>>
  /\ ~ctfMsgIter => ~stream /\ pending = <<>>

\* Where the items in hand come from.
Positions ==
  /\ \A e \in Items(Taken) : e.off \in (base + 1)..pos /\ IsData(log[e.off])
  /\ \A e \in Items(pending) : e.idx > 0

\* The inductive invariant behind the theorems of KafkaSourceProofs.
Delivery ==
  /\ Positions
  /\ DeliveryInOrder
  /\ StreamBeginsFirst
  /\ NothingSkipped

IInv == TypeOK /\ OneMsgIter /\ Lifecycle /\ Delivery

\* Once a poll has noticed the interruption, nothing reaches the graph any more
\* and the iterator stays interrupted (kafka_msg_iter_next, was_interrupted).
InterruptIsFinal ==
  [][wasInterrupted /\ iter' # "none" => wasInterrupted' /\ out' = out]_vars

\* The source implements the abstract delivery.
Abstract == INSTANCE OrderedDelivery
ImplementsOrderedDelivery == Abstract!Spec

\* A good DOF ahead of the consumer is decoded at last (kafka_metadata_update).
DofDecoded ==
  (~Ended /\ newMetadataNeeded /\ \E o \in (pos + 1)..Len(log) : IsGoodDof(log[o]))
    ~> (~newMetadataNeeded \/ Ended)

\* Stream data produced after the DOF reaches the graph (kafka_msg_iter_next).
DataDelivered ==
  \A o \in 1..MaxLog :
    (~newMetadataNeeded /\ o \in (base + 1)..Len(log) /\ IsData(log[o]))
      ~> (Ended \/ (o <= Len(log) /\ EventsOf(log, o) \subseteq Items(out)))

\* A source of a topic that falls silent obeys the interruption of the graph
\* (was_interrupted set by a poll that times out).
CancelStops == canceled ~> Ended

\* kafka_msg_iter.c:134: the stream iterators are destroyed with the iterator.
StreamItersDestroyed == comp = "live" /\ iter = "none" => streamIters = 0
=============================================================================
