# A verification development for dtrace2babeltrace

The repository holds experimental plugins for babeltrace2: a source that reads
DTrace records from a Kafka topic and turns them into CTF trace messages, and
two sinks that send trace messages on, one to InfluxDB and one to Jaeger. This
directory models that program in TLA+, checks the models with TLC on small
instances and proves theorems about them with TLAPS.

## 1. The system

| component | state it keeps | operations | interacts with |
|---|---|---|---|
| kafka source (`dtrace/kafka-src/kafka_*.c`) | the component's configuration and `has_msg_iter`; the iterator's consumer and `was_interrupted`; the trace's `new_metadata_needed`, trace class, stream iterator; the stream iterator's bytes, stream and state | component init / finalize / query, iterator init / next / finalize, metadata update, lazy creation of the CTF iterator, the two medium callbacks | polls librdkafka; is called by the graph; calls dof2ctf, the CTF metadata decoder and the CTF message iterator, which calls it back |
| dof2ctf (`dof2ctf.c`, `dof.c`, `bbuf.c`) | the DOF being walked; the CTF trace being built | one conversion of a DOF into TSDL | called by the metadata update; drives ctf-writer |
| ctf-writer field types (`field-types.c`) | a graph of types with their frozen and valid flags, alignments, mappings, tags and choices | create, set, add a field, a mapping or a choice, freeze, validate, compare, copy | members may be shared; classes and fields refer to them |
| ctf-writer classes (`trace.c`, `stream-class.c`, `event-class.c`, `clock-class.c`, `validation.c`, `resolve.c`, `object.h`) | parents and reference counts, frozen flags, ids, clock classes, the types of every scope | create, set, add, get, put, validate, resolve | dof2ctf builds a trace with them; they freeze, copy and resolve field types |
| ctf-writer streams (`stream.c`, `event.c`, `fields.c`, `clock.c`, `writer.c`) | the values of fields, pending events, the packet context, counts of discarded events, the end of the last packet | set, append, discard, flush, put | stream classes make streams, event classes events; a flush writes to a file that may fail |
| influxdb sink (`db/influxdb/influx.cxx`, `influxdb-cxx`) | the upstream iterator, the last timestamp and the unique count; the client's buffer | init, graph configured, consume, finalize; write, flush, transmit | takes arrays of messages upstream; posts lines to InfluxDB |
| jaeger sink (`opentracing/jaeger/jaegertracing.cxx`) | the upstream iterator, the map of open spans | the same callbacks; start and finish a span | takes arrays of messages upstream; reports spans to Jaeger |
| plugin registration (`plugin.c`) | none | tables of callbacks | libbabeltrace |

One thread runs the graph: it calls `next` of the source through the sink's
`consume`, over and over. Around it move the producer of the topic, librdkafka
with its background commits, and the user, who may interrupt the graph; every
one of these acts while `next` polls.

What is hard, per component, and the properties that make it correct:

- *source*: arrays filled in the middle of a message, polls that bring errors,
  data before and DOFs after the description, interruptions noticed only by a
  poll that times out, restarts in the same consumer group, initialisation
  that fails half way. Correct: every event after the DOF reaches the graph
  once, in order, after the beginning of its stream, described by a DOF
  decoded before it; nothing after an interruption was noticed; iterator,
  consumer and configuration stay together; a DOF that is there is decoded,
  data that is there is delivered, an interruption of a silent topic is obeyed.
- *sinks*: messages released once each on every path but the one where an
  exception ends the program; no point lost, repeated
  or overwritten; every entry paired with its return.
- *dof2ctf*: no partial description for a truncated DOF; unique ids; an end of the
  loops, whose step is a number of the DOF.
- *field types*: shared members, frozen through one parent and set through
  another; the writer's own setters, which do not look whether a type is frozen;
  values cached at freezing; copies of nested types. Correct: what is
  frozen keeps its layout down to the last member but for what the writer itself
  replaces, what is cached is true, a copy is equal and separate.
- *classes*: checks made when a class joins a parent and relied on later,
  in any order of setters, additions and first events; names of lengths and tags
  looked up from the inside out; trees freed as one; types that several classes share;
  a class added a second time. Correct: a tree lives while
  any of it is held; one clock class per stream class; what a trace took and owns stays
  valid, frozen and resolved; ids differ.
- *streams*: flushes that fail half way and are tried again, fields written
  twice, an event's references that change hands. Correct: an event is in one
  place, a class outlives its orphans, packets can be cut apart by a reader,
  their times enclose what is in them, and what waits can be written.

## 2. Modules

| module | models |
|---|---|
| `KafkaTopic` | the topic, the consumer and its group (librdkafka, external) |
| `DeliveryOrder` | items, their order, the events a stretch of the topic holds |
| `OrderedDelivery` | the abstract specification: what the source promises downstream |
| `KafkaSource` | the source, all of it that changes state while a graph runs |
| `SinkConsume` | what both sinks share: the life of the component's data and the loop of `consume()` |
| `InfluxSink` | the influxdb sink with its client's buffer |
| `JaegerSink` | the jaeger sink with its map of spans |
| `Pipeline` | the graph: `KafkaSource` and `InfluxSink` composed, from the topic to the database |
| `Dof2Ctf` | `dof2ctf()`: the conversion of a DOF into the description of a trace |
| `FieldTypes` | the field types of the CTF writer: the graph of types under every creator, setter, freeze, validation and copy |
| `Validation` | how the types of all six scopes are copied, resolved, validated and taken over |
| `Classes` | writer, trace, stream and event classes: lifetimes, ids, freezing, clock classes, additions |
| `Fields` | the fields: trees of values that are set, resized, frozen, validated, visited for their clock values and written |
| `Streams` | events, streams, append and flush |
| `KafkaSourceProofs`, `SinkProofs`, `PipelineProofs`, `Dof2CtfProofs`, `FieldTypesProofs`, `ValidationProofs`, `ClassesProofs`, `StreamsProofs` | lemmas and theorems |
| `MCKafkaSource`, `MCInfluxSink`, `MCJaegerSink`, `MCPipeline`, `MCDof2Ctf`, `MCFieldTypes`, `MCValidation`, `MCClasses`, `MCStreams` | the messages, traces, DOFs, types and clients TLC checks them on |

`KafkaSource` extends `KafkaTopic` and `DeliveryOrder` and is shown to
implement `OrderedDelivery`. `InfluxSink` and `JaegerSink` extend
`SinkConsume`. `Pipeline` instantiates `KafkaSource` and `InfluxSink`.
The three levels of the CTF writer meet through what one hands to the next:
`FieldTypes` has the types and says nothing of who uses them; `Validation` has
types as trees with names and finds what the names denote; `Classes` keeps of a
type only what a class checks (is it there, is it sound, does it fit its scope,
which clocks does it map to) and takes for granted that the result of a
validation is the one that `Validation` describes; `Streams` starts with
classes in place.

### KafkaSource

A step is a stretch of code between two polls, since nothing else can move in
between. `MsgIterInit*` are the exits of `kafka_msg_iter_init()`;
`MetadataTimeout` ... `MetadataUpdate` are the outcomes of one call of `next`
before the DOF (`kafka_metadata_update()` and the lazy creation after it);
`NextEnter`, then `BorrowStream`, `DecodeEvent`, `StreamBytes` and the rest,
are the loop of `kafka_msg_iter_callback()` with the CTF message iterator
(external) calling `medop_borrow_stream()` and `medop_request_bytes()`.

| variable | code |
|---|---|
| `comp`, `conf`, `hasMsgIter` | `struct kafka_component`, who owns its `conf`, `has_msg_iter` |
| `iter`, `wasInterrupted` | `struct kafka_msg_iter`, and where the graph is with it |
| `newMetadataNeeded`, `irTrace` | `struct kafka_trace` |
| `ctfMsgIter`, `stream`, `streamState` | `struct kafka_stream_iter` |
| `pending` | the events of the polled message the CTF iterator has not decoded |
| `batch` | `cb_data.msgs[0 .. count - 1]` |
| `out`, `base`, `lives` | history: what was handed on, the DOF it was decoded with, runs of the program |
| `streamIters`, `failedAsserts` | audit: stream iterators allocated, debug assertions that failed |

The release build is modelled: `BT_ASSERT_DBG` is compiled out. The outcome of
a DOF (good, incomplete, rejected by the decoder, malformed for dof2ctf) is a
property of the message; the failures that do not depend on the message are in
the constant `Faults`.

Two things have no action of their own. A poll that ends with AGAIN
and changes nothing (an interrupted system call, the end of the partition
before the DOF) is a stuttering step. The graph is taken to finalize an
iterator whose `next` returned ERROR, which is what libbabeltrace does.

### SinkConsume, InfluxSink, JaegerSink

`influx.cxx` and `jaegertracing.cxx` contain the same callbacks twice.
`InitSucceeds`, `InitFails` and `CreateFails` are the exits of `*_init()`,
`GraphIsConfigured*` of `*_graph_is_configured()`, `Consume*` the answers of
upstream inside `*_consume()`, `Handled` and `HandleFails` one turn of its loop
with the release of the messages, `Finalize` is `*_finalize()`.

| variable | code |
|---|---|
| `sink` | where the graph is with the component (`handling`: inside the loop of `consume()`) |
| `iterator` | the upstream iterator's field, which `influxdb_init()` leaves uninitialised: `"null"` or `"junk"` |
| `seen`, `handled`, `released` | the messages received, how many were handled, how often each was released |
| `tsVal`, `uniqCnt` | `influxdb_component.ts_val`, `uniq_cnt` |
| `mBuffer` | `InfluxDB::mBuffer` |
| `points`, `stored` | history: the points made, the points the database accepted |
| `spans`, `finished` | `jaeger_component.spans`; history: the spans finished |

`Buffer`, `Transmit` and `TransmitFails` are `handle_message()` for an event:
`Tag` is the choice of the tag `uniq`, the rest is `InfluxDB::write()` with
`flushBuffer()` and the HTTP post, which may fail after the server took the
lines. `HandleEvent` of `JaegerSink` cuts the name of the event class as
`handle_message()` does, with the colon left on the second part.

### Pipeline

One thread runs the graph. While `sink = "handling"` the source stands still;
while the sink waits (`sink = "idle"`) the source runs; the topic, librdkafka
and the user move at any time. `Deliver` is the return of the source's `next`
with the array for which `consume()` waits, `Configure` the creation of the
iterator from `graph_is_configured()`, `Destroy` the release of the iterator by
`influxdb_finalize()`, which finalizes the source's. `db` keeps, with each
point in the database, the item of the topic it was made of: the program cannot
see it, the properties compare by it. The sink takes an array only if it is in
time order (`InTimeOrder`) and only up to `MaxSeen` messages: the first is a
theorem about the source (`SourceMeetsSink`), the second a bound of the instance.

### Dof2Ctf

A DOF is a sequence of sections that refer to one another by number. `Setup`
is the code before the loop, `SkipSection`, `SkipEcb`, `LoadEcb`,
`LoadEcbFails` a turn of the loop over sections, `LoadAction*` a turn of the
loop over actions with `dof_load_difohdr()`, `AddEventClass` the end of an ECB,
`Write` the text written to `fp`. `WriterFails` stands for the goto of every
call of the CTF writer.

The loop over actions has two steps that need not agree: its offset `idx` grows by
the entry size that the DOF states (`dof2ctf.c:511`), the pointer `actdesc` by the size of
the structure, `ActSize`. Sizes are counted in halves of an action, so that entries have
no size, are smaller, as large, or larger. When the pointer leaves the section before the offset
does, `Actdesc` is any of `Strays`, what the memory behind the section may look
like, or the process dies (`Crash`); with an entry size of zero that is the only way out.

| variable | code |
|---|---|
| `secNum`, `idx`, `rec`, `epid` | `sec_num`, the offset in the actions, the number of the action at `actdesc`, the id of the next event class |
| `fields` | the fields of the event class under construction |
| `classes` | the event classes of `stream_class` |
| `written`, `result` | what `fp` received, what `dof2ctf()` returned |

### FieldTypes

`ft` is the sequence of field types, a type is a record of the fields of
`struct bt_ctf_field_type_common` and of its kinds, and refers to others by
their index, so that members can be shared. A `Create*` is a creator, `Set*` and
`Add*` are the setters with their checks of `frozen`, `Freeze`, `Validate`,
`Copy` and `GetAlignment` are the recursive methods (getting an alignment
stores it). The numbers a kind keeps (size, base, encoding, digits, length) are one
value, `data`. Mappings of an enumeration are ranges of `Bits` bits, which are
compared as signed or unsigned values (`View`).

Two setters do not look whether the type is frozen, because the writer calls
them itself. `MapClockClass` is `structure_replace_field()` as a stream class calls it:
the copy of an integer, with a clock class and neither frozen nor valid, takes the place of
the integer in the structure; `mapped` are the copies that came in this way.
`SetTagFieldType` is `variant_set_tag_field_type()` as resolving calls it, on
a variant that is frozen and not valid yet.

`lender` is the variant in whose memory the ranges of a copy are:
`bt_ctf_field_type_variant_copy_recursive()` assigns the header of the array of
ranges instead of its elements (`field-types.c:5443`). `FindChoice`, which computes the
ranges of a variant, writes to this memory: each of the variants that share it finds
the new ranges there, or the old ones if the memory was moved meanwhile.

### Validation

A type is a tree with the identity of the object at each place; two places may
hold one object. `ValidateClass` is one of the three stretches of
`bt_ctf_validate_class_types()`: copies are made where `NeedsCopy` finds a
sequence or a variant, `Linked` resolves them up to the first that has no target
(`Goes` is a round of the loop over the tokens of a name, `Found` the search from
the innermost structure outwards, `IsBefore` and `Suits` are
`validate_target_field_path()`), `Complete` says that none was left, and `IsSound`
stands for the validation of the types themselves. `Replace` is the take-over of the result by the classes.

| variable | code |
|---|---|
| `given`, `asked`, `known` | the types, `validate_flags`, the `*_valid` arguments |
| `copies`, `frozen`, `valid` | the output's types, whether they are frozen, `valid_flags` |
| `path`, `tag` | the length and tag field paths, the tag types of variants |

### Classes

| variable | code |
|---|---|
| `heap`, `held` | `ref_count` and `parent` of the objects; the references the client owns |
| `streams`, `events`, `index` | `trace->stream_classes`, `stream_class->event_classes` and its table by id |
| `id`, `nextStream`, `nextEvent` | ids, `next_stream_id`, `next_event_id` |
| `frozen`, `valid`, `late` | flags of the classes; stream classes given an event header type after they were frozen |
| `type`, `same`, `hard`, `open` | the field type of every scope; which scopes hold the same object; whether it is frozen; whether a timestamp was put into it since it was |
| `own`, `expected`, `clocks` | `stream_class->clock`, `->clock_class`, `trace->clock_classes` |
| `word`, `env`, `fixed` | other attributes; the environment and its frozen values |

`TraceAddStreamClass` and `StreamClassAddEventClass` are the additions with all
their checks, from the single clock class to the ids (`TakesStreamClass`,
`TakeId`, `NewId`), and with the freezing that follows. `Taken`, `Dropped` and
`Destroyed` are the reference counts, where a count that rises from zero holds
the parent and one that falls to zero lets it go. `EventCreate` stands for the
first event of a class, which validates and freezes its stream class before any
trace does. Failed allocations are left out: each ends the call that made it.

Field types are objects that scopes of one name may share: a client keeps the type of
a scope and gives it to another one (`Offers`, `Gives`), sets it (`FieldTypeSet`),
or makes a field of it, which freezes it (`FieldCreate`). What a call does to a type all
its scopes see. `TypesSettle` is what an addition or a first event does to types: copies of
those with sequences or variants leave the shared object (`Copied`, `Split`), the
timestamps of packet context and event header are mapped to the class of the stream
class's clock inside the object, frozen or not (`Unmapped`,
`stream-class.c:776-790`), and all of them are frozen. A timestamp that came into
a type after that was frozen is not frozen, and a client can set it (`SetTimestamp`):
the type is `open`.

`AddAgain` is the error path of an addition: a class that has a trace is refused, and
the refusal takes its parent away (`trace.c:1242`). The trace goes on listing a class
that is a tree of its own from then on, and that can be added, and listed, once more.

### Fields, Streams

A field is a function from the places of its tree to its parts: a place is the
sequence of the numbers that lead to it, of a member, of a choice, of an element. `Shape`
describes the types, `Order` lists every place an instance has room for, in the
order in which the parts are written. What a recursive method of the eight
classes does to a field is then said of its parts: `IsValid` and `Freeze` of all those
that the method goes down to, `Serialize` and `VisitedClock` of one part after
the other in the order of `Order`. Which parts those are differs from
method to method, as it does in the code: freezing a sequence stops at its length,
writing it goes on to the last element there ever was (`fields.c:1099`),
and a variant that is met has the choice that was made last (`Chosen`,
`Inside`, `Reached`). No operator is `RECURSIVE`, so that the prover can take part.

In a build with `BT_DEV_MODE` a field knows whether it is set and is
frozen, in the other these checks are macros that say yes; `dev` says which.
A value has `WordBits` bits and wraps.

| variable | code |
|---|---|
| `layout` | the types of packet header, packet context, event header, contexts and payloads |
| `stream` | `events`, `packet_context`, `discarded_events`, `last_ts_end`; the file; history: what was appended |
| `event`, `classRefs` | events, their parent and fields; the references events hold on their class |
| `nextId`, `clock` | `next_stream_id`, the clock's value |

`Flush` is `bt_ctf_stream_flush()` in one step, because the client calls it from
one thread: the automatic fields (`WithTimestamps`, `WithDiscarded`, `WithSizes`),
the first pass over header, context and events (`FirstPass`), the sizes, the second
pass over the context, and the reset of the automatic members on every exit. Only
`Writes` lets the events go; `RefuseFlush` is the return before a second packet
that a file without packet sizes cannot have.
Each call of the serializer may fail (`FailSets` says which of one flush).
Between the calls the client may set a value, resize a sequence, select a choice or replace
a member of the payload wherever it can get hold of the part: an event that it
holds it can still edit after the event was appended. Only `frozen` stops it, only with
`BT_DEV_MODE`, and not from selecting a choice.
Flushes that the program does not survive are left out: a packet
context without a member for the packet size (`stream.c:374` sets it unasked),
a computed value that its member cannot hold with `BT_DEV_MODE`, and a
variant without a choice met by the serializer.
`AppendEvent` is `bt_ctf_stream_append_event()` with the automatic event header
(`PopulatedEventHeader`: id and timestamp are set only where the member `id` is an integer, since
`stream.c:1347` tests the class of `id` where it means that of `timestamp`); an event
that it refuses stays as it was, and one that fails its assertions ends the
program, so neither is a step. Nor is the append of an event whose header has a
timestamp and no `id`: the test dereferences NULL (`Survives`).

## 3. Runs

Each passing run checks every listed property over all reachable states of its
instance; each property has a plausible fault of the code it was seen to catch.

| run | properties | instance |
|---|---|---|
| `source_safety` | `TypeOK` `DeliveryInOrder` `NothingSkipped` `StreamBeginsFirst` `MetadataFirst` `OneMsgIter` `InterruptIsFinal` `ImplementsOrderedDelivery` | topics of up to 4 messages of 6 kinds, arrays of 2, two runs of the program in one group, every failure |
| `source_live` | `DofDecoded` `DataDelivered` `CancelStops` | topics of up to 3 messages, poll errors |
| `influx_safety` | `NoneOverwritten` `StoredIsPrefix` `LossIsBounded` `ReleasedOnce` | traces of up to 5 messages, arrays of up to 2, batches of 2, every failure |
| `jaeger_safety` | `EndsAtNameless` | traces of up to 4 messages of 6 kinds, arrays of up to 2 |
| `pipeline` | `StoredAreFirstDue` `EventsBecomePoints` `EventsArrive` | topics of up to 3 messages with 1 or 3 events each, arrays of 2, batches of 2, failures of both components |
| `dof2ctf` | `DescribesAllOrNothing` `CutOffIsRefused` `OnlySizedIsDescribed` `Returns` | DOFs of two ECBs of every kind, or three good ones, sharing actions and DIFOs that load, do not load, or lose a section; entries of no size, half, one and a half of an action's; up to `MaxStrays` = 2 actions read behind a section |
| `field_types` | `FlagsAreDeep` `CachesAreTrue` `CopyIsEqual` `FrozenUnchanged` | four trees, two with shared members, then every 3 calls, the writer's own included; up to 8 types of every kind |
| `validation` | `LinksAreRight` `ValidIsComplete` `GivenUntouched` | four packet headers, three stream event contexts, 7 payloads with 10 paths each, 3 requests |
| `classes` | `AliveTogether` `OneClock` `TraceIsValid` `FrozenStays` | two stream and one event class, or one and two; two clocks; event headers that are shared; clients with budgets of setters and of references |
| `streams` | `EventsHaveOneHome` `OrphansHoldTheirClass` `PacketsAreReadable` `TimesEnclose` `FirstWrapIsCarried` `PendingCanBeWritten` | fifteen families of clients with their own types, up to 2 streams and 3 events, words of 9 bits, up to 4 flushes, the failures of a flush |
| `class_ids`, `streams_whole` | one each, violated | see the findings below |

Why the bounds are enough:

- *Source.* An array of 2 and messages of 1 and 2 events meet every case of the
  loop: an array filled by a stream beginning and an event, filled in the
  middle of a message, partly filled when a poll brings nothing. With 4
  messages a DOF can be preceded by data, followed by data and by a second DOF,
  and another run of the program can start at a committed position in the
  middle. A third run meets nothing that the second did not. `pos` and `out`
  carry all of the past that the code remembers.
- *Influx sink.* Five events with three instants, the first of them 0 (the value
  `ts_val` starts with), give three points of one instant across two arrays and
  two batches, and a change of instant at every place.
- *Pipeline.* One event and three events per message make the cuts of arrays
  and batches fall at different places, so that arrays end inside messages and
  batches inside arrays; three messages leave a buffered point when the graph
  ends.
- *Dof2Ctf.* The state of the conversion is the place in the DOF and the number of
  ids given; what one ECB finds does not depend on an earlier one except
  through these, and two or three ECBs show each failure before and after one
  that succeeded. `MaxStrays` bounds how far the loop over actions reads behind its
  section before the process dies: a second stray action meets what the first one
  has left, and nothing else.
- *FieldTypes.* A member shared by two parents, one inside the other or side by
  side, is the smallest graph in which a path exists that freezing did not take; three
  calls are enough to add, freeze or validate, and change, in every order; to map a
  timestamp in a structure and copy it; or to copy a variant whose ranges are known, add to
  its tag, and compute them again. With one bit a
  mapping's bounds differ as signed and unsigned values.
- *Validation.* One source of every kind per payload with the target before it,
  after it, beside it in a structure, around it in an array, in an earlier or a later scope, or
  nowhere, one object at two places, and names that repeat on one way, so that a name
  leads to two fields from different depths; deeper trees repeat these steps. `MaxDepth`
  is the depth of the deepest of them.
- *Classes.* Two of each class show the first and the next id, the first and the
  second clock. The budgets (`sets`, `refs`) bound the setters and the references taken or
  let go, not the additions: two settings with a reference, one with
  two, or five references show every order of set, add, freeze and release, and an
  addition that is repeated counts as a reference. Three settings, for two stream
  classes whose headers have timestamps, are what it takes to share a header, give both
  a clock, and see the second one mapped into the first one's frozen type. Only types of event headers are kept and
  shared (`Kept`): with a type of its own for every scope the sharing of one scope says
  nothing of another.
- *Streams.* A client's budget bounds streams, events, references let go
  (`puts`), edits of fields, ticks of the clock, flushes, and flushes that fail. Each family
  of clients is built for one question (times, times of or without a packet context, failed flushes, narrow clocks, sizes,
  identifiers, counts, fields of every class); three flushes are a first one, one that fails and one
  after it, and four let a narrow clock wrap twice. The places of a field (`MCOrder`) have room for a sequence of sequences, a variant
  beside its tag and an array, each with two parts. With 9 bits times and counts wrap (`Counts` holds 511, and so does
  `Times`: the value that stands for no time).

Deadlock is not checked: programs end, a graph may stop for good after its
allowed runs, a conversion returns, a client has spent its calls.

### Fairness

`KafkaSource!FairSpec`: the graph keeps calling `next` (`WF` on the entries of
`next`), which is what `bt_graph_run()` does, and code between polls runs on
(`WF` on the callbacks). A poll of a topic with a message waiting returns that
message sooner or later, and one of an exhausted topic times out (`SF`:
between polls these actions are not enabled, so weak fairness would not do;
librdkafka's `consumer_poll` has a timeout of its own). Nothing is assumed of
the producer, the user, or of failures. `Pipeline!FairSpec` assumes the same of
the source and that the sink handles the array it received. `Dof2Ctf!FairSpec`:
a function call goes on.

`CancelStops` holds because the model has a bounded producer: an interruption
is noticed only by a poll that times out, so a topic that never falls silent
keeps the source from obeying. This is what the code does
(`kafka_metadata_update()`, `medop_request_bytes()`), and the property says it
of a topic that falls silent.

### Findings

Two statements of the code are refuted by a run of their own:

- `class_ids`: "Two event classes cannot share the same ID in a given stream
  class." (`stream-class.c:124`), but an explicit id does not move
  `next_event_id`, and a class without an id is not compared: the id 0 given by the client and
  the first automatic id are the same.
- `streams_whole`: "The whole packet is serialized at this point."
  (`stream.c:1781`), but `bt_ctf_field_structure_serialize_recursive()`
  overwrites the failure of a member with the success of a lookup of its name
  (`fields.c:1024`).

Others are stated in the modules without a run; TLC refutes each when it is
added to the configuration named:

- `StreamItersDestroyed` (`source_safety`): "All stream iterators must be
  destroyed at this point" (`kafka_msg_iter.c:134`), but the iterator is freed
  without its trace.
- `AssertionsHold` (`pipeline`): the assertions `metadata != NULL`
  (`kafka_stream_iter.c:360`) and `influxdb->iterator != NULL`
  (`influx.cxx:734`) fail whenever a graph is configured in a debug build.
- `FlushedAtEnd` (`influx_safety`): "Flushes buffer" (`InfluxDB.h:32`), but the
  client's destructor is never called, and the points of an incomplete batch are
  lost.
- `EntriesStart` (`jaeger_safety`): "Start the span and store"
  (`jaegertracing.cxx:440`), but the name is compared with its colon, so no span
  is ever started.
- `ErrorsFail` (`dof2ctf`): "Any error in parsing the DOF result in failure"
  (`dof2ctf.c:375`), but a DIFO whose section cannot be found loads with
  success, after its buffer was deleted twice.
- `NestedAreValid` (`field_types`): "A valid field type is _always_ frozen.  All
  the nested field types of a valid field type are also valid (and thus frozen)." (`field-types.h:99`), but
  a timestamp that is mapped to a clock class is put into a valid structure as a copy that
  is neither (`stream-class.c:788`).
- `FrozenIsFinal` (`field_types`): "A type can't be modified once it is added to an
  event" (`field-types.h:93`), but the writer replaces members (`field-types.c:1818`) and
  sets tags (2973) of frozen types.
- `RangesAreOwn` (`field_types`): a call changes the ranges of one variant at most;
  but a copy of a variant uses the memory of the original's ranges (`field-types.c:5443`).
  That a copy always compares equal is refuted by a fourth call: a mapped timestamp
  whose alignment was raised afterwards outgrows the alignment that its frozen structure
  has kept and the copy computes, hence the condition `Covers` of `CopyIsEqual`.
- `MappedForGood` (`classes`): "after this point, everything is frozen so it won't be
  possible for the user to modify the stream class's clock, or to map those field types to other
  clock classes" (`trace.c:1168`), but a timestamp mapped inside a frozen type is not frozen.
- `ListedAreAlive` (`classes`): a trace that lives lists living stream classes only;
  but one that was added twice lost its parent (`trace.c:1242`), and is destroyed
  when its client lets go of it.
- `StreamIdsDiffer` (`classes`): the stream classes of a trace can be told apart;
  but explicit ids are never compared (`trace.c:1103`).
- `TimesAdvance` (`streams`): no packet of a clock narrower than a word ends before it
  begins; but the carry of a wrap is or-ed in (`stream.c:514`) and is lost when
  the bit is set already, so that from the second wrap on times may go back: four events
  of a clock of one bit are enough.
- `DiscardedNeverDecreases` (`streams`): "make sure that the value is greater than or equal to the
  stream's current count of discarded events. We do not allow wrapping here."
  (`stream.c:445`), but a count of the client that is less is only logged: `ret`
  is still 0 (`stream.c:462`), and the packet is written with it.

## 4. Proofs

All theorems are proved for every value of the constants; the assumptions are
those the modules name. Where an invariant is not inductive the module defines
`IInv`, and the proof module shows `Init => IInv`,
`IInv /\ [Next]_vars => IInv'`, one lemma per action or group of actions.

**KafkaSourceProofs** (under `TopicAssumption`, `SourceAssumption`). `IInv` is
`TypeOK /\ OneMsgIter /\ Lifecycle /\ Delivery`. `NothingSkipped` alone is not
inductive: that the events in hand are exactly those polled since the DOF needs
to know that there is no pending event without a CTF message iterator, that
nothing is in hand before the DOF (`Lifecycle`), and that what is in hand lies
between `base` and `pos` (`Positions`). Taking a message appends the events of
offset `pos + 1` to `Taken`, all of which come after what is there; the lemmas
about appending to an ordered sequence, and about the events of a longer
stretch of the topic, come first in the module. Theorems: `TypeCorrect`,
`InOrder`, `NoneSkipped`, `BeginsFirst`, `OneIterator`, `DescribedFirst`, the
action property `InterruptedForGood`, and the refinement `Implements`: every
step of the source is a step of `OrderedDelivery` or a stutter. For that a
return from `next` must hand on the *next* events due and not only some of them
in order; this follows from `NothingSkipped` and `DeliveryInOrder` before and after
the step, and from `Positions`, by which what is in hand is stream data of the
topic as it still is after it has grown.

**SinkProofs** (under `SinkAssumption`, `BatchAssumption`). `IInv` adds to
the properties that `ts_val` is the last event's timestamp, that no tag given
at it reaches `uniq_cnt` (`TagsBelow`: this is what makes a new point different
from all before it) and that the buffer never holds a full batch. That messages
come in the order of their timestamps is an assumption about upstream, built
into `ConsumeArray`. The lemmas about the loop that both sinks share
(`LoopInvArray` and its neighbours) speak of `SinkConsume` alone. `JaegerSink` is an
instance in this module, with the loop's variables in common, so that the same
lemmas prove its `ReleasedOnce`, and its types, from `SinkAssumption`; a name without
a colon, whose exception nothing catches, is the one way to leave the loop with
messages that are not released, and `EndsAtNameless` says that it is the only way to
die. Theorems: `PointsDistinct`, `NoneLostAlive`,
`StoredInOrder`, `BoundedLoss`, `EachReleasedOnce`, `JaegerInvariance`, `JaegerReleasesOnce`,
`JaegerDiesAtNameless`.

**PipelineProofs** (under `PipelineAssumption`, which is the assumptions of both
components, a positive `Tick`, and that a word is a string, which the prover has
no other way to know). The module takes over the theorems of the two components:
`SourceThm` and `SinkThm` are instances of their proof modules, and a few
lemmas (`SameSourceNext` and the like) say that these speak of the states and steps
`Pipeline` speaks of. `IInv` is the invariant of the source, that of the
sink, and `Linked`: the sink has an iterator exactly while the source has one, what
it has seen are the items handed on, its points are those items but the first, and
what is in the database was made of the item at its place. That every step of
the graph is a step of each component or leaves it alone (`SourceMoves`, `SinkSteps`)
gives the first two; `HandlesLinked` and `DeliverLinked` are the steps where `Linked`
is at stake. An item's rank among the events due is its place in what was taken
(`RankIsPlace`, by a bijection with an interval). Theorems: `FirstDueAreStored`,
`EachBecomesAPoint`; `SourceMeetsSink`, by which what the sink assumes of upstream is
what the source does; `GraphRunsSource` and `GraphDeliversInOrder`, by which
whatever is proved of the source holds in the graph.

**Dof2CtfProofs** (under `DofsAssumption`). `IInv` says that the classes made so
far are the description of the sections so far (`Converted`), that the fields
made so far are those of the actions so far (`Converting`), and that all the
ECBs passed could be loaded. The id of an ECB is defined by counting, the
proof steps the count by one with the cardinality theorems. Of an ECB whose entries have no size the loop
never gets to the end, so no section after it is reached (`Sized`); what was read behind
a section is left out of what a class is compared with (`OwnClass`). Theorems:
`AllOrNothing`, `DenseIds`, `CutOffRefused`, `UnsizedRefused`.

**ValidationProofs** (under `ValidationAssumption`: a class is validated only with the
classes above it, or for ones that are valid, as `add_stream_class()` and
`add_event_class()` do; and `LayoutsAssumption`: what the setters of field types make
sure of, `WellMade`, and that a scope's type is a structure, as the setters of the
classes demand; depths are bounded, by any number). `IInv` says that only places of copies have paths, each to a
target that resolving accepts (`PathsLead`), that a class that is valid is copied
where it has something to resolve (`ValidIsCopied`) and is complete, and what is frozen (`Flags`).
For the invariant, all that is needed of the search is that what is linked lies in the
same scope or before, in one that exists (`TargetIsBefore`); the
rest of that argument is that the sources of a class are the objects of its copies, so that
no path is set twice or elsewhere (`ClassSets`).

That a path leads to the nearest field of its name (`LinksAreNearest`) is about the
search itself, and most lemmas of the module serve it. Inductions over lengths, done
with sets of numbers (`SetInduction`), show what the functions by which `TypeAt`,
`PlacesOf`, `NamesTo` and `Walk` are defined compute: a type lies below another one as the
places concatenate (`TypeAtConcat`), the places of a tree are those one can go to
(`PlacesAre`), a walk ends only where the names on the way are the tokens
(`WalkEndsRight`), and it ends at every such place whose first member is not after the
source (`WalkFinds`). The step that is not obvious is `LevelIsFound`: a match seen from
depth `l` need not be found from there. Where the way to it goes
through an array, or where a type around the source sees the same tokens, it is found
from further inside. The deepest type around the source from which the names to the
match are the tokens is one from which the walk succeeds, because there the next step
of the match is a member with a name, which does not come after the source's.

The attempt to prove an earlier form of the property, which called a match nearer
when it shared more of the way with the source, failed for a good reason: with a
name that repeats, as in `a.a.b.n`, the field found from further inside may share
less of it, and TLC found the layout that was then added to the run. The search goes by
the depth a name is seen from (`Levels`), which is also what the innermost scope means
in CTF. Theorems: `Invariance`, `ValidHasAll`, `CallersKeepTypes`,
`TargetsComeFirst`, `TargetsAreNearest`, `TargetsAreRight`.

**ClassesProofs** (under `ClassesAssumption`: finitely many classes and clocks, of
any number). `IInv` says what a reference count counts (`Counted`: the
references of the client and the children that are held), that a tree is destroyed
exactly when nobody holds its root (`GoneTogether`), that parents and arrays of
children agree, and what the checks made when a class was taken leave behind: which
types a frozen class has looked at (`FreezeInv`), the one clock they map to
(`ClockInv`), what is valid (`ValidInv`) and listed (`ListedInv`), and that the scopes which
share a type agree on what it is and on its flags (`SameInv`). Each alone is not
inductive: that the types of a frozen stream class go on mapping to one clock needs
that the event classes it lists are frozen too, for instance, and that a call on another
class reaches only types that are not frozen, or opens them. Whatever an addition or
a first event does to types is said once, in `Settled`: all scopes of a type get the same,
the types of the classes at hand are frozen afterwards, and a type that was frozen
before keeps all but its timestamps, and these too unless it is open. A
get or a put changes one summand of a count by one, and the proof follows the change
up to the root with the cardinality theorems; a class that is added again leaves its
tree with those below it (`LifeAddAgain`). Theorems: `TypeCorrect`,
`LiveTogether`, `ClockIsOne`, `ListedIsValid`, and the action property
`FrozenForGood`.

**FieldTypesProofs** (under `FieldTypesAssumption` and `StartsAssumption`, which says
of the trees a client starts from that they are well made, that no type is below itself,
and that nothing in them is frozen).
Types may share members, so "down to the last member" is about all that is reached
from a type (`Hull`). `Inv` in the proof module speaks of one step down only: the
members of a frozen type are frozen, those of a valid type are valid, both but for the
timestamps that were mapped (`Settled`), what a frozen
type keeps is true of its other members as they are, and every type is well formed.
`InvHolds` takes it down to the last member and gives the module's `IInv`, since a
closed set that holds the members holds all that is reached. A setter leaves frozen
types alone (`SetterLeaves`), freezing takes in all that is reached, and that a copy
is made of all it refers to is shown by induction over a finite set
(`CopyIsMade`, `QueuesEnd`). That a copy is equal needs that no type contains itself
(`NoLoops`), which in the proof is a function that gives each type a higher rank than
its members (`Ranked`; the number of types below a type is one, `CountIsRank`, and a
type that gets a member is lifted above it with all that contain it, `AddRanked`). Each
type in the queue of the copy and its copy are `Twins`: alike but for the flags, with
members that are twins (`CopiesPair`). By induction over ranks twins have the same
alignment (`TwinsAlign`), although that of a frozen one is a cache and that of its copy is
computed, unless a mapped timestamp has outgrown the structure (`Covers`), and the
recursive comparison is defined (`EqualIs`) and true (`TwinsCompare`). Theorems: `TypeCorrect`, `DeepFlags`, `TrueCaches`, `CopiesAreEqual`
and the action property `LayoutsStay`.

**StreamsProofs** (under `FieldsAssumption` and `StreamsAssumption`: the types describe
one another, `Order` lists the places in the order of writing and has those
of every new field, powers of two are positive numbers; finitely many events, and a
name for no stream that names neither a stream nor an event; values fit a word; and of the
members that a flush computes, that they are integers, which
`bt_ctf_trace_add_stream_class()` demands).
The invariant has five parts, each of which relies on those before:

- `IInv`: the two properties of references, and what they need to be inductive. A
  made stream keeps the sequences it was made with (`IsStream`), an event without a
  stream is held by the client (`IsEvent`; without this, the event that a flush
  destroys might be one that its class is still counted for), and the parent of
  an event exists. The many steps of a flush before its end are taken at once: none
  changes what is pending or written (`FlushKeeps`), so that a flush is either
  `Writes` or `Leaves`. That a packet brings its events to the end of those in the
  file is an induction over `FlattenSeq`, done with a set of numbers (`FlattenMore`).
- `Filled`: fields are trees of parts, and a packet context has the parts of a new
  one, whatever the client did. Without it nothing is known of what a member says or how
  long a packet is. `PlantedIsTree` is the lemma for every edit that makes
  new parts, `SerializeWrites` and `VisitedClockIs` say what the two methods that
  go along a field return: they are inductions with `Iterated`, which gives a
  recursive function its meaning and a set that all its values are in.
- `Told`: what each packet of the file says of its sizes and its count, with that count
  never above the stream's and never below an earlier packet's. A packet in the file
  would otherwise be free to say anything. That a file has a
  second packet only when sizes are said (`stream.c:1637`) makes a reader find all of them.
- `Timed`: the end of a packet is the last value told in it, and its begin is where
  the packet before ended. `TimesEnclose` alone is not inductive: the times of a new
  packet follow those told before only because `last_ts_end` is the last of them
  (`ExtendsTimes`), unless a flush failed after it had moved.
- `Settled`: of a pending event, the parts that are met for sure are set, chosen
  and frozen (`PendingCanBeWritten` with `frozen`, which is what makes the setters refuse
  it). The parts of a field are reached by different ways, so for each setter the
  proof asks where the part it changes lies: at a part met for sure, which is frozen
  (`SetValueSettles`, `SetLengthSettles`), or below one that is not, where anything
  may change (`SureElsewhere`).

Two attempts failed for a good reason. `Settled` could not be shown for
edits of the outermost parts alone, as a client gets hold of inner ones: the steps now
edit any part that can be reached, and the property stops where those are not
frozen, at variants and beyond a sequence's length. And that the counts of discarded events
never decrease does not hold where a client can give them: this is `DiscardedNeverDecreases`, which TLC refutes, and
`PacketsAreReadable` says it of the other build.

Theorems: `Invariance`, `OneHome`, `ClassesHeldByOrphans`, `FieldsStayTrees`,
`WholeInvariance`, `Readable`, `TimesInOrder`, `PendingIsWritable`.

Every invariant and every action property without fairness that a passing run checks is
proved, but for `FirstWrapIsCarried`. `IdsIncrease` and `StoredOrBuffered` are proved
(`DenseIds`, `NoneLostAlive`) and not listed in a run, as what a run could see of
them the neighbours `DescribesAllOrNothing` and `StoredIsPrefix` say of the result. Only
model-checked:

- all liveness properties: the prover handles neither fairness nor `ENABLED`;
- `FirstWrapIsCarried`: it needs the bits of a sum that is computed with `|`, of which
  the proofs know only what they keep and bound;
- the spans of `JaegerSink`, beyond their types;
- the findings;
- that a recursive definition computes what its reference says for every input: the
  lemmas about `Serialize` and `VisitedClock` say what the theorems need of
  their results (a number of bits, the last value), not all the values between.

## 5. What is not modelled

- *Source*: the parameters, their validation and the ownership of strings in
  `kafka_component_create()`, `kafka_component_query()`; sizes and keys of
  messages beyond what is compared; a second iterator of one component, which
  the sinks of this repository never ask for.
- *Influx*: the fields of a point (`write_*`), their text, the wrap-around of
  the 32-bit `uniq_cnt`, the UDP and Unix transports, `Point` and the factory.
- *Jaeger*: the tags of a span.
- *dof2ctf*: names of probes, layout and byte order of DOF structures,
  `dof_load_actdesc()` (never called), memory and temporary directories.
- *bbuf*: see the plan.
- *ctf-writer*: the TSDL text of types and classes (a third of `field-types.c`)
  and the files it is written to; containers of values; the pool of event headers; getters,
  visitors and logging; the destructors of field types and of fields; failed allocations.
  What a call does that reads a destroyed object is left out, as after
  `ListedAreAlive` has failed, and so is what the second release does to the memory that
  the ranges of a copied variant share. Types are shared between scopes of one name; that one
  object serves as header and as context of a class is left to `Validation`, which has it.
  `PendingCanBeWritten` stops at variants, as a client can select another choice
  of a frozen event's variant (`fields.h:508`), and at the length of a sequence, whose
  last elements are written (`fields.c:1099`) but not frozen (`fields.c:536`). `TimesEnclose` asks less of
  clocks narrower than 64 bits: `update_clock_value()` (`stream.c:514`) loses the carry
  of a wrap when the bit is set already; what holds of the first wrap is
  `FirstWrapIsCarried`. It is about streams with a packet context, as
  no other packet says its times, and about times below 2^64 - 1, which `last_ts_end`
  keeps for "no packet yet": after a packet that ends there the next one begins at 0
  (`stream.c:739`). A stream created with an explicit id
  still moves `next_stream_id` (`stream.c:1168`), so a later automatic id may be one in use.
- *plugin registration, DTrace headers*: no state and no behaviour.

## 6. Plan

Done: 1 the source with its topic and its abstract specification; 2 the sinks;
3 the pipeline; 4 `Dof2Ctf`; 5 the classes of the CTF writer with their
lifetimes; 6 validation and resolution; 7 field types; 8 fields and streams; the
theorems of section 4. To come, most important first:

9. **BBuf** (`bbuf.c`): position, limit and capacity under put, get, concat,
    flip; growth by the size of the value wherever the position is.
10. **KafkaComponent** (`kafka_component.c`): parameters and what each error
    path frees; query.
11. **The CTF writer as dof2ctf uses it**: `Dof2Ctf` composed with `Classes`.

Runs stay few, so that they can be repeated at every change: a new run takes
the place of `jaeger_safety`, or of one of the refuted statements.
