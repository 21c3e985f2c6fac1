------------------------------ MODULE Streams ------------------------------
(***************************************************************************)
(* The streams of the CTF writer (ctf-writer/stream.c), with the events    *)
(* (event.c, event.h) that a client appends to them, the clock (clock.c)   *)
(* that stamps them, and the packets that a flush writes through the       *)
(* serializer, whose calls may fail.                                       *)
(*                                                                         *)
(* A client creates streams and events, fills the fields of the events,    *)
(* appends the events, counts discarded ones, and flushes.  A flush        *)
(* computes the fields of the packet context, writes everything, computes  *)
(* the sizes, writes the context again, and lets the events go.            *)
(*                                                                         *)
(* The types are in place before: "layout" names those of the packet       *)
(* header, the packet context, the event header, the two event contexts    *)
(* and the payload of every event class ("none" where there is no type).   *)
(***************************************************************************)
EXTENDS Fields, FiniteSets

CONSTANTS
    StreamNames,  \* the streams that can be created
    EventNames,   \* the events that can be created
    Ids,          \* the identifiers a client asks for
    AutoId,       \* no identifier is asked for (-1ULL)
    Nobody,       \* no stream
    Clients,      \* what a client is built with and may do
    Times,        \* the clock values
    Values,       \* the values that a client gives to a field
    Counts,       \* the numbers of discarded events
    FailSets      \* which calls of the serializer fail in one flush

VARIABLES
    dev,          \* built with BT_DEV_MODE
    layout,       \* the types of the trace and of the stream class
    stream,       \* the streams
    nextId,       \* stream_class.next_stream_id
    event,        \* the events
    classRefs,    \* references that the events hold on their classes
    clock,        \* the value of the stream class's clock
    budget        \* what the client may still do

Autos == {"packet_size", "content_size", "events_discarded", "packet_seq_num"}
ResetNames ==
    {"timestamp_begin", "timestamp_end", "packet_size", "content_size", "events_discarded"}

IsLayout(types) ==
    /\ {types.packetHeader, types.packetContext, types.eventHeader, types.streamContext,
        types.eventContext} \subseteq AnyType
    /\ types.payloads \in Seq(AnyType)

ASSUME StreamsAssumption ==
    /\ \A client \in Clients : client.dev \in BOOLEAN /\ IsLayout(client.layout)
    /\ IsFiniteSet(EventNames)
    /\ Nobody \notin StreamNames \cup EventNames
    /\ Values \cup Times \cup Counts \subseteq 0..(Word - 1)
    /\ \A t \in DOMAIN Shape : \A i \in DOMAIN Shape[t].names :
           Shape[t].names[i] \in ResetNames => Shape[Shape[t].members[i]].class = "integer"

vars == <<dev, layout, stream, nextId, event, classRefs, clock, budget>>

Scopes == <<"header", "streamContext", "context", "payload">>
NoTime == Word - 1                          \* last_ts_end = -1ULL
Unmade == [made |-> FALSE]

Made(s) == stream[s].made
Live(e) == event[e].made

(* Which record a new object gets makes no difference. *)
Fresh(free) == IF free = {} THEN Nobody ELSE CHOOSE x \in free : TRUE

Spend(what) ==
    /\ budget[what] > 0
    /\ budget' = [budget EXCEPT ![what] = @ - 1]

-----------------------------------------------------------------------------
(***************************************************************************)
(* The fields that a flush computes (auto_populate_packet_context).        *)
(***************************************************************************)

GivenMember(f, name) == dev /\ HasMember(f, name) /\ Member(f, name).set

(* The clock values told by the packet context: its other members. *)
ContextStamps(f) ==
    LET Visits(name) == /\ name \notin {"timestamp_begin", "timestamp_end"}
                        /\ name \in Autos => GivenMember(f, name)
    IN Stamps(f, {p \in DOMAIN f : p # <<>> /\ Visits(NamesOf(f)[p[1]])})

EventStamps(e) == FlattenSeq([i \in DOMAIN Scopes |-> Stamps(event[e].fields[Scopes[i]], Places)])

PendingStamps(st) == FlattenSeq([i \in DOMAIN st.pending |-> EventStamps(st.pending[i])])

IsVisitable(e) == \A i \in DOMAIN Scopes : CanBeVisited(event[e].fields[Scopes[i]])

IsChosen(e) == \A i \in DOMAIN Scopes : CanBeSerialized(event[e].fields[Scopes[i]])

(* set_packet_context_timestamps: "ok" is what it returns. *)
WithTimestamps(st) ==
    LET f == st.context
        begin == IF GivenMember(f, "timestamp_begin") THEN Member(f, "timestamp_begin").value
                 ELSE IF st.lastEnd # NoTime THEN st.lastEnd ELSE 0
        seen == VisitedClock(begin, ContextStamps(f) \o PendingStamps(st))
        ends == GivenMember(f, "timestamp_end")
        end == IF ends THEN Member(f, "timestamp_end").value ELSE seen
        withEnd == IF ends THEN f ELSE GiveMember(dev, f, "timestamp_end", seen)
        withBegin == IF GivenMember(f, "timestamp_begin") THEN withEnd
                     ELSE GiveMember(dev, withEnd, "timestamp_begin", begin)
    IN  IF \/ st.lastEnd # NoTime /\ begin < st.lastEnd
           \/ \E i \in DOMAIN st.pending : ~IsVisitable(st.pending[i])
           \/ end < seen
        THEN [st EXCEPT !.ok = FALSE]
        ELSE [st EXCEPT !.context = withBegin, !.lastEnd = end, !.begin = begin]

(* set_packet_context_events_discarded: a count that the client gave is    *)
(* taken over when it is not less; one that is less stays in the context   *)
(* all the same, as the return code is still 0.                            *)
WithDiscarded(st) ==
    IF ~GivenMember(st.context, "events_discarded")
    THEN [st EXCEPT !.context = GiveMember(dev, @, "events_discarded", st.discarded)]
    ELSE LET given == Member(st.context, "events_discarded").value
         IN IF given < st.discarded THEN st ELSE [st EXCEPT !.discarded = given]

WithSizes(st, size, content) ==
    [st EXCEPT !.context =
        GiveMember(dev, GiveMember(dev, @, "packet_size", size), "content_size", content)]

(* auto_populate_packet_header: the magic number, the uuid, the stream id. *)
PopulateHeader(f, id) ==
    GiveMember(dev, GiveMember(dev, f, "magic", 1), "stream_id", id)

(* The stream at the start of a flush: with a header and with sizes of 0.  *)
Blank(st) == WithSizes([st EXCEPT !.header = PopulateHeader(@, st.classId)], 0, 0)

(* auto_populate_packet_context, its second time without the times. *)
Once(st) == IF st.ok /\ IsField(st.context) THEN WithDiscarded(st) ELSE st

-----------------------------------------------------------------------------
(***************************************************************************)
(* The flush itself.                                                       *)
(***************************************************************************)

(* event_serialize, with the header and the stream event context before. *)
WrittenEvent(w, e) ==
    LET fields == event[e].fields
    IN Serialize(fields.payload, Serialize(fields.context,
           Serialize(fields.streamContext, Serialize(fields.header, w))))

WrittenEvents(w, es) ==
    LET written[k \in 0..Len(es)] ==
            IF k = 0 THEN w ELSE WrittenEvent(written[k - 1], es[k])
    IN written[Len(es)]

(* The packet as far as it is written before its context is overwritten. *)
FirstPass(st, fails) ==
    LET opened == Call(Nothing(fails), 0)
        placed == Serialize(st.context, Serialize(st.header, opened))
    IN WrittenEvents(placed, st.pending)

UpToByte(bits) == ((bits + 7) \div 8) * 8

HasPacketSize(st) == HasMember(st.context, "packet_size")

(* Mutant of SizesAreTold: the content size may be left out. *)
SizeIsTold(st, content) == ~HasPacketSize(st) => content % 8 = 0

(* The sizes that the packet cannot say must be those that a reader takes. *)
SizesAreTold(st, content) ==
    /\ ~HasPacketSize(st) => content % 8 = 0
    /\ IsField(st.context) /\ ~HasMember(st.context, "content_size") => content % 8 = 0

(* The automatically set fields are reset at every return. *)
WithReset(f) ==
    LET reset == {Place(f, name) : name \in {x \in ResetNames : HasMember(f, x)}}
    IN IF dev THEN [p \in DOMAIN f |-> [f[p] EXCEPT !.set = @ /\ p \notin reset]] ELSE f

Recorded(f, name) ==
    IF HasMember(f, name)
    THEN Member(f, name).value % 2 ^ BitsAt(f, Place(f, name)) ELSE -1

GivenTime(f, name) ==
    IF GivenMember(f, name)
    THEN <<[bits |-> WordBits, value |-> Member(f, name).value]>> ELSE <<>>

(* The clock values that are visited: of the packet context, then of the   *)
(* events.                                                                 *)
Visited(st) ==
    (IF IsField(st.context) THEN ContextStamps(Blank(st).context) ELSE <<>>) \o PendingStamps(st)

EndOf(file) == IF file = <<>> THEN NoTime ELSE Last(file).end

(***************************************************************************)
(* What is remembered of a packet that was written: its events, the times, *)
(* the sizes and the count that its context says, its real size and the    *)
(* stream's count, the times that the client told, whether a call of the   *)
(* serializer failed, and whether an earlier try had moved the stream's    *)
(* last time.                                                              *)
(***************************************************************************)
Packet(st, t, content, failed) ==
       [events |-> st.pending, begin |-> t.begin, end |-> t.lastEnd,
        saidSize |-> Recorded(t.context, "packet_size"),
        saidContent |-> Recorded(t.context, "content_size"),
        saidDiscarded |-> Recorded(t.context, "events_discarded"),
        content |-> content, discarded |-> t.discarded,
        told |-> GivenTime(st.context, "timestamp_begin") \o Visited(st)
                    \o GivenTime(st.context, "timestamp_end"),
        failed |-> failed,
        again |-> st.lastEnd # EndOf(st.file)]

(* release_event: an event that is held becomes an orphan, and holds its   *)
(* class from then on; the others are destroyed.                           *)
Released(es) ==
    [e \in EventNames |->
        IF e \notin es THEN event[e]
        ELSE IF event[e].held THEN [event[e] EXCEPT !.stream = Nobody]
        ELSE Unmade]

(* The stream when its packet can be written: with a header and a context  *)
(* that has the times, the count and, so far, no sizes.                    *)
Populated(st) ==
    Once(IF IsField(st.context) THEN WithTimestamps(Blank(st)) ELSE Blank(st))

(* And when it is written, with its sizes. *)
Sized(st, populated, first) ==
    LET ready == IF populated.ok /\ first.ok /\ SizesAreTold(st, first.bits)
                 THEN WithSizes(populated, UpToByte(first.bits), first.bits)
                 ELSE [populated EXCEPT !.ok = FALSE]
    IN Once(ready)

Pending(s) == {stream[s].pending[i] : i \in DOMAIN stream[s].pending}

(* Every return of a flush resets the fields; only the one that has        *)
(* written the packet lets the events go.                                  *)
Ended(st) == [st EXCEPT !.context = WithReset(@), !.ok = TRUE, !.begin = 0]

Writes(s, st, content, failed) ==
    /\ stream' = [stream EXCEPT ![s] =
           [Ended(st) EXCEPT !.pending = <<>>, !.count = @ + 1,
                             !.file = Append(@, Packet(stream[s], st, content, failed))]]
    /\ event' = Released(Pending(s))
    /\ classRefs' = classRefs + Cardinality({e \in Pending(s) : event[e].held})

Leaves(s, st) ==
    /\ stream' = [stream EXCEPT ![s] = Ended(st)]
    /\ UNCHANGED <<event, classRefs>>

(* What is left out are flushes that the program does not survive: the     *)
(* packet size is set in a context that has no member for it, a value is   *)
(* too large for its member with BT_DEV_MODE, the serializer meets a       *)
(* variant without a choice.                                               *)
Flush(s) ==
    LET st == stream[s]
    IN
    /\ budget.flushes > 0
    /\ Made(s)
    /\ st.count = 1 => HasPacketSize(st)
    /\ IsField(st.context) => HasPacketSize(st)
    /\ \E populated \in {Populated(st)} :
       \E fails \in IF budget.faults > 0 THEN FailSets ELSE {{}} :
       \E first \in {IF populated.ok THEN FirstPass(populated, fails) ELSE Nothing({})} :
       \E sized \in {Sized(st, populated, first)} :
        LET second == IF sized.ok THEN Serialize(sized.context, first) ELSE first
        IN
        /\ populated.ok => \A e \in Pending(s) : IsChosen(e)
        /\ dev => \A name \in ResetNames : Holds(sized.context, name, Member(sized.context, name).value)
        /\ budget' = [budget EXCEPT !.flushes = @ - 1,
                                    !.faults = IF fails = {} THEN @ ELSE @ - 1]
        /\ IF sized.ok /\ second.ok THEN Writes(s, sized, first.bits, second.failed)
                                    ELSE Leaves(s, sized)
    /\ UNCHANGED <<dev, layout, nextId, clock>>

(* The second packet of a file needs the packet size: such a flush returns *)
(* at once, but not without the reset.                                     *)
RefuseFlush(s) ==
    /\ Spend("flushes")
    /\ Made(s)
    /\ stream[s].count = 1 /\ ~HasPacketSize(stream[s])
    /\ Leaves(s, stream[s])
    /\ UNCHANGED <<dev, layout, nextId, clock>>

-----------------------------------------------------------------------------
(***************************************************************************)
(* Streams.                                                                *)
(***************************************************************************)

(* stream_create_with_id and stream_common_initialize.  A call that fails  *)
(* for the identifier leaves everything as it was.                         *)
CreateStream(s) ==
    /\ Spend("streams")
    /\ s = Fresh({t \in StreamNames : ~Made(t)})
    /\ \E asked \in Ids \cup {AutoId} :
        LET id == IF asked = AutoId THEN nextId ELSE asked
            context == Create(layout.packetContext)
        IN
        /\ \A t \in StreamNames : Made(t) => stream[t].id # id
        /\ stream' = [stream EXCEPT ![s] =
               [made |-> TRUE, id |-> id, classId |-> 0,
                header |-> PopulateHeader(Create(layout.packetHeader), 0),
                context |-> GiveMember(dev, context, "events_discarded", 0),
                lastEnd |-> NoTime, discarded |-> 0, count |-> 0,
                pending |-> <<>>, file |-> <<>>, appended |-> <<>>,
                ok |-> TRUE, begin |-> 0]]
    /\ nextId' = nextId + 1
    /\ UNCHANGED <<dev, layout, event, classRefs, clock>>

(* stream_append_discarded_events: a count that would overflow is ignored. *)
AppendDiscarded(s) ==
    /\ Spend("edits")
    /\ Made(s)
    /\ HasMember(stream[s].context, "events_discarded")
    /\ \E n \in Counts :
        LET count == (stream[s].discarded + n) % Word
        IN
        /\ count >= stream[s].discarded
        /\ dev => Holds(stream[s].context, "events_discarded", count)
        /\ stream' = [stream EXCEPT ![s].discarded = count,
                          ![s].context = GiveMember(dev, @, "events_discarded", count)]
    /\ UNCHANGED <<dev, layout, nextId, event, classRefs, clock>>

(* The client fills a member of the packet context itself (not a size,     *)
(* which every flush overwrites).                                          *)
GiveContextMember(s) ==
    /\ Spend("edits")
    /\ Made(s)
    /\ IsField(stream[s].context)
    /\ LET names == NamesOf(stream[s].context)
       IN \E i \in DOMAIN names, v \in Values :
           /\ ClassAt(stream[s].context, <<i>>) = "integer"
           /\ names[i] \notin {"packet_size", "content_size"}
           /\ Holds(stream[s].context, names[i], v)
           /\ stream' = [stream EXCEPT ![s].context = GiveMember(dev, @, names[i], v)]
    /\ UNCHANGED <<dev, layout, nextId, event, classRefs, clock>>

(* stream_set_packet_context: another field of the same type. *)
SetPacketContext(s) ==
    /\ Made(s)
    /\ IsField(stream[s].context)
    /\ Spend("edits")
    /\ stream' = [stream EXCEPT ![s].context = Create(layout.packetContext)]
    /\ UNCHANGED <<dev, layout, nextId, event, classRefs, clock>>

(* clock_set_time: the order of the values is only checked with            *)
(* BT_DEV_MODE.                                                            *)
SetTime ==
    /\ Spend("ticks")
    /\ \E t \in Times :
        /\ dev => clock <= t
        /\ t # clock
        /\ clock' = t
    /\ UNCHANGED <<dev, layout, stream, nextId, event, classRefs>>

-----------------------------------------------------------------------------
(***************************************************************************)
(* Events.                                                                 *)
(***************************************************************************)

(* event_create: the fields of the four scopes; the event holds its class. *)
CreateEvent(e) ==
    /\ Spend("events")
    /\ e = Fresh({x \in EventNames : ~Live(x)})
    /\ \E c \in DOMAIN layout.payloads :
           event' = [event EXCEPT ![e] =
               [made |-> TRUE, class |-> c, frozen |-> FALSE, stream |-> Nobody, held |-> TRUE,
                fields |-> [header |-> Create(layout.eventHeader),
                            streamContext |-> Create(layout.streamContext),
                            context |-> Create(layout.eventContext),
                            payload |-> Create(layout.payloads[c])]]]
    /\ classRefs' = classRefs + 1
    /\ UNCHANGED <<dev, layout, stream, nextId, clock>>

(* Mutant of PutEvent: an event that has a stream puts its class, too. *)
PutEventAndClass(e) ==
    /\ Live(e)
    /\ event[e].held
    /\ Spend("puts")
    /\ event' = [event EXCEPT ![e] =
           IF @.stream = Nobody THEN Unmade ELSE [@ EXCEPT !.held = FALSE]]
    /\ classRefs' = classRefs - 1
    /\ UNCHANGED <<dev, layout, stream, nextId, clock>>

(* The client has given up its reference. *)
PutEvent(e) ==
    /\ Live(e)
    /\ event[e].held
    /\ Spend("puts")
    /\ IF event[e].stream = Nobody
       THEN /\ event' = [event EXCEPT ![e] = Unmade]
            /\ classRefs' = classRefs - 1
       ELSE /\ event' = [event EXCEPT ![e].held = FALSE]
            /\ UNCHANGED classRefs
    /\ UNCHANGED <<dev, layout, stream, nextId, clock>>

(* One field of an event that the client holds becomes another one. *)
Edits(e) ==
    /\ Spend("edits")
    /\ Live(e) /\ event[e].held
    /\ UNCHANGED <<dev, layout, stream, nextId, classRefs, clock>>

Edit(e, scope, g) == event' = [event EXCEPT ![e].fields[scope] = g]

(* A frozen field is only refused with BT_DEV_MODE. *)
Hot(f, p) == ~(dev /\ f[p].frozen)

(* integer_set_value, floating_point_set_value, string_set_value: a client *)
(* gives a value that the type can hold.                                   *)
SetValue(e) ==
    /\ Edits(e)
    /\ \E i \in DOMAIN Scopes :
        LET f == event[e].fields[Scopes[i]]
        IN \E p \in Reached(f), v \in Values :
            /\ ClassAt(f, p) \in Scalars
            /\ Hot(f, p)
            /\ v < 2 ^ BitsAt(f, p)
            /\ Edit(e, Scopes[i], [f EXCEPT ![p] = Given(dev, @, v)])

(* sequence_set_length, as far as there are places for the elements. *)
SetLength(e) ==
    /\ Edits(e)
    /\ \E i \in DOMAIN Scopes :
        LET f == event[e].fields[Scopes[i]]
        IN \E p \in Reached(f), n \in Values :
            /\ ClassAt(f, p) = "sequence"
            /\ Hot(f, p)
            /\ ElementPlaces(f, p, n) \subseteq Places
            /\ Edit(e, Scopes[i], WithLength(f, p, n))

(* variant_get_field does not look at the variant's frozen flag. *)
SelectChoice(e) ==
    /\ Edits(e)
    /\ \E i \in DOMAIN Scopes :
        LET f == event[e].fields[Scopes[i]]
        IN \E p \in Reached(f), c \in Values \ {0} :
            /\ ClassAt(f, p) = "variant"
            /\ c \in DOMAIN Shape[f[p].type].members
            /\ Edit(e, Scopes[i], [f EXCEPT ![p] = WithChoice(dev, @, c)])

(* event_set_payload: another field for a member of the payload.  (The     *)
(* setters of a whole scope have the same guard.)                          *)
SetPayload(e) ==
    /\ Edits(e)
    /\ ~(dev /\ event[e].frozen)
    /\ LET f == event[e].fields["payload"]
       IN /\ IsField(f)
          /\ \E i \in DOMAIN Shape[f[<<>>].type].members :
               Edit(e, "payload", Planted(f, <<>>, {i}, f[<<i>>].type))

(* auto_populate_event_header: the class's id, and the clock's value       *)
(* unless the client has given one.  Both only where the member "id" is an *)
(* integer: before the timestamp it is the class of the id that is tested. *)
MayStamp(f) == HasMember(f, "timestamp") /\ layout.clocked

HasIntegerId(f) == HasMember(f, "id") /\ ClassAt(f, Place(f, "id")) = "integer"

WantsStamp(f) ==
    /\ MayStamp(f) /\ HasIntegerId(f)
    /\ Shape[Member(f, "timestamp").type].clocked
    /\ ~GivenMember(f, "timestamp")

PopulatedEventHeader(f, c) ==
    LET withId == IF HasIntegerId(f) THEN GiveMember(dev, f, "id", c) ELSE f
    IN IF WantsStamp(f) THEN GiveMember(dev, withId, "timestamp", clock) ELSE withId

StampFits(f) == WantsStamp(f) => Holds(f, "timestamp", clock)

(* The fields of an event that is appended. *)
Appended(e) ==
    [event[e].fields EXCEPT !["header"] =
        PopulatedEventHeader(@, event[e].class)]

(* That test does not ask whether there is such a member. *)
Survives(f) == MayStamp(f) => HasMember(f, "id")

(* Mutant of Takes: the event may have a stream already. *)
TakesAny(e) ==
    /\ Live(e) /\ event[e].held
    /\ Survives(event[e].fields["header"])
    /\ IsField(event[e].fields["header"]) => ~event[e].frozen
    /\ dev => StampFits(event[e].fields["header"])
    /\ dev => \A x \in DOMAIN event[e].fields :
                 IsValid(Appended(e)[x])

(* The checks of stream_append_event.  With BT_DEV_MODE the event must be  *)
(* valid, with a payload, and an event with a header must not be frozen.   *)
(* Left out are the calls that the program does not survive.               *)
Takes(e) ==
    /\ Live(e) /\ event[e].held
    /\ event[e].stream = Nobody
    /\ Survives(event[e].fields["header"])
    /\ IsField(event[e].fields["header"]) => ~event[e].frozen
    /\ dev => IsField(event[e].fields["payload"])
    /\ dev => StampFits(event[e].fields["header"])
    /\ dev => \A x \in DOMAIN event[e].fields :
                 IsValid(Appended(e)[x])

(* stream_append_event: with BT_DEV_MODE the event is frozen from then on, *)
(* and it gives up its class.                                              *)
AppendEvent(s, e) ==
    /\ Made(s)
    /\ Takes(e)
    /\ \E fields \in {Appended(e)} :
        event' = [event EXCEPT
           ![e].stream = s, ![e].frozen = dev,
           ![e].fields = [x \in DOMAIN fields |->
                              IF dev THEN Freeze(fields[x]) ELSE fields[x]]]
    /\ stream' = [stream EXCEPT ![s].pending = Append(@, e), ![s].appended = Append(@, e)]
    /\ classRefs' = classRefs - 1
    /\ UNCHANGED <<dev, layout, nextId, clock, budget>>

-----------------------------------------------------------------------------
Init ==
    \E client \in Clients :
        /\ dev = client.dev
        /\ layout = client.layout
        /\ budget = client.budget
        /\ stream = [s \in StreamNames |-> Unmade]
        /\ event = [e \in EventNames |-> Unmade]
        /\ nextId = 0
        /\ classRefs = 0
        /\ clock = 0

StreamStep(s) ==
    \/ CreateStream(s)
    \/ AppendDiscarded(s)
    \/ GiveContextMember(s)
    \/ SetPacketContext(s)
    \/ Flush(s)
    \/ RefuseFlush(s)

EventStep(e) ==
    \/ CreateEvent(e)
    \/ PutEvent(e)
    \/ SetValue(e)
    \/ SetLength(e)
    \/ SelectChoice(e)
    \/ SetPayload(e)

Next ==
    \/ \E s \in StreamNames : StreamStep(s)
    \/ \E e \in EventNames : EventStep(e)
    \/ \E s \in StreamNames, e \in EventNames : AppendEvent(s, e)
    \/ SetTime

Spec == Init /\ [][Next]_vars

-----------------------------------------------------------------------------
(***************************************************************************)
(* Properties.                                                             *)
(***************************************************************************)

Files == {s \in StreamNames : Made(s)}
EventsOf(file) == FlattenSeq([k \in DOMAIN file |-> file[k].events])

(***************************************************************************)
(* An appended event is in one place: what was appended to a stream is, in *)
(* order, in its packets and then in its pending events, whatever flushes  *)
(* failed and were tried again; and an event is pending, once, exactly in  *)
(* the stream that is its parent (stream_append_event, release_event).     *)
(***************************************************************************)
EventsHaveOneHome ==
    \A s \in Files :
        /\ stream[s].appended = EventsOf(stream[s].file) \o stream[s].pending
        /\ IsInjective(stream[s].pending)
        /\ \A e \in EventNames :
             (Live(e) /\ event[e].stream = s) <=> (\E i \in DOMAIN stream[s].pending : stream[s].pending[i] = e)

(***************************************************************************)
(* An event holds its class just as long as it has no stream, so that the  *)
(* class outlives it: the references that events hold on their classes are *)
(* as many as the events without a stream (event_create,                   *)
(* stream_append_event, release_event, event_common_finalize).             *)
(***************************************************************************)
OrphansHoldTheirClass ==
    classRefs = Cardinality({e \in EventNames : Live(e) /\ event[e].stream = Nobody})

(***************************************************************************)
(* Every step keeps IInv: beside the two properties it says what streams   *)
(* and events are, and that an event without a stream is held by the       *)
(* client, as nobody else could.                                           *)
(***************************************************************************)
StreamParts == {"made", "id", "classId", "header", "context", "lastEnd", "discarded", "count",
                "pending", "file", "appended", "ok", "begin"}
EventParts == {"made", "class", "frozen", "stream", "held", "fields"}

IsStream(st) ==
    /\ DOMAIN st = StreamParts /\ st.made = TRUE
    /\ st.pending \in Seq(EventNames) /\ st.appended \in Seq(EventNames)
    /\ st.file \in Seq({st.file[k] : k \in DOMAIN st.file})
    /\ EventsOf(st.file) \in Seq(EventNames)

IsEvent(ev) ==
    /\ DOMAIN ev = EventParts /\ ev.made = TRUE
    /\ ev.held \in BOOLEAN
    /\ IF ev.stream = Nobody THEN ev.held ELSE ev.stream \in Files

Shaped ==
    /\ stream = [s \in StreamNames |-> stream[s]]
    /\ event = [e \in EventNames |-> event[e]]
    /\ \A s \in StreamNames : stream[s] = Unmade \/ IsStream(stream[s])
    /\ \A e \in EventNames : event[e] = Unmade \/ IsEvent(event[e])

IInv == Shaped /\ EventsHaveOneHome /\ OrphansHoldTheirClass

(***************************************************************************)
(* A reader of the file finds the packets: as long as the members that say *)
(* the sizes can hold them, each packet that was written without a failure *)
(* says its own sizes, or has the size that a reader takes when it says    *)
(* none (no content size: all of the packet; no packet size: all of the    *)
(* file); and where no count of discarded events can be given by the       *)
(* client, they never decrease from one packet to the next                 *)
(* (stream_flush, auto_populate_packet_context).                           *)
(***************************************************************************)
SizesAreHeld(st, content) ==
    /\ Holds(st.context, "packet_size", UpToByte(content))
    /\ Holds(st.context, "content_size", content)

PacketsAreReadable ==
    \A s \in Files :
        LET file == stream[s].file
            whole == {k \in DOMAIN file : ~file[k].failed}
        IN
        /\ \A k \in whole : SizesAreHeld(stream[s], file[k].content) =>
            LET size == IF file[k].saidSize = -1 THEN file[k].content ELSE file[k].saidSize
                content == IF file[k].saidContent = -1 THEN size ELSE file[k].saidContent
            IN /\ file[k].saidSize = -1 => Len(file) = 1
               /\ content = file[k].content
               /\ size % 8 = 0 /\ size \in content..(content + 7)
        /\ ~dev /\ Holds(stream[s].context, "events_discarded", stream[s].discarded) =>
               \A j, k \in whole : j < k => file[j].saidDiscarded <= file[k].saidDiscarded

(***************************************************************************)
(* Also with BT_DEV_MODE the counts of discarded events do not decrease    *)
(* (stream.c:447, "We do not allow wrapping here.").  It does not hold: a  *)
(* count of the client that is less is logged, and written.                *)
(***************************************************************************)
DiscardedNeverDecreases ==
    \A s \in Files : \A j, k \in DOMAIN stream[s].file :
        j < k => stream[s].file[j].saidDiscarded <= stream[s].file[k].saidDiscarded

(***************************************************************************)
(* The times of the packets enclose what they hold, and follow each other: *)
(* as long as the times that the client told never decreased, are of 64    *)
(* bits and not the one that stands for none, and no flush was tried       *)
(* again, a packet with a context begins where the one before ended or     *)
(* later, and no time told in it is before its begin or after its end.  Of *)
(* a narrower clock field the packet's end has at least the low bits of    *)
(* the last value (set_packet_context_timestamps).                         *)
(***************************************************************************)
ToldUpTo(file, k) == FlattenSeq([j \in 1..k |-> file[j].told])

NeverDecreases(stamps) ==
    \A i, j \in DOMAIN stamps : i < j => stamps[i].value <= stamps[j].value

TimesEnclose ==
    \A s \in {x \in Files : IsField(stream[x].context)} : \A k \in DOMAIN stream[s].file :
        LET file == stream[s].file
            told == ToldUpTo(file, k)
        IN
        /\ ( /\ NeverDecreases(told)
             /\ \A i \in DOMAIN told : told[i].bits = WordBits /\ told[i].value # NoTime
             /\ \A j \in 1..k : ~file[j].again )
           => /\ file[k].begin <= file[k].end
              /\ k > 1 => file[k - 1].end <= file[k].begin
              /\ \A i \in DOMAIN file[k].told :
                   file[k].told[i].value \in file[k].begin..file[k].end
        /\ file[k].told # <<>> =>
             LET last == Last(file[k].told)
             IN (file[k].end - last.value) % 2 ^ last.bits = 0

(***************************************************************************)
(* The first wrap of a clock field of fewer than 64 bits is carried: as    *)
(* long as all the times told in a file are of one such width, were not    *)
(* visited twice and went back once at most, the end of a packet is the    *)
(* last of them, one turn of the clock later when it wrapped               *)
(* (update_clock_value, set_packet_context_timestamps).  The bit that is   *)
(* or-ed in is lost when it is set already, so that from the second wrap   *)
(* on the times may go back (TimesAdvance does not hold).                  *)
(***************************************************************************)
Wraps(told) == {i \in DOMAIN told : i > 1 /\ told[i].value < told[i - 1].value}

IsNarrow(told) ==
    \A i \in DOMAIN told :
        /\ told[i].bits = told[1].bits
        /\ told[i].bits < WordBits /\ told[i].value < 2 ^ told[i].bits

FirstWrapIsCarried ==
    \A s \in {x \in Files : IsField(stream[x].context)} : \A k \in DOMAIN stream[s].file :
        LET file == stream[s].file
            told == ToldUpTo(file, k)
        IN told # <<>> /\ IsNarrow(told) /\ Cardinality(Wraps(told)) <= 1
                /\ (\A j \in 1..k : ~file[j].again)
             => /\ file[k].end = Last(told).value + Cardinality(Wraps(told)) * 2 ^ Last(told).bits
                /\ file[k].begin <= file[k].end

TimesAdvance ==
    \A s \in {x \in Files : IsField(stream[x].context)} : \A k \in DOMAIN stream[s].file :
        IsNarrow(ToldUpTo(stream[s].file, k)) => stream[s].file[k].begin <= stream[s].file[k].end

(***************************************************************************)
(* With BT_DEV_MODE an event that was let in can be written: until it is   *)
(* flushed, every value that the serializers meet for sure is set, and     *)
(* every variant has a choice, so that none of their assertions fails.     *)
(* (Not so within a variant: the choice of a frozen one can be changed,    *)
(* fields.h:508, to one that nobody set; nor beyond the length of a        *)
(* sequence, whose elements are written, fields.c:1099, but not frozen,    *)
(* fields.c:536.)                                                          *)
(* (event_common_validate, field_common_set_is_frozen_recursive.)          *)
(***************************************************************************)
PendingCanBeWritten ==
    dev => \A s \in Files : \A i \in DOMAIN stream[s].pending : \A x \in DOMAIN Scopes :
        LET f == event[stream[s].pending[i]].fields[Scopes[x]]
        IN \A p \in {q \in DOMAIN f : Sure(f, q)} :
               /\ ClassAt(f, p) \in Scalars => f[p].set
               /\ ClassAt(f, p) = "variant" => f[p].current # 0

(***************************************************************************)
(* What every step keeps beside IInv, for the three properties above.      *)
(*                                                                         *)
(* The fields are trees of parts, and a packet context has the parts of a  *)
(* new one.                                                                *)
(***************************************************************************)
IsContext(f) ==
    LET new == Create(layout.packetContext)
    IN f \in [DOMAIN new -> Part] /\ \A p \in DOMAIN new : f[p].type = new[p].type

IsFilled(st) ==
    /\ IsContext(st.context) /\ IsTree(st.header)
    /\ {st.classId, st.lastEnd, st.discarded, st.begin} \subseteq Nat

HasTrees(ev) ==
    /\ ev.class \in Nat
    /\ DOMAIN ev.fields = {Scopes[i] : i \in DOMAIN Scopes}
    /\ \A i \in DOMAIN Scopes : IsTree(ev.fields[Scopes[i]])

Filled ==
    /\ dev \in BOOLEAN /\ clock \in Nat /\ IsLayout(layout)
    /\ \A s \in Files : IsFilled(stream[s])
    /\ \A e \in EventNames : Live(e) => HasTrees(event[e])

(* The packets say their sizes and the count of their time, if the members *)
(* can hold them; a second one is only written when the packet size is     *)
(* said.                                                                   *)
Said(f, name, v) == IF HasMember(f, name) THEN v % 2 ^ BitsAt(f, Place(f, name)) ELSE -1

SaysSizes(f, p) ==
    /\ p.content \in Nat
    /\ p.saidSize = Said(f, "packet_size", UpToByte(p.content))
    /\ p.saidContent = Said(f, "content_size", p.content)
    /\ HasMember(f, "content_size") => HasMember(f, "packet_size")
    /\ ~HasMember(f, "content_size") => p.content % 8 = 0

SaysDiscarded(st, k) ==
    /\ st.file[k].discarded \in 0..st.discarded
    /\ ~dev => st.file[k].saidDiscarded = Said(st.context, "events_discarded", st.file[k].discarded)
    /\ \A j \in 1..k : st.file[j].discarded <= st.file[k].discarded

IsTold(st) ==
    /\ st.count = Len(st.file)
    /\ HasPacketSize(st) \/ st.count <= 1
    /\ \A k \in DOMAIN st.file : SaysSizes(st.context, st.file[k]) /\ SaysDiscarded(st, k)

Told == \A s \in Files : IsTold(stream[s])

(* The last time that was told is the end of the packet. *)
IsTimed(p) ==
    /\ p.begin \in Nat /\ p.end \in Nat
    /\ p.told \in Seq([bits : Sizes, value : Nat])

TimesAreTold(file, k) ==
    LET told == ToldUpTo(file, k)
    IN /\ NeverDecreases(told)
       /\ \A i \in DOMAIN told : told[i].bits = WordBits /\ told[i].value # NoTime
       /\ \A j \in 1..k : ~file[j].again

LastTold(file, k) ==
    LET told == ToldUpTo(file, k)
    IN IF told = <<>> THEN 0 ELSE Last(told).value

Encloses(file, k) ==
    /\ TimesAreTold(file, k) =>
           /\ file[k].begin <= file[k].end
           /\ k > 1 => file[k - 1].end <= file[k].begin
           /\ \A i \in DOMAIN file[k].told : file[k].told[i].value \in file[k].begin..file[k].end
           /\ file[k].end = LastTold(file, k)
    /\ file[k].told # <<>> =>
           LET last == Last(file[k].told)
           IN (file[k].end - last.value) % 2 ^ last.bits = 0

Timed ==
    \A s \in Files : \A k \in DOMAIN stream[s].file :
        IsField(stream[s].context) => IsTimed(stream[s].file[k]) /\ Encloses(stream[s].file, k)

(* A pending event is frozen, and so is all of it that is met for sure. *)
IsSettled(f) ==
    \A p \in {q \in DOMAIN f : Sure(f, q)} :
        /\ f[p].frozen
        /\ ClassAt(f, p) \in Scalars => f[p].set
        /\ ClassAt(f, p) = "variant" => f[p].current # 0

Settled ==
    dev => \A e \in EventNames : Live(e) /\ event[e].stream # Nobody =>
        /\ event[e].frozen
        /\ \A i \in DOMAIN Scopes : IsSettled(event[e].fields[Scopes[i]])

(***************************************************************************)
(* A packet that was taken for written is written (stream.c:1781, "The     *)
(* whole packet is serialized at this point.").  It does not hold: a       *)
(* structure whose member failed reports success.                          *)
(***************************************************************************)
WrittenIsWhole ==
    \A s \in Files : \A k \in DOMAIN stream[s].file : ~stream[s].file[k].failed
=============================================================================
