------------------------------ MODULE Classes ------------------------------
(***************************************************************************)
(* The objects of a CTF writer that describe a trace: the writer, its      *)
(* trace, stream classes and event classes (trace.c, stream-class.c,       *)
(* event-class.c, clock-class.c), and how they share their lives through   *)
(* reference counts and parents (object.h).                                *)
(*                                                                         *)
(* An event class is put into a stream class, a stream class into a trace. *)
(* What is put into a larger object is frozen, and from then on it must    *)
(* agree with that object: on identifiers, on field types, on the clock    *)
(* class.  Field types are objects too: classes may share them, and what   *)
(* one class does to a type is seen by the others.                         *)
(*                                                                         *)
(* A failed allocation ends the call that made it and is left out, and so  *)
(* is what a call does that reads a destroyed object.                      *)
(***************************************************************************)
EXTENDS Integers, Sequences, FiniteSets, SequencesExt

CONSTANTS Writer, Trace,   \* the writer and its trace
          StreamClasses, EventClasses,
          Clocks,          \* clock classes
          TypesOf,         \* from a scope to the types a client gives it
          Kept,            \* the scopes whose types a client keeps and shares
          Clients,         \* what a client has made, and the calls it has left
          Ids,             \* identifiers that are set explicitly
          Words,           \* the values of the other attributes
          Names,           \* of environment fields
          None,            \* no object, clock class or word
          MaxHeld          \* references of the client to one object

Objects == {Writer, Trace} \union StreamClasses \union EventClasses

\* The scopes with a field type of their own, and the class that holds it.
Scopes == ({Trace} \X {"packet_header"})
            \union (StreamClasses \X {"packet_context", "event_header", "event_context"})
            \union (EventClasses \X {"context", "payload"})

(***************************************************************************)
(* A field type, by what the classes look at: is there one, does it        *)
(* resolve and validate, do its special fields have the form that the CTF  *)
(* specification asks for, does it say which class an item is of           *)
(* (stream_id, id), does it contain sequences or variants, which link to   *)
(* other fields, the clock classes that it maps to, and whether it has a   *)
(* timestamp that maps to none.                                            *)
(***************************************************************************)
FieldTypes == [present : BOOLEAN, sound : BOOLEAN, fits : BOOLEAN, numbered : BOOLEAN,
               links : BOOLEAN, clocks : SUBSET Clocks, stamp : BOOLEAN]

ASSUME ClassesAssumption ==
  /\ Writer # Trace /\ None \notin Objects \union Clocks \union Words
  /\ {Writer, Trace} \intersect (StreamClasses \union EventClasses) = {}
  /\ StreamClasses \intersect EventClasses = {}
  /\ Clocks \intersect Objects = {}
  /\ IsFiniteSet(StreamClasses) /\ IsFiniteSet(EventClasses) /\ IsFiniteSet(Clocks)
  /\ Ids \subseteq Nat /\ MaxHeld \in Nat \ {0}
  /\ Kept \subseteq {"packet_header", "packet_context", "event_header", "event_context",
                    "context", "payload"}
  /\ TypesOf \in [{"packet_header", "packet_context", "event_header", "event_context",
                  "context", "payload"} -> SUBSET FieldTypes]
  /\ Clients \subseteq [made : SUBSET (StreamClasses \union EventClasses), type : [Scopes -> FieldTypes],
                        sets : Nat, refs : Nat]

VARIABLES
  heap,      \* reference counts, parents, and the destroyed objects
  held,      \* references that the client owns
  streams,   \* trace->stream_classes
  events,    \* stream_class->event_classes
  index,     \* stream_class->event_classes_ht, by identifier
  id, nextStream, nextEvent,
  frozen, valid,
  type,      \* the field type of every scope
  same,      \* the scopes that have the same object as their type
  hard,      \* those whose type is frozen
  open,      \* those whose frozen type was given a timestamp that is not
  late,      \* frozen stream classes whose event header was set without a check
  own,       \* the class of stream_class->clock
  expected,  \* stream_class->clock_class
  clocks,    \* trace->clock_classes
  word,      \* names, UUIDs, byte order, log levels, frequencies, ...
  env, fixed, \* trace->environment, and its frozen values
  sets, refs  \* bounds: calls that set something, that take or put a reference

life == <<heap, held, refs>>
tree == <<streams, events, index, id, nextStream, nextEvent, valid>>
forms == <<type, same, hard, open>>
data == <<late, own, word, env>>
vars == <<life, tree, forms, data, frozen, expected, clocks, fixed, sets>>

-----------------------------------------------------------------------------
(***************************************************************************)
(* Reference counts and parents.                                           *)
(***************************************************************************)

\* An object and those above it, from the bottom up; after the last is None.
Line(h, o) == <<o, h.parent[o], h.parent[h.parent[o]], h.parent[h.parent[h.parent[o]]]>>

RootOf(h, o) == CHOOSE x \in ToSet(Line(h, o)) \ {None} : h.parent[x] = None

\* The first objects of a line whose count is n, and the one after them.
Run(h, line, n) ==
  {line[i] : i \in {k \in DOMAIN line : /\ line[k] # None
                                       /\ \A j \in 1..(k - 1) : h.ref[line[j]] = n}}

\* bt_ctf_object_get_ref(): an object whose count was zero takes its parent.
Taken(h, o) ==
  [h EXCEPT !.ref = [x \in Objects |-> @[x] + IF x \in Run(h, Line(h, o), 0) THEN 1 ELSE 0]]

\* The arrays of children: bt_ctf_object_try_spec_release() destroys those
\* that nobody holds.
Children(x) ==
  CASE x = Writer -> {Trace}
    [] x = Trace -> ToSet(streams)
    [] x \in StreamClasses -> ToSet(events[x])
    [] OTHER -> {}

Unheld(h, xs) == xs \union {c \in UNION {Children(x) : x \in xs} : h.ref[c] = 0}

Destroyed(h, root) == [h EXCEPT !.gone = @ \union Unheld(h, Unheld(h, Unheld(h, {root})))]

\* bt_ctf_object_put_ref(): an object whose count falls to zero puts its
\* parent; without a parent it is destroyed.
Dropped(h, o) ==
  LET line == Line(h, o)
      less == Run(h, line, 1)
      h1 == [h EXCEPT !.ref = [x \in Objects |-> @[x] - IF x \in less THEN 1 ELSE 0]]
      root == RootOf(h, o)
  IN  IF h1.ref[root] = 0 /\ root \in less THEN Destroyed(h1, root) ELSE h1

\* Mutant of Attached: the parent is not taken.
AttachedLoosely(h, child, p) == [h EXCEPT !.parent[child] = p]

\* bt_ctf_object_set_parent(): the parent is taken by a child that is held.
Attached(h, child, p) == Taken([h EXCEPT !.parent[child] = p], p)

Counts == refs > 0 /\ refs' = refs - 1

Put(o) ==
  /\ Counts /\ held[o] > 0
  /\ held' = [held EXCEPT ![o] = @ - 1]
  /\ heap' = Dropped(heap, o)
  /\ UNCHANGED <<tree, forms, data, frozen, expected, clocks, fixed, sets>>

Get(o) ==
  /\ Counts /\ held[o] < MaxHeld
  /\ held' = [held EXCEPT ![o] = @ + 1]
  /\ heap' = Taken(heap, o)
  /\ UNCHANGED <<tree, forms, data, frozen, expected, clocks, fixed, sets>>

\* No class that the trace lists was destroyed.
Intact == ToSet(streams) \intersect heap.gone = {}

\* The getters of the API: from an object to its parent, to the trace of the
\* writer, or to the children in its arrays.
WriterGetTrace == held[Writer] > 0 /\ Get(Trace)
GetStreamClassByIndex(s) == held[Trace] > 0 /\ s \in ToSet(streams) \ heap.gone /\ Get(s)
GetStreamClassById(n) ==
  /\ held[Trace] > 0 /\ n >= 0 /\ Intact
  /\ \E i \in DOMAIN streams :
       /\ id[streams[i]] = n /\ \A j \in 1..(i - 1) : id[streams[j]] # n
       /\ Get(streams[i])
GetEventClassByIndex(s, e) == held[s] > 0 /\ e \in ToSet(events[s]) /\ Get(e)
GetEventClassById(s, n) == held[s] > 0 /\ n \in DOMAIN index[s] /\ Get(index[s][n])
GetParent(o) == held[o] > 0 /\ o # Trace /\ heap.parent[o] # None /\ Get(heap.parent[o])

-----------------------------------------------------------------------------
(***************************************************************************)
(* What is set before an object is frozen.                                 *)
(***************************************************************************)

Called == sets > 0 /\ sets' = sets - 1

SetId(o, n) ==
  /\ Called /\ held[o] > 0 /\ o \notin frozen
  /\ id' = [id EXCEPT ![o] = n]
  /\ UNCHANGED <<life, forms, data, streams, events, index, nextStream, nextEvent, valid,
                 frozen, expected, clocks, fixed>>

StreamClassSetId(s, n) == SetId(s, n)
EventClassSetId(e, n) == SetId(e, n)

\* A class takes a type that a client has made for it, or one that another
\* class has too, in the scopes g.
Gives(c, t, g) ==
  /\ type' = [type EXCEPT ![c] = t]
  /\ same' = [x \in Scopes |-> IF x \in g \union {c} THEN g \union {c} ELSE same[x] \ {c}]
  /\ hard' = IF g \intersect hard = {} THEN hard \ {c} ELSE hard \union {c}
  /\ open' = IF g \intersect open = {} THEN open \ {c} ELSE open \union {c}

\* A client that has kept a reference to the type of a scope shares it between
\* scopes of one name.
Holds(c) == c[2] \in Kept /\ c[1] \notin heap.gone /\ type[c].present

Offers(c) ==
  {<<t, {}>> : t \in TypesOf[c[2]]}
    \union {<<type[d], same[d] \ {c}>> : d \in {x \in Scopes \ {c} : x[2] = c[2] /\ Holds(x)}}

\* A type is changed: all who have it see it.
Alters(c, t) ==
  /\ type' = [x \in Scopes |-> IF x \in same[c] THEN t ELSE type[x]]
  /\ UNCHANGED <<same, hard, open>>

SetType(c, o) ==
  /\ Called /\ held[c[1]] > 0 /\ c[1] \notin frozen
  /\ Gives(c, o[1], o[2])
  /\ UNCHANGED <<life, tree, data, frozen, expected, clocks, fixed>>

TraceSetPacketHeaderType(o) == SetType(<<Trace, "packet_header">>, o)
StreamClassSetPacketContextType(s, o) == SetType(<<s, "packet_context">>, o)
StreamClassSetEventHeaderType(s, o) == SetType(<<s, "event_header">>, o)
StreamClassSetEventContextType(s, o) == SetType(<<s, "event_context">>, o)
EventClassSetContextType(e, o) == SetType(<<e, "context">>, o)
EventClassSetPayloadType(e, o) == SetType(<<e, "payload">>, o)

\* bt_ctf_event_class_add_field(), or a setter of the field type itself.
ChangeType(c, t) ==
  /\ Called /\ c \notin hard /\ type[c].present /\ t.present
  /\ Alters(c, t)
  /\ UNCHANGED <<life, tree, data, frozen, expected, clocks, fixed>>

EventClassAddField(e, t) == held[e] > 0 /\ e \notin frozen /\ ChangeType(<<e, "payload">>, t)
FieldTypeSet(c, t) == Holds(c) /\ ChangeType(c, t)

\* A client makes a field of the type, which freezes it (fields.c:1157).
FieldCreate(c) ==
  /\ Called /\ Holds(c) /\ c \notin hard
  /\ hard' = hard \union same[c]
  /\ UNCHANGED <<life, tree, type, same, open, data, frozen, expected, clocks, fixed>>

\* A timestamp that was put into a frozen type is mapped to another clock class,
\* or made signed.
SetTimestamp(c, k) ==
  /\ Called /\ c \in open /\ c[1] \notin heap.gone
  /\ \E others \in SUBSET type[c].clocks, fits \in BOOLEAN :
       Alters(c, [type[c] EXCEPT !.clocks = others \union {k}, !.fits = fits])
  /\ UNCHANGED <<life, tree, data, frozen, expected, clocks, fixed>>

\* bt_ctf_stream_add_event_header() replaces the header of any class.
StreamAddEventHeader(s, o) ==
  /\ Called /\ held[s] > 0 /\ o[1].present
  /\ Gives(<<s, "event_header">>, o[1], o[2])
  /\ late' = IF s \in frozen THEN late \union {s} ELSE late
  /\ UNCHANGED <<life, tree, own, word, env, frozen, expected, clocks, fixed>>

StreamClassSetClock(s, c) ==
  /\ Called /\ held[s] > 0 /\ s \notin frozen
  /\ own' = [own EXCEPT ![s] = c]
  /\ UNCHANGED <<life, tree, forms, late, word, env, frozen, expected, clocks, fixed>>

SetWord(x, w) ==
  /\ Called /\ x \notin frozen
  /\ word' = [word EXCEPT ![x] = w]
  /\ UNCHANGED <<life, tree, forms, late, own, env, frozen, expected, clocks, fixed>>

TraceSetAttribute(w) == held[Trace] > 0 /\ SetWord(Trace, w)
StreamClassSetName(s, w) == held[s] > 0 /\ SetWord(s, w)
EventClassSetAttribute(e, w) == held[e] > 0 /\ SetWord(e, w)
ClockClassSetAttribute(c, w) == SetWord(c, w)

TraceAddClockClass(c) ==
  /\ Called /\ held[Trace] > 0 /\ c \notin clocks
  /\ clocks' = clocks \union {c}
  /\ frozen' = IF Trace \in frozen THEN frozen \union {c} ELSE frozen
  /\ UNCHANGED <<life, tree, forms, data, expected, fixed>>

\* A frozen trace takes new environment fields, and freezes their values.
SetEnvironmentField(n, w) ==
  /\ Called /\ held[Trace] > 0
  /\ Trace \in frozen => env[n] = None
  /\ env' = [env EXCEPT ![n] = w]
  /\ fixed' = IF Trace \in frozen THEN fixed \union {n} ELSE fixed
  /\ UNCHANGED <<life, tree, forms, late, own, word, frozen, expected, clocks>>

\* The value object of a field is the client's until it is frozen.
ChangeEnvironmentValue(n, w) ==
  /\ Called /\ env[n] # None /\ n \notin fixed
  /\ env' = [env EXCEPT ![n] = w]
  /\ UNCHANGED <<life, tree, forms, late, own, word, frozen, expected, clocks, fixed>>

-----------------------------------------------------------------------------
(***************************************************************************)
(* Clock classes and the validity of types.                                *)
(***************************************************************************)

ScopesOf(x) == {c \in Scopes : c[1] = x}
ClocksIn(xs) == UNION {type[c].clocks : c \in UNION {ScopesOf(x) : x \in xs}}
Some(c) == {c} \ {None}

\* ..._validate_single_clock_class(): the clock classes of the objects' types,
\* with the one that is expected.
SingleClock(xs, c) == Cardinality(ClocksIn(xs) \union Some(c)) <= 1
TheClock(xs, c) ==
  IF ClocksIn(xs) \union Some(c) = {} THEN None ELSE CHOOSE k \in ClocksIn(xs) \union Some(c) : TRUE

Sound(x) == \A c \in ScopesOf(x) : type[c].sound
Validates(x) == x \in valid \/ Sound(x)

\* bt_ctf_validate_class_types() makes copies of the types with sequences or
\* variants, and freezes them, unless the class was found valid before.
Copied(xs) ==
  {c \in UNION {ScopesOf(x) : x \in xs \ valid} : type[c].present /\ type[c].links}

\* The types with timestamps that map to no clock class, if the class has one.
Unmapped(s) ==
  {c \in {<<s, "packet_context">>, <<s, "event_header">>} :
     type[c].present /\ type[c].stamp /\ own[s] # None}

\* The copies are no one else's.
Split(copies) == [x \in Scopes |-> IF x \in copies THEN {x} ELSE same[x] \ copies]

\* bt_ctf_stream_class_map_clock_class() and bt_ctf_validation_replace_types():
\* in the types cs, which may be frozen and others' too, the timestamps are
\* replaced by ones that map to the clock class k.  Then the classes xs take the
\* copies, and their types are frozen, the old ones too.
TypesSettle(xs, copies, cs, k) ==
  /\ same' = Split(copies)
  /\ type' = [c \in Scopes |->
                IF c \in UNION {Split(copies)[x] : x \in cs}
                THEN [type[c] EXCEPT !.stamp = FALSE, !.clocks = @ \union {k}]
                ELSE type[c]]
  /\ hard' = hard \union (UNION {same[c] : c \in UNION {ScopesOf(x) : x \in xs}})
  /\ open' = (open \ copies)
               \union (UNION {Split(copies)[c] : c \in cs \intersect (hard \union copies)})

\* bt_ctf_stream_class_common_freeze() and bt_ctf_trace_common_freeze().
Freezing(xs) ==
  frozen \union xs
    \union (UNION {Some(expected[s]) : s \in (xs \intersect StreamClasses) \ frozen})
    \union (IF Trace \in xs \ frozen THEN clocks ELSE {})

-----------------------------------------------------------------------------
(***************************************************************************)
(* bt_ctf_stream_class_add_event_class()                                   *)
(***************************************************************************)

HasEventClass(s, e) ==
  \E x \in ToSet(events[s]) : x = e \/ (id[x] >= 0 /\ id[x] = id[e])

InTrace(s) == heap.parent[s] = Trace

\* Mutant of TakesEventClass: the clock classes of the new types are not looked at.
TakesEventClassAnyClock(s, e) ==
  /\ ~HasEventClass(s, e)
  /\ heap.parent[e] = None
  /\ InTrace(s) => Validates(e)
  /\ id[e] < 0 => e \notin frozen

TakesEventClass(s, e) ==
  /\ s \in frozen => SingleClock({e}, expected[s])
  /\ ~HasEventClass(s, e)
  /\ heap.parent[e] = None
  /\ InTrace(s) => Validates(e)
  /\ id[e] < 0 => e \notin frozen

StreamClassAddEventClass(s, e) ==
  LET auto == id[e] < 0
      n == IF auto THEN nextEvent[s] ELSE id[e]
      key == IF auto THEN n + 1 ELSE n   \* *event_id = ++next_event_id
  IN  /\ held[s] > 0 /\ held[e] > 0
      /\ TakesEventClass(s, e)
      /\ id' = [id EXCEPT ![e] = n]
      /\ nextEvent' = [nextEvent EXCEPT ![s] = IF auto THEN @ + 1 ELSE @]
      /\ heap' = Attached(heap, e, s)
      /\ events' = [events EXCEPT ![s] = Append(@, e)]
      /\ index' = [index EXCEPT ![s] =
                     [k \in DOMAIN @ \union {key} |-> IF k = key THEN e ELSE @[k]]]
      /\ valid' = IF InTrace(s) THEN valid \union {e} ELSE valid
      /\ frozen' = Freezing({e})
      /\ expected' = IF s \in frozen
                     THEN [expected EXCEPT ![s] = TheClock({e}, @)] ELSE expected
      /\ TypesSettle({e}, IF InTrace(s) THEN Copied({e}) ELSE {}, {}, None)
      /\ UNCHANGED <<held, streams, nextStream, data, clocks, fixed, sets, refs>>

-----------------------------------------------------------------------------
(***************************************************************************)
(* bt_ctf_trace_add_stream_class()                                         *)
(***************************************************************************)

Members(s) == {s} \union ToSet(events[s])

\* The class of the stream class's clock must be a clock class of the trace; of
\* one that is not the expected one the call only warns.
ClockIsKnown(s) == own[s] # None => own[s] \in clocks

Expected(s) == IF expected[s] = None THEN own[s] ELSE None

\* Mutant of TakesStreamClass: the event classes are not validated.
TakesStreamClassAlone(s) ==
  /\ s \notin frozen => SingleClock(Members(s), Expected(s))
  /\ type[<<Trace, "packet_header">>].clocks = {}
  /\ Validates(Trace) /\ Validates(s)

\* The checks that come before an identifier is chosen.
TakesStreamClass(s) ==
  /\ s \notin frozen => SingleClock(Members(s), Expected(s))
  /\ type[<<Trace, "packet_header">>].clocks = {}
  /\ \A x \in {Trace} \union Members(s) : Validates(x)

PacketHeaderFits ==
  LET t == type[<<Trace, "packet_header">>]
  IN  /\ t.present => t.fits
      /\ streams # <<>> => t.present /\ t.numbered

PacketContextFits(s) ==
  LET t == type[<<s, "packet_context">>] IN t.present => t.fits

EventHeaderFits(s) ==
  LET t == type[<<s, "event_header">>]
  IN  IF t.present THEN t.fits ELSE Len(events[s]) <= 1

NewId(s) == IF id[s] < 0 THEN nextStream ELSE id[s]
IdIsFree(s) == id[s] < 0 => \A x \in ToSet(streams) : id[x] # NewId(s)

\* Mutant of TakeId: every class gets an automatic identifier.
TakeIdAlways(s) == nextStream' = nextStream + 1 /\ id' = [id EXCEPT ![s] = nextStream]

\* An automatic identifier is used up, and kept by the class, even when what
\* follows fails.
TakeId(s) ==
  /\ nextStream' = IF id[s] < 0 THEN nextStream + 1 ELSE nextStream
  /\ id' = IF IdIsFree(s) THEN [id EXCEPT ![s] = NewId(s)] ELSE id

AddStreamClass(s) ==
  /\ held[s] > 0 /\ ClockIsKnown(s)
  /\ heap.parent[s] = None
  /\ TakesStreamClass(s)
  /\ id[s] < 0 => Intact
  /\ TakeId(s)
  /\ UNCHANGED <<held, events, index, nextEvent, data, clocks, sets, refs>>
  /\ \/ /\ ~(IdIsFree(s) /\ PacketHeaderFits /\ PacketContextFits(s) /\ EventHeaderFits(s))
        /\ UNCHANGED <<heap, streams, valid, forms, frozen, expected, fixed>>
     \/ /\ IdIsFree(s) /\ PacketHeaderFits /\ PacketContextFits(s) /\ EventHeaderFits(s)
        /\ LET xs == {Trace} \union Members(s)
           IN TypesSettle(xs, Copied(xs), Unmapped(s), own[s])
        /\ heap' = Attached(heap, s, Trace)
        /\ streams' = Append(streams, s)
        /\ valid' = valid \union {Trace} \union Members(s)
        /\ frozen' = Freezing({s, Trace})
        /\ fixed' = IF Trace \in frozen THEN fixed ELSE {n \in Names : env[n] # None}
        /\ expected' = IF s \in frozen
                       THEN [expected EXCEPT ![s] = IF Expected(s) = None THEN @ ELSE Expected(s)]
                       ELSE [expected EXCEPT ![s] = TheClock(Members(s), Expected(s))]

\* A class that has a trace already is refused, but with the failure it loses
\* its parent (trace.c:1242): the trace still lists it, and no longer owns it.
AddAgain(s) ==
  /\ Counts /\ held[s] > 0 /\ ClockIsKnown(s) /\ InTrace(s)
  /\ heap' = [Dropped(heap, Trace) EXCEPT !.parent[s] = None]
  /\ UNCHANGED <<held, tree, forms, data, frozen, expected, clocks, fixed, sets>>

\* bt_ctf_writer_create_stream() adds a class that the trace does not list.
TraceAddStreamClass(s) == held[Trace] > 0 /\ (AddStreamClass(s) \/ AddAgain(s))
WriterCreateStream(s) == held[Writer] > 0 /\ s \notin ToSet(streams) /\ AddStreamClass(s)

-----------------------------------------------------------------------------
(***************************************************************************)
(* bt_ctf_event_create(): the first event of a stream class freezes it,    *)
(* also without a trace.  The event's reference to its class counts with   *)
(* those of the client.                                                    *)
(***************************************************************************)

EventCreate(e) ==
  LET s == heap.parent[e]
  IN  /\ held[e] \in 1..(MaxHeld - 1) /\ s # None
      /\ s \notin frozen => SingleClock(Members(s), own[s])
      /\ Validates(s) /\ Validates(e)
      /\ TypesSettle({s, e}, Copied({s, e}), Unmapped(s), own[s])
      /\ held' = [held EXCEPT ![e] = @ + 1]
      /\ heap' = Taken(heap, e)
      /\ frozen' = Freezing({s})
      /\ valid' = valid \union {s, e}
      /\ expected' = [expected EXCEPT ![s] =
                        IF s \notin frozen THEN TheClock(Members(s), own[s])
                        ELSE IF own[s] # None THEN own[s] ELSE @]
      /\ UNCHANGED <<streams, events, index, id, nextStream, nextEvent, data, clocks,
                     fixed, sets, refs>>

-----------------------------------------------------------------------------
(***************************************************************************)
(* bt_ctf_writer_create(): the writer owns its trace, whose own reference  *)
(* it puts.  The client has created some classes and given them types.     *)
(***************************************************************************)

InitFor(client) ==
  /\ held = [x \in Objects |-> IF x \in client.made \union {Writer} THEN 1 ELSE 0]
  /\ heap = [ref |-> held,
             parent |-> [x \in Objects \union {None} |-> IF x = Trace THEN Writer ELSE None],
             gone |-> Objects \ (client.made \union {Writer, Trace})]
  /\ type = client.type /\ same = [c \in Scopes |-> {c}] /\ hard = {} /\ open = {}
  /\ sets = client.sets /\ refs = client.refs

Init ==
  /\ \E client \in Clients : InitFor(client)
  /\ streams = <<>> /\ events = [s \in StreamClasses |-> <<>>]
  /\ index = [s \in StreamClasses |-> <<>>]
  /\ id = [x \in StreamClasses \union EventClasses |-> -1]
  /\ nextStream = 0 /\ nextEvent = [s \in StreamClasses |-> 0]
  /\ frozen = {} /\ valid = {} /\ late = {}
  /\ own = [s \in StreamClasses |-> None] /\ expected = own
  /\ clocks = {}
  /\ word = [x \in {Trace} \union StreamClasses \union EventClasses \union Clocks |-> None]
  /\ env = [n \in Names |-> None] /\ fixed = {}

Lifetimes ==
  \/ WriterGetTrace
  \/ \E o \in Objects : Put(o) \/ GetParent(o)
  \/ \E s \in StreamClasses : GetStreamClassByIndex(s)
  \/ \E n \in 0..nextStream : GetStreamClassById(n)
  \/ \E s \in StreamClasses, e \in EventClasses : GetEventClassByIndex(s, e)
  \/ \E s \in StreamClasses : \E n \in DOMAIN index[s] : GetEventClassById(s, n)

Setters ==
  \/ \E s \in StreamClasses, n \in Ids : StreamClassSetId(s, n)
  \/ \E e \in EventClasses, n \in Ids : EventClassSetId(e, n)
  \/ \E o \in Offers(<<Trace, "packet_header">>) : TraceSetPacketHeaderType(o)
  \/ \E s \in StreamClasses :
       \/ \E o \in Offers(<<s, "packet_context">>) : StreamClassSetPacketContextType(s, o)
       \/ \E o \in Offers(<<s, "event_header">>) :
            StreamClassSetEventHeaderType(s, o) \/ StreamAddEventHeader(s, o)
       \/ \E o \in Offers(<<s, "event_context">>) : StreamClassSetEventContextType(s, o)
  \/ \E e \in EventClasses :
       \/ \E o \in Offers(<<e, "context">>) : EventClassSetContextType(e, o)
       \/ \E o \in Offers(<<e, "payload">>) : EventClassSetPayloadType(e, o)
       \/ \E t \in TypesOf["payload"] : EventClassAddField(e, t)
  \/ \E c \in Scopes : \/ \E t \in TypesOf[c[2]] : FieldTypeSet(c, t)
                      \/ FieldCreate(c)
                      \/ \E k \in Clocks : SetTimestamp(c, k)
  \/ \E s \in StreamClasses, c \in Clocks : StreamClassSetClock(s, c)
  \/ \E w \in Words : TraceSetAttribute(w)
  \/ \E s \in StreamClasses, w \in Words : StreamClassSetName(s, w)
  \/ \E e \in EventClasses, w \in Words : EventClassSetAttribute(e, w)
  \/ \E c \in Clocks, w \in Words : ClockClassSetAttribute(c, w)
  \/ \E c \in Clocks : TraceAddClockClass(c)
  \/ \E n \in Names, w \in Words : SetEnvironmentField(n, w) \/ ChangeEnvironmentValue(n, w)

Next ==
  \/ Lifetimes \/ Setters
  \/ \E s \in StreamClasses, e \in EventClasses : StreamClassAddEventClass(s, e)
  \/ \E s \in StreamClasses : TraceAddStreamClass(s) \/ WriterCreateStream(s)
  \/ \E e \in EventClasses : EventCreate(e)

Spec == Init /\ [][Next]_vars

-----------------------------------------------------------------------------
(***************************************************************************)
(* Properties.                                                             *)
(***************************************************************************)

TypeOK ==
  /\ heap \in [ref : [Objects -> Nat], parent : [Objects \union {None} -> Objects \union {None}],
               gone : SUBSET Objects]
  /\ held \in [Objects -> 0..MaxHeld]
  /\ streams \in Seq(StreamClasses) /\ events \in [StreamClasses -> Seq(EventClasses)]
  /\ DOMAIN index = StreamClasses
  /\ id \in [StreamClasses \union EventClasses -> Int] /\ nextStream \in Nat
  /\ nextEvent \in [StreamClasses -> Nat]
  /\ frozen \subseteq Objects \union Clocks /\ valid \subseteq Objects
  /\ type \in [Scopes -> FieldTypes] /\ same \in [Scopes -> SUBSET Scopes]
  /\ hard \subseteq Scopes /\ open \subseteq Scopes
  /\ late \subseteq frozen \intersect StreamClasses
  /\ own \in [StreamClasses -> Clocks \union {None}] /\ expected \in [StreamClasses -> Clocks \union {None}]
  /\ word \in [{Trace} \union StreamClasses \union EventClasses \union Clocks -> Words \union {None}]
  /\ clocks \subseteq Clocks /\ env \in [Names -> Words \union {None}] /\ fixed \subseteq Names

\* The objects of one tree live and die together: an object is destroyed when
\* the client holds none of its tree, and not before (object.h:119-194).  A
\* class that lost its parent when it was added again is a tree of its own.
Root(o) == RootOf(heap, o)
AliveTogether ==
  \A o \in Objects : o \notin heap.gone <=> \E x \in Objects : Root(x) = Root(o) /\ held[x] > 0

\* A trace that lives lists no destroyed class.  This is false: a class that was
\* added again is listed, and destroyed when its client lets go of it.
ListedAreAlive == Trace \notin heap.gone => Intact

\* Every type of a frozen stream class and of its event classes maps to one
\* clock class, the expected one, whatever order they were added and mapped in
\* and whoever shares them; in a trace that is the class of the stream class's
\* clock (stream-class.c:191-230, trace.c:946-986).  A header that was replaced
\* late was not looked at, and the timestamps of open types are the clients'.
OnTime(c) == c[2] = "event_header" => c[1] \notin late
Tame(c) == OnTime(c) /\ c \notin open
Checked(s) == {c \in UNION {ScopesOf(x) : x \in Members(s)} : Tame(c)}
OneClock ==
  \A s \in frozen \intersect StreamClasses :
    /\ \A c \in Checked(s) : type[c].clocks \subseteq Some(expected[s])
    /\ own[s] # None => expected[s] = own[s]

\* "after this point, everything is frozen so it won't be possible for the user
\* to modify the stream class's clock, or to map those field types to other
\* clock classes" (trace.c:1168).  This is false: a timestamp that is mapped in a
\* frozen type is not frozen.
MappedForGood ==
  \A s \in ToSet(streams) :
    s \notin late => \A c \in ScopesOf(s) : type[c].clocks \subseteq Some(expected[s])

\* The classes that a trace lists and owns are valid and frozen for good: their
\* types are sound and of the form the CTF specification asks for, every class
\* has an identifier, a packet of one of several stream classes says which, and
\* no clock class or environment value of the trace can change any more
\* (trace.c:995-1223).
TraceIsValid ==
  /\ streams # <<>> => Trace \in frozen \intersect valid /\ Sound(Trace)
  /\ Len(streams) > 1 => PacketHeaderFits
  /\ \A s \in ToSet(streams) : InTrace(s) =>
       /\ Members(s) \subseteq frozen \intersect valid
       /\ \A c \in Checked(s) :
            /\ type[c].sound
            /\ c[2] \in {"packet_context", "event_header"} /\ type[c].present => type[c].fits
       /\ \A x \in Members(s) : id[x] >= 0
  /\ Trace \in frozen => clocks \subseteq frozen /\ {n \in Names : env[n] # None} \subseteq fixed

\* The stream classes of a trace can be told apart by their identifiers.  This
\* is false: those that are set explicitly are not compared (trace.c:1103).
StreamIdsDiffer ==
  \A i, j \in DOMAIN streams : id[streams[i]] = id[streams[j]] => streams[i] = streams[j]

\* What a type is but for its timestamps.
Untimed(t) ==
  [present |-> t.present, sound |-> t.sound, numbered |-> t.numbered, links |-> t.links]

\* No call changes what is frozen: identifiers that were given, types, clocks,
\* other attributes, values of the environment; and nothing thaws.  Of a type
\* that a call opens, or has opened, only the timestamps change.
StaysFrozen ==
  /\ frozen \subseteq frozen' /\ valid \subseteq valid' /\ fixed \subseteq fixed'
  /\ \A x \in frozen \intersect DOMAIN word : word'[x] = word[x]
  /\ \A x \in frozen \intersect DOMAIN id : id[x] >= 0 => id'[x] = id[x]
  /\ \A s \in frozen \intersect StreamClasses :
       own'[s] = own[s] /\ (expected[s] # None => expected'[s] = expected[s])
  /\ \A c \in Scopes : c[1] \in frozen /\ OnTime(c)' =>
       Untimed(type'[c]) = Untimed(type[c]) /\ (c \notin open' => type'[c] = type[c])
  /\ \A n \in fixed : env'[n] = env[n]

FrozenStays == [][StaysFrozen]_vars

\* "Two event classes cannot share the same ID in a given stream class"
\* (stream-class.c:124).
EventIdsDiffer ==
  \A s \in StreamClasses : \A i, j \in DOMAIN events[s] :
    id[events[s][i]] = id[events[s][j]] => i = j
-----------------------------------------------------------------------------
(***************************************************************************)
(* The inductive invariant.                                                *)
(***************************************************************************)

\* What an object can be put into.
Shape(h) ==
  /\ h.parent[None] = None /\ h.parent[Writer] = None /\ h.parent[Trace] = Writer
  /\ \A s \in StreamClasses : h.parent[s] \in {None, Trace}
  /\ \A e \in EventClasses : h.parent[e] \in StreamClasses \union {None}

\* Parents and arrays of children agree, but for the classes added again.
Arrays ==
  /\ \A s \in StreamClasses : heap.parent[s] = Trace => s \in ToSet(streams)
  /\ \A s \in StreamClasses, e \in EventClasses : heap.parent[e] = s <=> e \in ToSet(events[s])
  /\ \A s \in StreamClasses : \A n \in DOMAIN index[s] : index[s][n] \in ToSet(events[s])

\* An object is held by the client and by every child that is held.
HeldKids(h, x) == {c \in Objects : h.parent[c] = x /\ h.ref[c] > 0}
Counted(h, hold) == \A x \in Objects : h.ref[x] = hold[x] + Cardinality(HeldKids(h, x))

\* A tree is destroyed when its root is no longer held.
GoneTogether(h) == \A o \in Objects : o \in h.gone <=> h.ref[RootOf(h, o)] = 0

\* The scopes with one type have one name, and agree on what the type is and on
\* its flags.  The types of a frozen class are frozen.
SameInv ==
  /\ \A c \in Scopes : c \in same[c]
  /\ \A c \in Scopes : \A d \in same[c] :
       /\ same[d] = same[c] /\ type[d] = type[c] /\ d[2] = c[2]
       /\ d \in hard <=> c \in hard
       /\ d \in open <=> c \in open
  /\ \A c \in open : c[1] \in StreamClasses
  /\ \A c \in Scopes : c[1] \in frozen /\ OnTime(c) => c \in hard

FreezeInv ==
  /\ \A s \in StreamClasses : ToSet(events[s]) \subseteq frozen
  /\ \A s \in StreamClasses \ frozen : expected[s] = None
  /\ \A n \in fixed : env[n] # None /\ Trace \in frozen
  /\ Trace \in frozen => clocks \subseteq frozen /\ \A n \in Names : env[n] # None => n \in fixed

ClockInv ==
  \A s \in frozen \intersect StreamClasses :
    /\ own[s] # None => expected[s] = own[s]
    /\ \A c \in Scopes : c[1] \in Members(s) /\ Tame(c) => type[c].clocks \subseteq Some(expected[s])

ValidInv ==
  /\ valid \subseteq frozen /\ frozen \intersect StreamClasses \subseteq valid
  /\ \A c \in Scopes : c[1] \in valid /\ Tame(c) => type[c].sound
  /\ \A s \in StreamClasses : \A e \in ToSet(events[s]) : id[e] >= 0

ListedInv ==
  /\ streams # <<>> => Trace \in valid
  /\ Len(streams) > 1 =>
       LET t == type[<<Trace, "packet_header">>] IN t.present /\ t.fits /\ t.numbered
  /\ \A s \in ToSet(streams) :
       /\ s \in valid /\ id[s] >= 0
       /\ InTrace(s) => Members(s) \subseteq valid
       /\ \A c \in {<<s, "packet_context">>, <<s, "event_header">>} :
            Tame(c) /\ type[c].present => type[c].fits

IInv ==
  /\ TypeOK /\ Shape(heap) /\ Arrays
  /\ Counted(heap, held) /\ GoneTogether(heap)
  /\ SameInv /\ FreezeInv /\ ClockInv /\ ValidInv /\ ListedInv
=============================================================================
