--------------------------- MODULE DeliveryOrder ----------------------------
(***************************************************************************)
(* The vocabulary shared by the source and by the abstract specification   *)
(* it implements: the items a topic holds for the trace graph and their    *)
(* order.  An item is an event, named by the position of its message in    *)
(* the topic (off) and its place in that message (idx, from 1), or, with   *)
(* idx = 0, the stream beginning that precedes the events of a message.    *)
(***************************************************************************)
EXTENDS Naturals, Sequences

Item == [off : Nat, idx : Nat]

\* Topic order: by message, and within a message by place.
Before(a, b) == a.off < b.off \/ (a.off = b.off /\ a.idx < b.idx)

Ordered(s) == \A i, j \in 1..Len(s) : i < j => Before(s[i], s[j])

Items(s) == {s[i] : i \in 1..Len(s)}

\* The stream data of topic t after position from, up to position to.
DataOffsets(t, from, to) == {o \in (from + 1)..to : t[o].key = "ddtrace"}

EventsOf(t, o) == {[off |-> o, idx |-> i] : i \in 1..t[o].events}

Events(t, from, to) == UNION {EventsOf(t, o) : o \in DataOffsets(t, from, to)}
=============================================================================
