---------------------------- MODULE SinkConsume ----------------------------
(***************************************************************************)
(* What the two sinks of the repository have in common: the life of the    *)
(* component's data, its upstream message iterator, and the loop of        *)
(* consume() that hands each message of an array to handle_message() and   *)
(* releases it.  influx.cxx and jaegertracing.cxx hold this code twice;    *)
(* InfluxSink and JaegerSink extend this module with what their            *)
(* handle_message() does.  Upstream is libbabeltrace (external).           *)
(*                                                                         *)
(* The release build is modelled: an assertion that would have failed is   *)
(* recorded in failedAsserts.                                              *)
(***************************************************************************)
EXTENDS Naturals, Sequences

CONSTANTS TraceMessages, \* the messages upstream may hand to the sink
          MaxArray,      \* the size of the arrays of upstream
          MaxSeen,       \* bound: the number of messages upstream ever hands on
          SinkFaults     \* the failures that may happen

SinkFaultNames == {"init", "configure", "upstream", "transport", "memory"}

\* The name of an event class, as the words its colons separate.
Names == Seq(STRING)

\* A message: an event, or one about a stream, which the sinks pass over.
TraceMessage == [event : BOOLEAN, name : Names, ts : Nat]
Event(name, ts) == [event |-> TRUE, name |-> name, ts |-> ts]
StreamMessage == [event |-> FALSE, name |-> <<>>, ts |-> 0]

ASSUME SinkAssumption ==
  /\ TraceMessages \subseteq TraceMessage
  /\ MaxArray \in Nat \ {0}
  /\ MaxSeen \in Nat
  /\ SinkFaults \subseteq SinkFaultNames

VARIABLES
  sink,         \* "none", then "ready" (initialised), "idle" (configured, between
                \* calls of consume), "handling" (inside one), "ended" or "failed"
                \* (consume returned END or ERROR), "gone" or "crashed"
  iterator,     \* the component's upstream iterator: "null", "live" or "junk"
  seen,         \* history: the messages upstream handed on
  handled,      \* how many of them went through handle_message()
  released,     \* how often each of them was released (bt_message_put_ref)
  failedAsserts \* the debug assertions that did not hold

sinkVars == <<sink, iterator, seen, handled, released, failedAsserts>>

SinkTypeOK ==
  /\ sink \in {"none", "ready", "idle", "handling", "ended", "failed", "gone", "crashed"}
  /\ iterator \in {"null", "live", "junk"}
  /\ seen \in Seq(TraceMessages)
  /\ Len(seen) <= MaxSeen
  /\ handled \in 0..Len(seen)
  /\ released \in Seq(Nat)
  /\ Len(released) = Len(seen)
  /\ failedAsserts \subseteq {"destroy", "configured"}

SinkInit ==
  /\ sink = "none"
  /\ iterator = "null"
  /\ seen = <<>>
  /\ handled = 0
  /\ released = <<>>
  /\ failedAsserts = {}

\* init() succeeds; the iterator's field holds what it was made with.
InitSucceeds(field) ==
  /\ sink = "none"
  /\ sink' = "ready"
  /\ iterator' = field
  /\ UNCHANGED <<seen, handled, released, failedAsserts>>

\* The data is destroyed: its iterator is released, whatever the field holds.
Destroy(field) ==
  /\ sink' = IF field = "junk" THEN "crashed" ELSE "gone"
  /\ iterator' = "null"
  /\ failedAsserts' = IF field = "null" THEN failedAsserts \cup {"destroy"}
                                        ELSE failedAsserts
  /\ UNCHANGED <<seen, handled, released>>

\* init() fails after the data was made, and destroys it.
InitFails(field) ==
  /\ sink = "none"
  /\ Destroy(field)

\* The component's data cannot be made: there is nothing to destroy.
CreateFails ==
  /\ sink = "none"
  /\ "memory" \in SinkFaults
  /\ sink' = "gone"
  /\ UNCHANGED <<iterator, seen, handled, released, failedAsserts>>

\* The iterator that is about to be created is asserted to be there.
AssertConfigured ==
  failedAsserts' = IF iterator = "null" THEN failedAsserts \cup {"configured"}
                                        ELSE failedAsserts

\* graph_is_configured(): the iterator on the input port is created.
GraphIsConfigured ==
  /\ sink = "ready"
  /\ AssertConfigured
  /\ sink' = "idle"
  /\ iterator' = "live"
  /\ UNCHANGED <<seen, handled, released>>

GraphIsConfiguredFails ==
  /\ sink = "ready"
  /\ "configure" \in SinkFaults
  /\ AssertConfigured
  /\ sink' = "failed"
  /\ UNCHANGED <<iterator, seen, handled, released>>

\* The messages of upstream come in the order of their clock snapshots.
InTimeOrder(s) ==
  \A i, j \in 1..Len(s) :
    i < j /\ s[i].event /\ s[j].event => s[i].ts <= s[j].ts

\* consume(): upstream has an array of messages for the sink.  (AGAIN changes
\* nothing.)
ConsumeArray(msgs) ==
  /\ sink = "idle"
  /\ Len(msgs) \in 1..MaxArray
  /\ Len(seen) + Len(msgs) <= MaxSeen
  /\ InTimeOrder(seen \o msgs)
  /\ sink' = "handling"
  /\ seen' = seen \o msgs
  /\ released' = released \o [i \in 1..Len(msgs) |-> 0]
  /\ UNCHANGED <<iterator, handled, failedAsserts>>

\* Upstream has ended: the iterator is released.
ConsumeEnd ==
  /\ sink = "idle"
  /\ sink' = "ended"
  /\ iterator' = "null"
  /\ UNCHANGED <<seen, handled, released, failedAsserts>>

ConsumeError ==
  /\ sink = "idle"
  /\ "upstream" \in SinkFaults
  /\ sink' = "failed"
  /\ UNCHANGED <<iterator, seen, handled, released, failedAsserts>>

\* The message handle_message() is called with.
Current == seen[handled + 1]

\* Mutant of Handled: the loop steps over every second message.
HandledTwo ==
  /\ sink = "handling"
  /\ handled' = handled + 2
  /\ released' = [released EXCEPT ![handled + 1] = @ + 1]
  /\ sink' = IF handled + 2 >= Len(seen) THEN "idle" ELSE "handling"
  /\ UNCHANGED <<iterator, seen, failedAsserts>>

\* handle_message() succeeds: the message is released and the loop goes on.
Handled ==
  /\ sink = "handling"
  /\ handled' = handled + 1
  /\ released' = [released EXCEPT ![handled + 1] = @ + 1]
  /\ sink' = IF handled + 1 = Len(seen) THEN "idle" ELSE "handling"
  /\ UNCHANGED <<iterator, seen, failedAsserts>>

\* The messages from the n-th on are released.
ReleasedFrom(n) ==
  [i \in 1..Len(released) |-> IF i >= n THEN released[i] + 1 ELSE released[i]]

\* Mutant of HandleFails: the message that failed is taken for released.
HandleFailsHolding ==
  /\ sink = "handling"
  /\ handled' = handled + 1
  /\ released' = ReleasedFrom(handled + 2)
  /\ sink' = "failed"
  /\ UNCHANGED <<iterator, seen, failedAsserts>>

\* handle_message() fails: its message and all after it are released.
HandleFails ==
  /\ sink = "handling"
  /\ handled' = handled + 1
  /\ released' = ReleasedFrom(handled + 1)
  /\ sink' = "failed"
  /\ UNCHANGED <<iterator, seen, failedAsserts>>

\* finalize(), whatever became of the graph.
Finalize ==
  /\ sink \in {"ready", "idle", "ended", "failed"}
  /\ Destroy(iterator)

(***************************************************************************)
(* Properties.                                                             *)
(***************************************************************************)

\* Outside consume() every message upstream ever handed on has been released
\* exactly once, those a failed handle_message() cut off included; inside it
\* none is released before it was handled (the two loops of consume()).
ReleasedOnce ==
  sink # "crashed" =>
    \A n \in 1..Len(seen) :
      released[n] = IF sink = "handling" /\ n > handled THEN 0 ELSE 1

\* The invariant of the loop, behind the theorems about the sinks.
LoopInv ==
  /\ SinkTypeOK
  /\ sink = "handling" => handled < Len(seen)
  /\ sink \in {"none", "ready", "idle"} => handled = Len(seen)
  /\ ReleasedOnce
=============================================================================
