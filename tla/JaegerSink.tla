----------------------------- MODULE JaegerSink -----------------------------
(***************************************************************************)
(* The sink component jaegertracing (jaegertracing.cxx).  The event of a   *)
(* probe named provider:module:function:entry is meant to start a span of  *)
(* the function and that of provider:module:function:return to finish it.  *)
(* The tracer that reports the spans is external.                          *)
(***************************************************************************)
EXTENDS SinkConsume

VARIABLES
  spans,    \* jaeger_component.spans: a span for a function
  finished  \* history: the spans that were finished

jaegerVars == <<spans, finished>>
vars == <<sinkVars, jaegerVars>>

\* A span: its function, and the message that started it.
Span == [func : Names, from : Nat]

TypeOK ==
  /\ SinkTypeOK
  /\ spans \subseteq Span
  /\ finished \subseteq Span

Init ==
  /\ SinkInit
  /\ spans = {}
  /\ finished = {}

\* jaeger_init() succeeds.
JaegerInit ==
  /\ InitSucceeds("null")
  /\ UNCHANGED jaegerVars

\* Mutant of JaegerInitFails: the data is not cleared when it is made.
JaegerInitFailsUncleared ==
  /\ \E iter \in {"null", "junk"} : InitFails(iter)
  /\ UNCHANGED jaegerVars

\* It may fail without a cause: the status of apply_params() is not assigned
\* when the parameters are valid.
JaegerInitFails ==
  /\ InitFails("null")
  /\ UNCHANGED jaegerVars

Consume ==
  /\ \E n \in 1..MaxArray : \E msgs \in [1..n -> TraceMessages] : ConsumeArray(msgs)
  /\ UNCHANGED jaegerVars

HandleOther ==
  /\ sink = "handling"
  /\ ~Current.event
  /\ Handled
  /\ UNCHANGED jaegerVars

\* An event class whose name has no colon: substr() throws, and nothing between
\* here and the graph catches it.
HandleNoColon ==
  /\ sink = "handling"
  /\ Current.event
  /\ Len(Current.name) < 2
  /\ sink' = "crashed"
  /\ UNCHANGED <<iterator, seen, handled, released, failedAsserts, jaegerVars>>

\* The name is cut at its last colon, which stays with the second part.
LastWord == ":" \o Current.name[Len(Current.name)]
ProvModFunc == SubSeq(Current.name, 1, Len(Current.name) - 1)

OpenSpans == {s \in spans : s.func = ProvModFunc}

\* The event of a probe starts a span, which takes the place of one of the same
\* function (and so finishes it), or finishes the one it finds.
HandleEvent ==
  /\ sink = "handling"
  /\ Current.event
  /\ Len(Current.name) >= 2
  /\ spans' = IF LastWord = "entry"
              THEN (spans \ OpenSpans) \cup {[func |-> ProvModFunc, from |-> handled + 1]}
              ELSE spans
  /\ finished' = IF LastWord \in {"entry", "return"} THEN finished \cup OpenSpans
                                                      ELSE finished
  /\ Handled

\* jaeger_finalize() frees what was made with new: no open span is finished.
JaegerFinalize ==
  /\ Finalize
  /\ spans' = {}
  /\ UNCHANGED finished

LoopStep ==
  /\ CreateFails \/ GraphIsConfigured \/ GraphIsConfiguredFails \/ ConsumeEnd
       \/ ConsumeError
  /\ UNCHANGED jaegerVars

Next ==
  \/ JaegerInit \/ JaegerInitFails \/ LoopStep
  \/ Consume \/ HandleOther \/ HandleNoColon \/ HandleEvent
  \/ JaegerFinalize

Spec == Init /\ [][Next]_vars

(***************************************************************************)
(* Properties.                                                             *)
(***************************************************************************)

\* The process dies in one place only: in handle_message() of an event whose name
\* has no colon.  What came before that event had been handled and released
\* once, nothing from it on is ever released, and no sink that was initialised,
\* configured or finalized before that takes the graph down with it
\* (jaegertracing.cxx:405, jaeger_consume, destroy_jaeger_data).
EndsAtNameless ==
  /\ \A n \in 1..handled : seen[n].event => Len(seen[n].name) >= 2
  /\ sink = "crashed" =>
       /\ handled < Len(seen)
       /\ Current.event
       /\ Len(Current.name) < 2
       /\ \A n \in 1..Len(seen) : released[n] = IF n <= handled THEN 1 ELSE 0

IsEntry(m) == m.event /\ Len(m.name) >= 2 /\ m.name[Len(m.name)] = "entry"

\* jaegertracing.cxx:440: the event of an entry probe starts a span.
EntriesStart ==
  sink \in {"idle", "handling"} =>
    \A n \in 1..handled :
      IsEntry(seen[n]) => \E s \in spans \cup finished : s.from = n
=============================================================================
