---------------------------- MODULE MCInfluxSink ----------------------------
(* InfluxSink for TLC: the messages of small traces. *)
EXTENDS InfluxSink

\* Two probes and three instants, the first of them the value ts_val starts with.
SmallTrace == {Event(<<"a">>, 0), Event(<<"a">>, 1), Event(<<"a">>, 2), Event(<<"b">>, 1), StreamMessage}
=============================================================================
