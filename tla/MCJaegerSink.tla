---------------------------- MODULE MCJaegerSink ----------------------------
(* JaegerSink for TLC: the probes of a small trace. *)
EXTENDS JaegerSink

Entry(t) == Event(<<"syscall", "freebsd", "read", "entry">>, t)
Return(t) == Event(<<"syscall", "freebsd", "read", "return">>, t)

ProbeTrace == {Entry(0), Entry(1), Return(1), Return(2), Event(<<"BEGIN">>, 1), StreamMessage}
=============================================================================
