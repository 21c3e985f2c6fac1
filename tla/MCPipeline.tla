----------------------------- MODULE MCPipeline -----------------------------
(* Pipeline for TLC: the messages of small topics. *)
EXTENDS Pipeline

SomeMessages ==
  {[key |-> "dof", tsdl |-> "good", events |-> 0],
   [key |-> "dof", tsdl |-> "rejected", events |-> 0],
   [key |-> "ddtrace", tsdl |-> "none", events |-> 1],
   [key |-> "ddtrace", tsdl |-> "none", events |-> 3]}

GoodMessages == {m \in SomeMessages : m.tsdl # "rejected"}
=============================================================================
