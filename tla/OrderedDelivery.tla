-------------------------- MODULE OrderedDelivery ---------------------------
(***************************************************************************)
(* What the source promises downstream.  Once a DOF of the topic has       *)
(* described the trace, the messages handed to the graph are the stream    *)
(* beginning and then the events of the stream data that follows that DOF  *)
(* in the topic: each of them once, in topic order, none left out.         *)
(***************************************************************************)
EXTENDS DeliveryOrder

CONSTANTS Messages, MaxLog, Capacity

VARIABLES log,    \* the topic
          base,   \* position of the DOF that describes the trace (0: none)
          out     \* the messages handed downstream

vars == <<log, base, out>>

\* What is due once the DOF at position from describes the trace: a stream
\* beginning before the first data message, and the events.
Due(from) ==
  LET data == DataOffsets(log, from, Len(log))
      first == {o \in data : \A p \in data : o <= p}
  IN  Events(log, from, Len(log)) \cup {[off |-> o, idx |-> 0] : o \in first}

\* s is the first items that are due, in order.
IsDuePrefix(s) ==
  /\ Ordered(s)
  /\ Items(s) \subseteq Due(base)
  /\ \A e \in Items(s), d \in Due(base) : Before(d, e) => d \in Items(s)

Init == log = <<>> /\ base = 0 /\ out = <<>>

Produce ==
  /\ Len(log) < MaxLog
  /\ \E m \in Messages : log' = Append(log, m)
  /\ UNCHANGED <<base, out>>

Configure ==
  /\ base = 0
  /\ base' \in {b \in 1..Len(log) : log[b].key = "dof" /\ log[b].tsdl = "good"}
  /\ UNCHANGED <<log, out>>

Deliver ==
  /\ base # 0
  /\ Len(out') \in (Len(out) + 1)..(Len(out) + Capacity)
  /\ SubSeq(out', 1, Len(out)) = out
  /\ IsDuePrefix(out')
  /\ UNCHANGED <<log, base>>

\* The iterator ends, or the program does: a new one starts over.
Restart == base' = 0 /\ out' = <<>> /\ UNCHANGED log

Next == Produce \/ Configure \/ Deliver \/ Restart

Spec == Init /\ [][Next]_vars
=============================================================================
