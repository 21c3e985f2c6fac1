----------------------------- MODULE KafkaTopic -----------------------------
(***************************************************************************)
(* The Kafka topic the source reads and the librdkafka consumer it reads   *)
(* it with.  Both are outside the repository: they are modelled from the   *)
(* calls kafka_msg_iter.c, kafka_metadata.c and kafka_stream_iter.c make   *)
(* (rd_kafka_new, rd_kafka_subscribe, rd_kafka_consumer_poll,              *)
(* rd_kafka_consumer_close) and from the configuration that                *)
(* kafka_component_create() gives the consumer: one consumer group,        *)
(* auto.offset.reset=earliest, automatic offset commits.                   *)
(*                                                                         *)
(* A message is its key, what becomes of its payload when it is a DOF      *)
(* (tsdl) and the number of CTF events in it when it is stream data.       *)
(***************************************************************************)
EXTENDS Naturals, Sequences

CONSTANTS Messages,   \* the messages a producer may append to the topic
          MaxLog      \* bound: the number of messages ever produced

VARIABLES log,        \* the partition: an immutable sequence of messages
          pos,        \* how many of them the open consumer has returned
          committed,  \* the group's committed position (0: none)
          consumer    \* the librdkafka consumer: "none" or "open"

topicVars == <<log, pos, committed, consumer>>

Keys == {"dof", "ddtrace", "other"}
Outcomes == {"good", "incomplete", "rejected", "malformed", "none"}

Dof(outcome) == [key |-> "dof", tsdl |-> outcome, events |-> 0]
Data(n) == [key |-> "ddtrace", tsdl |-> "none", events |-> n]
Other == [key |-> "other", tsdl |-> "none", events |-> 0]

Message == [key : Keys, tsdl : Outcomes, events : Nat]

IsGoodDof(m) == m.key = "dof" /\ m.tsdl = "good"
IsData(m) == m.key = "ddtrace"

ASSUME TopicAssumption ==
  /\ Messages \subseteq Message
  /\ \A m \in Messages : IsData(m) => m.events > 0
  /\ MaxLog \in Nat

TopicTypeOK ==
  /\ log \in Seq(Messages)
  /\ Len(log) <= MaxLog
  /\ pos \in 0..Len(log)
  /\ committed \in 0..Len(log)
  /\ consumer \in {"none", "open"}

TopicInit ==
  /\ log = <<>>
  /\ pos = 0
  /\ committed = 0
  /\ consumer = "none"

\* A producer appends a message.
Produce ==
  /\ Len(log) < MaxLog
  /\ \E m \in Messages : log' = Append(log, m)
  /\ UNCHANGED <<pos, committed, consumer>>

\* The consumer's background thread commits the position of the group.
AutoCommit ==
  /\ consumer = "open"
  /\ committed # pos
  /\ committed' = pos
  /\ UNCHANGED <<log, pos, consumer>>

\* A subscribed consumer starts at the committed position; a group without
\* one starts at the beginning, unless the user's rdkafka_conf overrides
\* auto.offset.reset.
Subscribe ==
  /\ consumer' = "open"
  /\ \/ pos' = committed
     \/ committed = 0 /\ pos' = Len(log)
  /\ UNCHANGED <<log, committed>>

\* rd_kafka_consumer_poll() returns the next message.
Receive(m) ==
  /\ consumer = "open"
  /\ pos < Len(log)
  /\ m = log[pos + 1]
  /\ pos' = pos + 1
  /\ UNCHANGED <<log, committed, consumer>>

\* rd_kafka_consumer_close() commits the position when it can.
CloseConsumer ==
  /\ consumer' = "none"
  /\ pos' = 0
  /\ committed' \in {committed, pos}
  /\ UNCHANGED log

\* The process dies: what was committed is all the group remembers.
LoseConsumer ==
  /\ consumer' = "none"
  /\ pos' = 0
  /\ UNCHANGED <<log, committed>>
=============================================================================
