--------------------------- MODULE MCKafkaSource ----------------------------
(* KafkaSource for TLC: the messages of the small topics it is checked on. *)
EXTENDS KafkaSource

\* A DOF of each kind, stream data of one and of several events, another key.
MixedMessages == {Dof("good"), Dof("incomplete"), Dof("malformed"), Data(1), Data(2), Other}

\* Enough for the life of the iterator: one DOF and stream data.
PlainMessages == {Dof("good"), Data(2)}

SteadyMessages == {Dof("good"), Data(1), Data(2), Other}
=============================================================================
