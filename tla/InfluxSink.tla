----------------------------- MODULE InfluxSink -----------------------------
(***************************************************************************)
(* The sink component influxdb (influx.cxx) with its client (InfluxDB.cxx):*)
(* each event of the trace becomes a point, made unique by a tag when its  *)
(* timestamp is that of the event before it; the client gathers batches of *)
(* points and posts them to InfluxDB.                                      *)
(*                                                                         *)
(* A point is what identifies it in the database: its measurement, its     *)
(* timestamp and its tag uniq, 0 when it has none.  A point of the same    *)
(* identity takes the place of one that is stored already.  The database   *)
(* and the transport (HTTP) are external; lines are stored in the order in *)
(* which they are posted.                                                  *)
(***************************************************************************)
EXTENDS SinkConsume

CONSTANT Batch   \* the parameter batch as the client sees it (0: unbuffered)

ASSUME BatchAssumption == Batch \in Nat

VARIABLES
  tsVal,    \* influxdb_component.ts_val
  uniqCnt,  \* influxdb_component.uniq_cnt
  mBuffer,  \* InfluxDB::mBuffer
  points,   \* history: the points made of the events
  stored    \* history: the points InfluxDB accepted, in their order

clientVars == <<mBuffer, stored>>
influxVars == <<tsVal, uniqCnt, clientVars, points>>
vars == <<sinkVars, influxVars>>

Point == [name : Names, ts : Nat, uniq : Nat]

TypeOK ==
  /\ SinkTypeOK
  /\ tsVal \in Nat
  /\ uniqCnt \in Nat \ {0}
  /\ mBuffer \in Seq(Point)
  /\ points \in Seq(Point)
  /\ stored \in Seq(Point)

Init ==
  /\ SinkInit
  /\ tsVal = 0
  /\ uniqCnt = 1
  /\ mBuffer = <<>>
  /\ points = <<>>
  /\ stored = <<>>

\* What a field of memory that malloc() returned may hold.
Uninitialised == {"null", "junk"}

\* influxdb_init(): the data is never cleared, so that moving the client into
\* place destroys what its field happened to hold.
InfluxInit ==
  /\ \E iter, client \in Uninitialised :
       IF client = "null"
       THEN InitSucceeds(iter)
       ELSE /\ sink = "none"
            /\ sink' = "crashed"
            /\ UNCHANGED <<iterator, seen, handled, released, failedAsserts>>
  /\ UNCHANGED influxVars

\* The port, the parameters or the client's URI are refused.
InfluxInitFails ==
  /\ "init" \in SinkFaults
  /\ \E iter \in Uninitialised : InitFails(iter)
  /\ UNCHANGED influxVars

Consume ==
  /\ \E n \in 1..MaxArray : \E msgs \in [1..n -> TraceMessages] : ConsumeArray(msgs)
  /\ UNCHANGED influxVars

\* A message that is not an event leaves nothing behind.
HandleOther ==
  /\ sink = "handling"
  /\ ~Current.event
  /\ Handled
  /\ UNCHANGED influxVars

InEvent == sink = "handling" /\ Current.event

\* The point of the event: the tag is added when the timestamp is the last one.
NewPoint == [name |-> Current.name, ts |-> Current.ts,
             uniq |-> IF Current.ts = tsVal THEN uniqCnt ELSE 0]

\* Mutant of Tag: the count starts over with every tag.
TagOnce ==
  /\ points' = Append(points, NewPoint)
  /\ tsVal' = Current.ts
  /\ uniqCnt' = 1

\* The timestamp is remembered, and how many points had it.
Tag ==
  /\ points' = Append(points, NewPoint)
  /\ tsVal' = Current.ts
  /\ uniqCnt' = IF Current.ts = tsVal THEN uniqCnt + 1 ELSE 1

\* Mutant of Buffer: a complete batch waits for one more point.
BufferOneMore ==
  /\ InEvent
  /\ Len(mBuffer) + 1 <= Batch
  /\ Tag
  /\ mBuffer' = Append(mBuffer, NewPoint)
  /\ Handled
  /\ UNCHANGED stored

\* InfluxDB::write() buffers the point: the batch is not complete.
Buffer ==
  /\ InEvent
  /\ Len(mBuffer) + 1 < Batch
  /\ Tag
  /\ mBuffer' = Append(mBuffer, NewPoint)
  /\ Handled
  /\ UNCHANGED stored

\* What write() transmits when it does: the batch, or the one point when
\* writes are not buffered (and mBuffer stays empty).
Outgoing == Append(mBuffer, NewPoint)

Transmitting == InEvent /\ Len(mBuffer) + 1 >= Batch

\* flushBuffer() clears the buffer and posts what it held.
Transmit ==
  /\ Transmitting
  /\ Tag
  /\ stored' = stored \o Outgoing
  /\ mBuffer' = <<>>
  /\ Handled

\* Mutant of TransmitFails: the loop of consume() goes on.
TransmitFailsGoingOn ==
  /\ Transmitting
  /\ "transport" \in SinkFaults
  /\ Tag
  /\ stored' \in {stored, stored \o Outgoing}
  /\ mBuffer' = <<>>
  /\ Handled

\* The post fails with an exception, after the buffer was cleared, and the
\* database may have stored the lines all the same: consume() returns ERROR.
TransmitFails ==
  /\ Transmitting
  /\ "transport" \in SinkFaults
  /\ Tag
  /\ stored' \in {stored, stored \o Outgoing}
  /\ mBuffer' = <<>>
  /\ HandleFails

\* influxdb_finalize() frees the data: ~InfluxDB(), which would flush the
\* buffer, is not called.
InfluxFinalize ==
  /\ Finalize
  /\ mBuffer' = <<>>
  /\ UNCHANGED <<tsVal, uniqCnt, stored, points>>

LoopStep ==
  /\ CreateFails \/ GraphIsConfigured \/ GraphIsConfiguredFails \/ ConsumeEnd
       \/ ConsumeError
  /\ UNCHANGED influxVars

Next ==
  \/ InfluxInit \/ InfluxInitFails \/ LoopStep
  \/ Consume \/ HandleOther \/ Buffer \/ Transmit \/ TransmitFails
  \/ InfluxFinalize

Spec == Init /\ [][Next]_vars

(***************************************************************************)
(* Properties.                                                             *)
(***************************************************************************)

\* No two points have the same identity in the database, so that none takes
\* the place of another, however timestamps repeat and arrays are cut
\* (handle_message, ts_val and uniq_cnt).
NoneOverwritten ==
  \A i, j \in 1..Len(points) : i # j => points[i] # points[j]

Alive == sink \in {"none", "ready", "idle", "handling", "ended"}

\* Until a transmission fails or the sink is finalized, every point is either
\* stored or in the buffer: none is lost, repeated or reordered between
\* batches (InfluxDB::write, flushBuffer).
StoredOrBuffered == Alive => points = stored \o mBuffer

\* What the database holds is always the first points made, without a gap,
\* also after a transmission failed (handle_message, consume).
StoredIsPrefix ==
  /\ Len(stored) <= Len(points)
  /\ \A k \in 1..Len(stored) : stored[k] = points[k]

\* The points one post holds.
BatchSize == IF Batch = 0 THEN 1 ELSE Batch

\* At most one batch of points is ever lost, whatever fails and however the
\* sink ends (InfluxDB::write, destroy_influxdb_data).
LossIsBounded == Len(points) <= Len(stored) + BatchSize

\* ts_val is the timestamp of the last event handled.
LastTimestamp ==
  /\ InTimeOrder(seen)
  /\ tsVal = 0 \/ \E i \in 1..handled : seen[i].event /\ seen[i].ts = tsVal

\* uniq_cnt is above every tag given at the last timestamp.
TagsBelow ==
  \A i \in 1..Len(points) :
    /\ points[i].ts <= tsVal
    /\ points[i].ts = tsVal => points[i].uniq < uniqCnt

BufferNotFull == Len(mBuffer) < BatchSize

\* The inductive invariant behind the theorems of SinkProofs.
IInv ==
  /\ TypeOK
  /\ LoopInv
  /\ LastTimestamp
  /\ TagsBelow
  /\ NoneOverwritten
  /\ BufferNotFull
  /\ StoredOrBuffered
  /\ StoredIsPrefix
  /\ LossIsBounded

\* InfluxDB.h:32: the client's buffer is flushed when the sink is destroyed.
FlushedAtEnd == sink = "gone" => Len(stored) = Len(points)
=============================================================================
