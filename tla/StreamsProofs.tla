--------------------------- MODULE StreamsProofs ----------------------------
(***************************************************************************)
(* Theorems about streams, their events and their packets: for any number  *)
(* of streams and events, any types of the fields, every layout, both      *)
(* builds, and every set of calls of the serializer that fail.             *)
(***************************************************************************)
EXTENDS Streams, TLAPS, FiniteSetTheorems, SequenceTheorems, WellFoundedInduction

(***************************************************************************)
(* Sequences of sequences.                                                 *)
(***************************************************************************)

\* A set that has 0 and the successors of its members has every number.
LEMMA HasEveryNumber ==
  ASSUME NEW S, 0 \in S, \A k \in Nat : k \in S => k + 1 \in S
  PROVE  Nat \subseteq S
<1> DEFINE R == {p \in Nat \X Nat : p[1] < p[2]}
<1>1. IsWellFoundedOn(R, Nat)
  BY NatLessThanWellFounded DEF OpToRel
<1>2. SUFFICES ASSUME Nat \ S # {} PROVE FALSE
  OBVIOUS
<1>3. PICK k \in Nat \ S : \A j \in Nat \ S : <<j, k>> \notin R
  <2> HIDE DEF R
  <2> QED
    BY <1>1, <1>2, WFMin, Nat \ S \subseteq Nat
<1>4. k - 1 \in Nat /\ <<k - 1, k>> \in R
  BY <1>3
<1>5. k - 1 \in S
  BY <1>3, <1>4
<1>6. QED
  BY <1>3, <1>4, <1>5

\* What the first of the sequences in q make, one after the other.
Joined(q, g, n) ==
  g = [i \in 1..n |-> IF i = 1 THEN q[i] ELSE g[i - 1] \o q[i]]

\* The definition of FlattenSeq has a meaning.
LEMMA JoinedExists ==
  ASSUME NEW q, NEW n \in Nat
  PROVE  \E g : Joined(q, g, n)
<1> DEFINE T == {j \in Nat : \E g : Joined(q, g, j)}
<1>1. 0 \in T
  <2> DEFINE g == [i \in 1..0 |-> q[i]]
  <2>1. 1..0 = {}
    OBVIOUS
  <2>2. g = [i \in 1..0 |-> IF i = 1 THEN q[i] ELSE g[i - 1] \o q[i]]
    BY <2>1
  <2>3. QED
    BY <2>2 DEF Joined
<1>2. ASSUME NEW j \in Nat, j \in T PROVE j + 1 \in T
  <2>1. PICK g : Joined(q, g, j)
    BY <1>2
  <2> DEFINE More(h, i) == IF i = 1 THEN q[i] ELSE h[i - 1] \o q[i]
             r == [i \in 1..(j + 1) |-> IF i = j + 1 THEN More(g, i) ELSE g[i]]
  <2>2. ASSUME NEW i \in 1..(j + 1) PROVE r[i] = More(r, i)
    <3>1. CASE i = j + 1
      <4>1. i # 1 => j \in 1..(j + 1) /\ j # j + 1 /\ i - 1 = j
        BY <3>1
      <4>2. i # 1 => r[i - 1] = g[i - 1]
        BY <4>1
      <4>3. QED
        BY <3>1, <4>2
    <3>2. CASE i # j + 1
      <4>1. i \in 1..j
        BY <3>2
      <4>2. r[i] = g[i] /\ g[i] = More(g, i)
        BY <2>1, <3>2, <4>1 DEF Joined
      <4>3. i # 1 => i - 1 \in 1..(j + 1) /\ i - 1 # j + 1
        BY <4>1
      <4>4. i # 1 => r[i - 1] = g[i - 1]
        BY <4>3
      <4>5. QED
        BY <4>2, <4>4
    <3>3. QED
      BY <3>1, <3>2
  <2>3. r = [i \in 1..(j + 1) |-> More(r, i)]
    BY <2>2
  <2> HIDE DEF r
  <2>4. Joined(q, r, j + 1)
    BY <2>3 DEF Joined
  <2>5. QED
    BY <2>4
<1>3. Nat \subseteq T
  <2> HIDE DEF T
  <2> QED
    BY <1>1, <1>2, HasEveryNumber
<1>4. QED
  BY <1>3

LEMMA FlattenIsJoined ==
  ASSUME NEW q, Len(q) \in Nat, Len(q) # 0
  PROVE  \E g : Joined(q, g, Len(q)) /\ FlattenSeq(q) = g[Len(q)]
<1> DEFINE Is(g) == g = [i \in 1..Len(q) |-> IF i = 1 THEN q[i] ELSE g[i - 1] \o q[i]]
<1>1. \E g : Is(g)
  BY JoinedExists DEF Joined
<1>2. FlattenSeq(q) = (CHOOSE g : Is(g))[Len(q)]
  BY DEF FlattenSeq
<1>3. Is(CHOOSE g : Is(g))
  <2> HIDE DEF Is
  <2> QED
    BY <1>1
<1>4. QED
  BY <1>2, <1>3 DEF Joined

\* To join one more sequence is to put it behind the others.
LEMMA FlattenMore ==
  ASSUME NEW S, NEW q, NEW r, NEW n \in Nat, Len(q) = n, Len(r) = n + 1,
         \A i \in 1..n : r[i] = q[i],
         FlattenSeq(q) \in Seq(S), r[n + 1] \in Seq(S), n = 0 => q = <<>>
  PROVE  FlattenSeq(r) = FlattenSeq(q) \o r[n + 1]
<1>1. PICK h : Joined(r, h, n + 1) /\ FlattenSeq(r) = h[n + 1]
  BY FlattenIsJoined
<1>2. CASE n = 0
  <2>1. FlattenSeq(q) = <<>>
    BY <1>2 DEF FlattenSeq
  <2>2. h[n + 1] = r[n + 1]
    BY <1>1, <1>2 DEF Joined
  <2>3. QED
    BY <1>1, <2>1, <2>2, ConcatEmptySeq
<1>3. CASE n # 0
  <2>1. PICK g : Joined(q, g, n) /\ FlattenSeq(q) = g[n]
    BY <1>3, FlattenIsJoined
  <2> DEFINE T == {j \in Nat : j \in 1..n => h[j] = g[j]}
  <2>2. 0 \in T
    OBVIOUS
  <2>3. ASSUME NEW j \in Nat, j \in T PROVE j + 1 \in T
    <3> SUFFICES ASSUME j + 1 \in 1..n PROVE h[j + 1] = g[j + 1]
      OBVIOUS
    <3>1. r[j + 1] = q[j + 1] /\ j + 1 \in 1..(n + 1)
      OBVIOUS
    <3>2. h[j + 1] = IF j + 1 = 1 THEN r[j + 1] ELSE h[(j + 1) - 1] \o r[j + 1]
      BY <1>1, <3>1 DEF Joined
    <3>3. g[j + 1] = IF j + 1 = 1 THEN q[j + 1] ELSE g[(j + 1) - 1] \o q[j + 1]
      BY <2>1 DEF Joined
    <3>4. j + 1 # 1 => (j + 1) - 1 = j /\ j \in 1..n
      OBVIOUS
    <3>5. j + 1 # 1 => h[j] = g[j]
      BY <2>3, <3>4
    <3>6. QED
      BY <3>1, <3>2, <3>3, <3>4, <3>5
  <2>4. Nat \subseteq T
    <3> HIDE DEF T
    <3> QED
      BY <2>2, <2>3, HasEveryNumber
  <2>5. h[n] = g[n]
    BY <1>3, <2>4
  <2>6. n + 1 \in 1..(n + 1) /\ n + 1 # 1 /\ (n + 1) - 1 = n
    BY <1>3
  <2>7. h[n + 1] = h[n] \o r[n + 1]
    BY <1>1, <2>6 DEF Joined
  <2>8. QED
    BY <1>1, <2>1, <2>5, <2>7
<1>4. QED
  BY <1>2, <1>3

\* A function on the first numbers is a sequence of its values.
LEMMA SequenceOf ==
  ASSUME NEW f, NEW n \in Nat, f = [i \in 1..n |-> f[i]]
  PROVE  f \in Seq({f[i] : i \in DOMAIN f}) /\ Len(f) = n
<1> DEFINE S == {f[i] : i \in DOMAIN f}
<1>1. f \in [1..n -> S]
  OBVIOUS
<1> HIDE DEF S
<1>2. f \in Seq(S)
  BY <1>1, SeqDef
<1>3. Len(f) = n
  BY <1>1, <1>2
<1>4. QED
  BY <1>2, <1>3 DEF S

\* A packet that is written brings its events to the end of the file.
LEMMA EventsOfMore ==
  ASSUME NEW file, file \in Seq({file[k] : k \in DOMAIN file}), EventsOf(file) \in Seq(EventNames),
         NEW p, p.events \in Seq(EventNames)
  PROVE  /\ EventsOf(Append(file, p)) = EventsOf(file) \o p.events
         /\ Append(file, p) \in Seq({Append(file, p)[k] : k \in DOMAIN Append(file, p)})
<1> DEFINE R == {file[k] : k \in DOMAIN file}
           n == Len(file)
           m == Append(file, p)
           q == [k \in DOMAIN file |-> file[k].events]
           r == [k \in DOMAIN m |-> m[k].events]
<1>1. n \in Nat /\ DOMAIN file = 1..n
  BY LenProperties
<1>2. /\ Len(m) = n + 1 /\ DOMAIN m = 1..(n + 1) /\ m[n + 1] = p
      /\ \A i \in 1..n : m[i] = file[i]
      /\ m = [i \in 1..(n + 1) |-> m[i]]
  <2>1. file \in Seq(R \cup {p})
    <3>1. file \in Seq(R) /\ R \subseteq R \cup {p}
      OBVIOUS
    <3> HIDE DEF R
    <3>2. file \in [1..n -> R \cup {p}]
      BY <1>1, <3>1
    <3>3. QED
      BY <1>1, <3>2, SeqDef
  <2>2. m \in Seq(R \cup {p}) /\ Len(m) = n + 1 /\ m[n + 1] = p
        /\ \A i \in 1..n : m[i] = file[i]
    <3> HIDE DEF R
    <3> QED
      BY <2>1, AppendProperties
  <2>3. DOMAIN m = 1..Len(m)
    BY <2>2, LenProperties
  <2> HIDE DEF m
  <2>4. QED
    BY <2>2, <2>3
<1> HIDE DEF m, n, R
<1>3. q = [k \in 1..n |-> q[k]] /\ r = [k \in 1..(n + 1) |-> r[k]] /\ n + 1 \in 1..(n + 1)
  BY <1>1, <1>2
<1>4. Len(q) = n /\ Len(r) = n + 1
  <2> HIDE DEF q, r
  <2>1. n + 1 \in Nat
    BY <1>1
  <2>2. Len(q) = n
    BY <1>1, <1>3, SequenceOf
  <2>3. Len(r) = n + 1
    BY <1>3, <2>1, SequenceOf
  <2>4. QED
    BY <2>2, <2>3
<1>5. r[n + 1] = p.events /\ \A i \in 1..n : r[i] = q[i]
  <2>1. r[n + 1] = m[n + 1].events
    BY <1>2, <1>3
  <2>2. ASSUME NEW i \in 1..n PROVE r[i] = m[i].events /\ q[i] = file[i].events
    BY <1>1, <1>2
  <2>3. QED
    BY <1>2, <2>1, <2>2
<1>6. EventsOf(file) = FlattenSeq(q) /\ EventsOf(m) = FlattenSeq(r)
  BY DEF EventsOf
<1>7. n = 0 => q = <<>>
  <2> SUFFICES ASSUME n = 0 PROVE q = <<>>
    OBVIOUS
  <2>1. q \in Seq({q[k] : k \in DOMAIN q}) /\ Len(q) = 0
    BY <1>1, <1>3, SequenceOf
  <2> HIDE DEF q
  <2>2. QED
    BY <2>1, EmptySeq
<1> HIDE DEF q, r
<1>8. EventsOf(m) = EventsOf(file) \o p.events
  <2>1. FlattenSeq(q) \in Seq(EventNames) /\ r[n + 1] \in Seq(EventNames)
    BY <1>5, <1>6
  <2>2. FlattenSeq(r) = FlattenSeq(q) \o r[n + 1]
    <3>1. n \in Nat /\ \A i \in 1..n : r[i] = q[i]
      BY <1>1, <1>5
    <3>2. QED
      BY ONLY <1>4, <1>7, <2>1, <3>1, FlattenMore
  <2>3. QED
    BY <1>5, <1>6, <2>2
<1>9. m \in Seq({m[k] : k \in DOMAIN m})
  <2>1. n + 1 \in Nat /\ m = [i \in 1..(n + 1) |-> m[i]]
    BY <1>1, <1>2
  <2>2. QED
    BY ONLY <2>1, SequenceOf
<1>10. QED
  BY <1>8, <1>9 DEF m

(***************************************************************************)
(* The steps.                                                              *)
(***************************************************************************)

\* A stream, or an event, of which nothing changes that matters for the places
\* of the events.
KeepsHome(a, b) ==
  \/ b = a
  \/ /\ IsStream(a)
     /\ DOMAIN b = StreamParts /\ b.made = TRUE
     /\ b.pending = a.pending /\ b.appended = a.appended /\ b.file = a.file

KeepsParent(a, b) ==
  \/ b = a
  \/ /\ IsEvent(a)
     /\ DOMAIN b = EventParts /\ b.made = TRUE
     /\ b.stream = a.stream /\ b.held = a.held

\* What EventsHaveOneHome says of one stream.
Housed(s) ==
  /\ stream[s].appended = EventsOf(stream[s].file) \o stream[s].pending
  /\ IsInjective(stream[s].pending)
  /\ \A e \in EventNames :
       (Live(e) /\ event[e].stream = s)
         <=> (\E i \in DOMAIN stream[s].pending : stream[s].pending[i] = e)

LEMMA HousedStays ==
  ASSUME NEW s, Housed(s), stream'[s].pending = stream[s].pending,
         stream'[s].appended = stream[s].appended, stream'[s].file = stream[s].file,
         \A e \in EventNames : (Live(e) /\ event[e].stream = s)' <=> (Live(e) /\ event[e].stream = s)
  PROVE  Housed(s)'
<1>1. EventsOf(stream'[s].file) = EventsOf(stream[s].file)
  OBVIOUS
<1>2. QED
  BY <1>1 DEF Housed

LEMMA UnmadeIs ==
  /\ Unmade.made = FALSE
  /\ \A st : IsStream(st) => st.made /\ st # Unmade
  /\ \A ev : IsEvent(ev) => ev.made /\ ev # Unmade
BY DEF Unmade, IsStream, IsEvent

LEMMA HomesStay ==
  ASSUME IInv,
         stream' = [s \in StreamNames |-> stream'[s]],
         event' = [e \in EventNames |-> event'[e]],
         \A s \in StreamNames : KeepsHome(stream[s], stream'[s]),
         \A e \in EventNames : KeepsParent(event[e], event'[e]),
         classRefs' = classRefs
  PROVE  IInv'
<1>1. ASSUME NEW s \in StreamNames
      PROVE  /\ stream'[s] = Unmade \/ IsStream(stream'[s])
             /\ Made(s)' = Made(s)
             /\ Made(s) => /\ stream'[s].pending = stream[s].pending
                           /\ stream'[s].appended = stream[s].appended
                           /\ stream'[s].file = stream[s].file
  <2>1. stream[s] = Unmade \/ IsStream(stream[s])
    BY DEF IInv, Shaped
  <2>2. KeepsHome(stream[s], stream'[s])
    OBVIOUS
  <2>3. CASE stream'[s] = stream[s]
    BY <2>1, <2>3 DEF Made
  <2>4. CASE stream'[s] # stream[s]
    <3>1. /\ IsStream(stream[s]) /\ stream[s].made = TRUE
          /\ DOMAIN stream'[s] = StreamParts /\ stream'[s].made = TRUE
          /\ stream'[s].pending = stream[s].pending
          /\ stream'[s].appended = stream[s].appended
          /\ stream'[s].file = stream[s].file
      BY <2>2, <2>4 DEF KeepsHome, IsStream
    <3>2. IsStream(stream'[s])
      BY <3>1 DEF IsStream
    <3>3. QED
      BY <3>1, <3>2 DEF Made
  <2>5. QED
    BY <2>3, <2>4
<1>2. Files' = Files
  BY <1>1 DEF Files
<1>3. ASSUME NEW e \in EventNames
      PROVE  /\ event'[e] = Unmade \/ IsEvent(event[e])' 
             /\ Live(e)' = Live(e)
             /\ Live(e) => event'[e].stream = event[e].stream
  <2>1. event[e] = Unmade \/ IsEvent(event[e])
    BY DEF IInv, Shaped
  <2>2. KeepsParent(event[e], event'[e])
    OBVIOUS
  <2>3. CASE event'[e] = event[e]
    <3>1. IsEvent(event[e]) => IsEvent(event[e])'
      BY <1>2, <2>3 DEF IsEvent
    <3>2. QED
      BY <2>1, <2>3, <3>1 DEF Live
  <2>4. CASE event'[e] # event[e]
    <3>1. /\ IsEvent(event[e]) /\ event[e].made = TRUE
          /\ DOMAIN event'[e] = EventParts /\ event'[e].made = TRUE
          /\ event'[e].stream = event[e].stream /\ event'[e].held = event[e].held
      BY <2>2, <2>4 DEF KeepsParent, IsEvent
    <3>2. IsEvent(event[e])'
      BY <1>2, <3>1 DEF IsEvent
    <3>3. QED
      BY <3>1, <3>2 DEF Live
  <2>5. QED
    BY <2>3, <2>4
<1>4. Shaped'
  BY <1>1, <1>3 DEF Shaped
<1>5. EventsHaveOneHome'
  <2> SUFFICES ASSUME NEW s \in Files' PROVE Housed(s)'
    BY DEF EventsHaveOneHome, Housed
  <2>1. s \in Files /\ s \in StreamNames /\ Made(s)
    BY <1>2 DEF Files
  <2>2. Housed(s)
    BY <2>1 DEF IInv, EventsHaveOneHome, Housed
  <2>3. QED
    BY <1>1, <1>3, <2>1, <2>2, HousedStays
<1>6. OrphansHoldTheirClass'
  <2>1. {e \in EventNames : Live(e)' /\ event'[e].stream = Nobody}
          = {e \in EventNames : Live(e) /\ event[e].stream = Nobody}
    BY <1>3
  <2>2. QED
    BY <2>1 DEF IInv, OrphansHoldTheirClass
<1>7. QED
  BY <1>4, <1>5, <1>6 DEF IInv

LEMMA StreamsBegin == Init => IInv
<1> SUFFICES ASSUME Init PROVE IInv
  OBVIOUS
<1>1. /\ stream = [s \in StreamNames |-> Unmade]
      /\ event = [e \in EventNames |-> Unmade]
      /\ classRefs = 0
  BY DEF Init
<1>2. Files = {} /\ {e \in EventNames : Live(e) /\ event[e].stream = Nobody} = {}
  BY <1>1, UnmadeIs DEF Files, Made, Live
<1>3. Shaped
  BY <1>1 DEF Shaped
<1>4. EventsHaveOneHome
  BY <1>2 DEF EventsHaveOneHome
<1>5. OrphansHoldTheirClass
  BY <1>1, <1>2, FS_EmptySet DEF OrphansHoldTheirClass
<1>6. QED
  BY <1>3, <1>4, <1>5 DEF IInv

\* The parts of a made stream or event can be told apart.
LEMMA PartsAreParts ==
  ASSUME IInv
  PROVE  /\ stream = [s \in StreamNames |-> stream[s]]
         /\ event = [e \in EventNames |-> event[e]]
         /\ \A s \in StreamNames : Made(s) => IsStream(stream[s])
         /\ \A e \in EventNames : Live(e) => IsEvent(event[e])
BY UnmadeIs DEF IInv, Shaped, Made, Live

\* A change of a stream's other parts.
LEMMA StreamChanges ==
  ASSUME IInv, NEW s \in StreamNames, Made(s), NEW b, KeepsHome(stream[s], b),
         stream' = [stream EXCEPT ![s] = b], UNCHANGED <<event, classRefs>>
  PROVE  IInv'
<1>1. /\ stream' = [t \in StreamNames |-> stream'[t]]
      /\ event' = [e \in EventNames |-> event'[e]]
      /\ \A t \in StreamNames : stream'[t] = IF t = s THEN b ELSE stream[t]
  BY PartsAreParts
<1>2. \A t \in StreamNames : KeepsHome(stream[t], stream'[t])
  BY <1>1 DEF KeepsHome
<1>3. \A e \in EventNames : KeepsParent(event[e], event'[e])
  BY DEF KeepsParent
<1>4. QED
  BY <1>1, <1>2, <1>3, HomesStay

\* A change of an event's other parts.
LEMMA EventChanges ==
  ASSUME IInv, NEW e \in EventNames, Live(e), NEW b, KeepsParent(event[e], b),
         event' = [event EXCEPT ![e] = b], UNCHANGED <<stream, classRefs>>
  PROVE  IInv'
<1>1. /\ stream' = [t \in StreamNames |-> stream'[t]]
      /\ event' = [x \in EventNames |-> event'[x]]
      /\ \A x \in EventNames : event'[x] = IF x = e THEN b ELSE event[x]
  BY PartsAreParts
<1>2. \A t \in StreamNames : KeepsHome(stream[t], stream'[t])
  BY DEF KeepsHome
<1>3. \A x \in EventNames : KeepsParent(event[x], event'[x])
  BY <1>1 DEF KeepsParent
<1>4. QED
  BY <1>1, <1>2, <1>3, HomesStay

LEMMA StreamEditsLeaveHomes ==
  ASSUME IInv, NEW s \in StreamNames, AppendDiscarded(s) \/ GiveContextMember(s) \/ SetPacketContext(s)
  PROVE  IInv'
<1>1. Made(s) /\ UNCHANGED <<event, classRefs>>
  BY DEF AppendDiscarded, GiveContextMember, SetPacketContext
<1>2. IsStream(stream[s])
  BY <1>1, PartsAreParts
<1>3. PICK b : stream' = [stream EXCEPT ![s] = b] /\ KeepsHome(stream[s], b)
  <2>1. CASE AppendDiscarded(s)
    <3>1. PICK n, f : stream' = [stream EXCEPT ![s] = [stream[s] EXCEPT !.discarded = n, !.context = f]]
      BY <2>1 DEF AppendDiscarded
    <3>2. KeepsHome(stream[s], [stream[s] EXCEPT !.discarded = n, !.context = f])
      BY <1>2 DEF KeepsHome, IsStream, StreamParts
    <3>3. QED
      BY <3>1, <3>2
  <2>2. CASE GiveContextMember(s) \/ SetPacketContext(s)
    <3>1. PICK f : stream' = [stream EXCEPT ![s] = [stream[s] EXCEPT !.context = f]]
      BY <2>2 DEF GiveContextMember, SetPacketContext
    <3>2. KeepsHome(stream[s], [stream[s] EXCEPT !.context = f])
      BY <1>2 DEF KeepsHome, IsStream, StreamParts
    <3>3. QED
      BY <3>1, <3>2
  <2>3. QED
    BY <2>1, <2>2
<1>4. QED
  BY <1>1, <1>3, StreamChanges

LEMMA EventEditsLeaveHomes ==
  ASSUME IInv, NEW e \in EventNames, SetValue(e) \/ SetLength(e) \/ SelectChoice(e) \/ SetPayload(e)
  PROVE  IInv'
<1>1. Live(e) /\ UNCHANGED <<stream, classRefs>>
  BY DEF SetValue, SetLength, SelectChoice, SetPayload, Edits
<1>2. IsEvent(event[e])
  BY <1>1, PartsAreParts
<1>3. PICK scope, g : Edit(e, scope, g)
  BY DEF SetValue, SetLength, SelectChoice, SetPayload
<1>4. PICK f : event' = [event EXCEPT ![e] = [event[e] EXCEPT !.fields = f]]
  BY <1>3 DEF Edit
<1>5. KeepsParent(event[e], [event[e] EXCEPT !.fields = f])
  BY <1>2 DEF KeepsParent, IsEvent, EventParts
<1>6. QED
  BY <1>1, <1>4, <1>5, EventChanges

\* The events without a stream are finitely many.
LEMMA OrphansAreFinite ==
  /\ IsFiniteSet({e \in EventNames : Live(e) /\ event[e].stream = Nobody})
  /\ IsFiniteSet({e \in EventNames : Live(e)' /\ event'[e].stream = Nobody})
<1>1. IsFiniteSet(EventNames)
  BY StreamsAssumption
<1>2. QED
  BY <1>1, FS_Subset

\* What IInv says of one made stream, and of the events.
LEMMA HomeOf ==
  ASSUME IInv, NEW s \in StreamNames, Made(s)
  PROVE  Housed(s)
BY DEF IInv, EventsHaveOneHome, Housed, Files

LEMMA CreateStreamMakesHome ==
  ASSUME IInv, NEW s \in StreamNames, CreateStream(s)
  PROVE  IInv'
<1>1. ~Made(s)
  <2>1. s # Nobody
    BY StreamsAssumption
  <2>2. s \in {t \in StreamNames : ~Made(t)}
    BY <2>1 DEF CreateStream, Fresh
  <2>3. QED
    BY <2>2
<1>2. PICK b : /\ stream' = [stream EXCEPT ![s] = b]
               /\ DOMAIN b = StreamParts /\ b.made = TRUE
               /\ b.pending = <<>> /\ b.file = <<>> /\ b.appended = <<>>
  <2> DEFINE Begun(id, header, context) ==
               [made |-> TRUE, id |-> id, classId |-> 0, header |-> header, context |-> context,
                lastEnd |-> NoTime, discarded |-> 0, count |-> 0,
                pending |-> <<>>, file |-> <<>>, appended |-> <<>>,
                ok |-> TRUE, begin |-> 0]
  <2>1. \E id, header, context : stream' = [stream EXCEPT ![s] = Begun(id, header, context)]
    <3>1. PICK asked \in Ids \cup {AutoId} :
             stream' = [stream EXCEPT ![s] =
                 Begun(IF asked = AutoId THEN nextId ELSE asked,
                     PopulateHeader(Create(layout.packetHeader), 0),
                     GiveMember(dev, Create(layout.packetContext), "events_discarded", 0))]
      BY DEF CreateStream
    <3> HIDE DEF Begun
    <3>2. QED
      BY <3>1
  <2>2. PICK id, header, context : stream' = [stream EXCEPT ![s] = Begun(id, header, context)]
    BY <2>1
  <2> DEFINE b == Begun(id, header, context)
  <2>3. /\ DOMAIN b = StreamParts /\ b.made = TRUE
        /\ b.pending = <<>> /\ b.file = <<>> /\ b.appended = <<>>
    BY DEF StreamParts
  <2> HIDE DEF b
  <2>4. stream' = [stream EXCEPT ![s] = b]
    BY <2>2 DEF b
  <2>5. QED
    BY <2>3, <2>4
<1>3. event' = event /\ classRefs' = classRefs
  BY DEF CreateStream
<1>4. /\ stream' = [t \in StreamNames |-> stream'[t]]
      /\ \A t \in StreamNames : stream'[t] = IF t = s THEN b ELSE stream[t]
  BY <1>2, PartsAreParts
<1>5. Files' = Files \cup {s}
  BY <1>2, <1>4 DEF Files, Made
<1>6. EventsOf(<<>>) = <<>> /\ <<>> \in Seq(EventNames)
      /\ <<>> \in Seq({<<>>[k] : k \in DOMAIN <<>>}) /\ DOMAIN <<>> = {}
  <2>1. DOMAIN <<>> = {}
    OBVIOUS
  <2>2. [k \in DOMAIN <<>> |-> <<>>[k].events] = <<>>
    BY <2>1
  <2>3. EventsOf(<<>>) = <<>>
    BY <2>2 DEF EventsOf, FlattenSeq
  <2>4. QED
    BY <2>1, <2>3
<1>7. IsStream(b)
  BY <1>2, <1>6 DEF IsStream
<1>8. Shaped'
  <2>1. \A t \in StreamNames : stream'[t] = Unmade \/ IsStream(stream'[t])
    BY <1>4, <1>7 DEF IInv, Shaped
  <2>2. \A e \in EventNames : event[e] = Unmade \/ (IsEvent(event[e]) /\ IsEvent(event[e])')
    BY <1>3, <1>5 DEF IInv, Shaped, IsEvent
  <2>3. QED
    BY <1>3, <1>4, <2>1, <2>2 DEF IInv, Shaped
<1>9. \A e \in EventNames : Live(e) => event[e].stream # s
  <2> SUFFICES ASSUME NEW e \in EventNames, Live(e) PROVE event[e].stream # s
    OBVIOUS
  <2>1. IsEvent(event[e])
    BY PartsAreParts
  <2>2. event[e].stream = Nobody \/ event[e].stream \in Files
    BY <2>1 DEF IsEvent
  <2>3. QED
    BY <1>1, <2>2, StreamsAssumption DEF Files
<1>10. EventsHaveOneHome'
  <2> SUFFICES ASSUME NEW t \in Files' PROVE Housed(t)'
    BY DEF EventsHaveOneHome, Housed
  <2>1. CASE t = s
    <3>1. /\ stream'[t].pending = <<>> /\ stream'[t].file = <<>> /\ stream'[t].appended = <<>>
      BY <1>2, <1>4, <2>1
    <3>2. \A e \in EventNames : ~(Live(e) /\ event[e].stream = t)'
      BY <1>3, <1>9, <2>1 DEF Live
    <3>3. <<>> = <<>> \o <<>> /\ IsInjective(<<>>)
      BY <1>6 DEF IsInjective
    <3>4. QED
      BY <1>6, <3>1, <3>2, <3>3 DEF Housed
  <2>2. CASE t # s
    <3>1. t \in StreamNames /\ Made(t) /\ stream'[t] = stream[t]
      BY <1>4, <1>5, <2>2 DEF Files
    <3>2. Housed(t)
      BY <3>1, HomeOf
    <3>3. \A e \in EventNames : (Live(e) /\ event[e].stream = t)' <=> (Live(e) /\ event[e].stream = t)
      BY <1>3 DEF Live
    <3>4. QED
      BY <3>1, <3>2, <3>3, HousedStays
  <2>3. QED
    BY <2>1, <2>2
<1>11. OrphansHoldTheirClass'
  BY <1>3 DEF IInv, OrphansHoldTheirClass, Live
<1>12. QED
  BY <1>8, <1>10, <1>11 DEF IInv

\* A new event is nobody's, and holds its class.
LEMMA CreateEventHoldsClass ==
  ASSUME IInv, NEW e \in EventNames, CreateEvent(e)
  PROVE  IInv'
<1>1. ~Live(e)
  <2>1. e # Nobody
    BY StreamsAssumption
  <2>2. e \in {x \in EventNames : ~Live(x)}
    BY <2>1 DEF CreateEvent, Fresh
  <2>3. QED
    BY <2>2
<1>2. PICK b : /\ event' = [event EXCEPT ![e] = b]
               /\ DOMAIN b = EventParts /\ b.made = TRUE
               /\ b.stream = Nobody /\ b.held = TRUE
  <2> DEFINE Begun(c, fields) ==
               [made |-> TRUE, class |-> c, frozen |-> FALSE, stream |-> Nobody, held |-> TRUE,
                fields |-> fields]
  <2>1. PICK c, fields : event' = [event EXCEPT ![e] = Begun(c, fields)]
    BY DEF CreateEvent
  <2> DEFINE b == Begun(c, fields)
  <2>2. /\ DOMAIN b = EventParts /\ b.made = TRUE
        /\ b.stream = Nobody /\ b.held = TRUE
    BY DEF EventParts
  <2> HIDE DEF b
  <2>3. event' = [event EXCEPT ![e] = b]
    BY <2>1 DEF b
  <2>4. QED
    BY <2>2, <2>3
<1>3. stream' = stream /\ classRefs' = classRefs + 1
  BY DEF CreateEvent
<1>4. /\ event' = [x \in EventNames |-> event'[x]]
      /\ \A x \in EventNames : event'[x] = IF x = e THEN b ELSE event[x]
  BY <1>2, PartsAreParts
<1>5. Files' = Files
  BY <1>3 DEF Files, Made
<1>6. IsEvent(b) /\ IsEvent(b)'
  BY <1>2 DEF IsEvent
<1>7. Shaped'
  <2>1. \A x \in EventNames : event'[x] = Unmade \/ IsEvent(event[x])'
    <3> SUFFICES ASSUME NEW x \in EventNames PROVE event'[x] = Unmade \/ IsEvent(event[x])'
      OBVIOUS
    <3>1. CASE x = e
      BY <1>4, <1>2, <3>1 DEF IsEvent
    <3>2. CASE x # e
      BY <1>4, <1>5, <3>2 DEF IInv, Shaped, IsEvent
    <3>3. QED
      BY <3>1, <3>2
  <2>2. QED
    BY <1>3, <1>4, <2>1 DEF IInv, Shaped
<1>8. \A x \in EventNames, t \in StreamNames :
         (Live(x) /\ event[x].stream = t)' <=> (Live(x) /\ event[x].stream = t)
  BY <1>1, <1>2, <1>4, StreamsAssumption DEF Live
<1>9. EventsHaveOneHome'
  <2> SUFFICES ASSUME NEW t \in Files' PROVE Housed(t)'
    BY DEF EventsHaveOneHome, Housed
  <2>1. t \in StreamNames /\ Made(t)
    BY <1>5 DEF Files
  <2>2. Housed(t)
    BY <2>1, HomeOf
  <2>3. QED
    BY <1>3, <1>8, <2>1, <2>2, HousedStays
<1>10. OrphansHoldTheirClass'
  <2> DEFINE orphans == {x \in EventNames : Live(x) /\ event[x].stream = Nobody}
  <2>1. {x \in EventNames : Live(x) /\ event[x].stream = Nobody}' = orphans \cup {e}
    BY <1>2, <1>4 DEF Live
  <2>2. e \notin orphans /\ IsFiniteSet(orphans)
    BY <1>1, OrphansAreFinite
  <2>3. Cardinality(orphans \cup {e}) = Cardinality(orphans) + 1
    BY <2>2, FS_AddElement
  <2>4. classRefs = Cardinality(orphans)
    BY DEF IInv, OrphansHoldTheirClass
  <2> HIDE DEF orphans
  <2>5. QED
    BY <1>3, <2>1, <2>3, <2>4 DEF OrphansHoldTheirClass
<1>11. QED
  BY <1>7, <1>9, <1>10 DEF IInv

Orphans == {e \in EventNames : Live(e) /\ event[e].stream = Nobody}

\* An event that leaves the orphans lets go of its class.
LEMMA OneOrphanLess ==
  ASSUME OrphansHoldTheirClass, NEW e \in Orphans, Orphans' = Orphans \ {e},
         classRefs' = classRefs - 1
  PROVE  OrphansHoldTheirClass'
<1>1. IsFiniteSet(Orphans)
  BY OrphansAreFinite DEF Orphans
<1>2. Cardinality(Orphans \ {e}) = Cardinality(Orphans) - 1
  BY <1>1, FS_RemoveElement
<1>3. QED
  BY <1>2 DEF OrphansHoldTheirClass, Orphans

\* The client gives its reference up: an orphan is destroyed with it.
LEMMA PutEventLeavesHomes ==
  ASSUME IInv, NEW e \in EventNames, PutEvent(e)
  PROVE  IInv'
<1>1. Live(e) /\ event[e].held /\ stream' = stream
  BY DEF PutEvent
<1>2. IsEvent(event[e])
  BY <1>1, PartsAreParts
<1>3. CASE event[e].stream # Nobody
  <2>1. event' = [event EXCEPT ![e] = [event[e] EXCEPT !.held = FALSE]] /\ classRefs' = classRefs
    BY <1>3 DEF PutEvent
  <2> DEFINE b == [event[e] EXCEPT !.held = FALSE]
  <2>2. /\ DOMAIN b = EventParts /\ b.made = TRUE /\ b.held = FALSE
        /\ b.stream = event[e].stream
    BY <1>2 DEF IsEvent, EventParts
  <2> HIDE DEF b
  <2>3. /\ event' = [x \in EventNames |-> event'[x]]
        /\ \A x \in EventNames : event'[x] = IF x = e THEN b ELSE event[x]
    BY <2>1, PartsAreParts DEF b
  <2>4. Files' = Files
    BY <1>1 DEF Files, Made
  <2>5. Shaped'
    <3>1. IsEvent(event[e])'
      BY <1>2, <1>3, <2>2, <2>3, <2>4 DEF IsEvent
    <3>2. ASSUME NEW x \in EventNames, x # e PROVE event'[x] = Unmade \/ IsEvent(event[x])'
      BY <2>3, <2>4, <3>2 DEF IInv, Shaped, IsEvent
    <3>3. QED
      BY <1>1, <2>3, <3>1, <3>2 DEF IInv, Shaped
  <2>6. \A x \in EventNames : Live(x)' = Live(x) /\ event'[x].stream = event[x].stream
    BY <1>1, <1>2, <2>2, <2>3 DEF Live, IsEvent
  <2>7. EventsHaveOneHome'
    <3> SUFFICES ASSUME NEW t \in Files' PROVE Housed(t)'
      BY DEF EventsHaveOneHome, Housed
    <3>1. t \in StreamNames /\ Made(t) /\ Housed(t)
      BY <2>4, HomeOf DEF Files
    <3>2. QED
      BY <1>1, <2>6, <3>1, HousedStays
  <2>8. OrphansHoldTheirClass'
    BY <2>1, <2>6 DEF IInv, OrphansHoldTheirClass
  <2>9. QED
    BY <2>5, <2>7, <2>8 DEF IInv
<1>4. CASE event[e].stream = Nobody
  <2>1. event' = [event EXCEPT ![e] = Unmade] /\ classRefs' = classRefs - 1
    BY <1>4 DEF PutEvent
  <2>2. /\ event' = [x \in EventNames |-> event'[x]]
        /\ \A x \in EventNames : event'[x] = IF x = e THEN Unmade ELSE event[x]
    BY <2>1, PartsAreParts
  <2>3. Files' = Files
    BY <1>1 DEF Files, Made
  <2>4. Shaped'
    <3>1. ASSUME NEW x \in EventNames PROVE event'[x] = Unmade \/ IsEvent(event[x])'
      BY <2>2, <2>3 DEF IInv, Shaped, IsEvent
    <3>2. QED
      BY <1>1, <2>2, <3>1 DEF IInv, Shaped
  <2>5. \A x \in EventNames, t \in StreamNames :
           (Live(x) /\ event[x].stream = t)' <=> (Live(x) /\ event[x].stream = t)
    BY <1>4, <2>2, UnmadeIs, StreamsAssumption DEF Live
  <2>6. EventsHaveOneHome'
    <3> SUFFICES ASSUME NEW t \in Files' PROVE Housed(t)'
      BY DEF EventsHaveOneHome, Housed
    <3>1. t \in StreamNames /\ Made(t) /\ Housed(t)
      BY <2>3, HomeOf DEF Files
    <3>2. QED
      BY <1>1, <2>5, <3>1, HousedStays
  <2>7. e \in Orphans /\ Orphans' = Orphans \ {e}
    BY <1>1, <1>4, <2>2, UnmadeIs DEF Orphans, Live
  <2>8. OrphansHoldTheirClass'
    BY <2>1, <2>7, OneOrphanLess DEF IInv
  <2>9. QED
    BY <2>4, <2>6, <2>8 DEF IInv
<1>5. QED
  BY <1>3, <1>4

\* An event that is appended finds its home, and lets go of its class.
LEMMA AppendEventGivesHome ==
  ASSUME IInv, NEW s \in StreamNames, NEW e \in EventNames, AppendEvent(s, e)
  PROVE  IInv'
<1>1. Made(s) /\ Live(e) /\ event[e].held /\ event[e].stream = Nobody
  BY DEF AppendEvent, Takes
<1>2. IsStream(stream[s]) /\ IsEvent(event[e])
  BY <1>1, PartsAreParts
<1>3. PICK b : /\ event' = [event EXCEPT ![e] = b]
               /\ DOMAIN b = EventParts /\ b.made = TRUE /\ b.held = event[e].held /\ b.stream = s
  <2>1. PICK fields : event' = [event EXCEPT ![e] =
                        [event[e] EXCEPT !.stream = s, !.frozen = dev, !.fields = fields]]
    BY DEF AppendEvent
  <2> DEFINE b == [event[e] EXCEPT !.stream = s, !.frozen = dev, !.fields = fields]
  <2>2. DOMAIN b = EventParts /\ b.made = TRUE /\ b.held = event[e].held /\ b.stream = s
    BY <1>2 DEF IsEvent, EventParts
  <2>3. event' = [event EXCEPT ![e] = b]
    BY <2>1
  <2> HIDE DEF b
  <2>4. QED
    BY <2>2, <2>3
<1>4. PICK c : /\ stream' = [stream EXCEPT ![s] = c]
               /\ DOMAIN c = StreamParts /\ c.made = TRUE /\ c.file = stream[s].file
               /\ c.pending = Append(stream[s].pending, e)
               /\ c.appended = Append(stream[s].appended, e)
  <2> DEFINE c == [stream[s] EXCEPT !.pending = Append(@, e), !.appended = Append(@, e)]
  <2>1. stream' = [stream EXCEPT ![s] = c]
    BY DEF AppendEvent
  <2>2. /\ DOMAIN c = StreamParts /\ c.made = TRUE /\ c.file = stream[s].file
        /\ c.pending = Append(stream[s].pending, e)
        /\ c.appended = Append(stream[s].appended, e)
    BY <1>2 DEF IsStream, StreamParts
  <2> HIDE DEF c
  <2>3. QED
    BY <2>1, <2>2
<1>5. /\ event' = [x \in EventNames |-> event'[x]]
      /\ \A x \in EventNames : event'[x] = IF x = e THEN b ELSE event[x]
      /\ stream' = [t \in StreamNames |-> stream'[t]]
      /\ \A t \in StreamNames : stream'[t] = IF t = s THEN c ELSE stream[t]
  BY <1>3, <1>4, PartsAreParts
<1>6. Files' = Files /\ s \in Files
  BY <1>1, <1>4, <1>5 DEF Files, Made
<1>7. /\ stream[s].pending \in Seq(EventNames) /\ stream[s].appended \in Seq(EventNames)
      /\ EventsOf(stream[s].file) \in Seq(EventNames)
  BY <1>2 DEF IsStream
<1>8. IsStream(c)
  <2>1. Append(stream[s].pending, e) \in Seq(EventNames) /\ Append(stream[s].appended, e) \in Seq(EventNames)
    BY <1>7, AppendProperties
  <2>2. QED
    BY <1>2, <1>4, <2>1 DEF IsStream
<1>9. Shaped'
  <2>1. \A t \in StreamNames : stream'[t] = Unmade \/ IsStream(stream'[t])
    BY <1>5, <1>8 DEF IInv, Shaped
  <2>2. IsEvent(event[e])'
    BY <1>2, <1>3, <1>5, <1>6, StreamsAssumption DEF IsEvent
  <2>3. ASSUME NEW x \in EventNames, x # e PROVE event'[x] = Unmade \/ IsEvent(event[x])'
    BY <1>5, <1>6, <2>3 DEF IInv, Shaped, IsEvent
  <2>4. QED
    BY <1>5, <2>1, <2>2, <2>3 DEF Shaped
<1>10. \A t \in StreamNames, x \in EventNames :
          (Live(x) /\ event[x].stream = t)'
             <=> ((x = e /\ t = s) \/ (Live(x) /\ event[x].stream = t))
  BY <1>1, <1>3, <1>5, StreamsAssumption DEF Live
<1>11. Housed(s) /\ \A i \in DOMAIN stream[s].pending : stream[s].pending[i] # e
  <2>1. Housed(s)
    BY <1>1, HomeOf
  <2>2. event[e].stream # s
    BY <1>1, StreamsAssumption
  <2>3. QED
    BY <2>1, <2>2 DEF Housed
<1>12. Housed(s)'
  <2> DEFINE p == stream[s].pending
             q == Append(p, e)
  <2>1. stream'[s] = c
    BY <1>5
  <2>2. /\ Len(p) \in Nat /\ DOMAIN p = 1..Len(p)
        /\ Len(q) = Len(p) + 1 /\ DOMAIN q = 1..(Len(p) + 1)
        /\ q[Len(p) + 1] = e /\ \A i \in 1..Len(p) : q[i] = p[i]
    <3>1. Len(p) \in Nat /\ DOMAIN p = 1..Len(p)
      BY <1>7, LenProperties
    <3>2. /\ q \in Seq(EventNames) /\ Len(q) = Len(p) + 1
          /\ q[Len(p) + 1] = e /\ \A i \in 1..Len(p) : q[i] = p[i]
      BY <1>7, AppendProperties
    <3>3. DOMAIN q = 1..Len(q)
      BY <3>2, LenProperties
    <3>4. QED
      BY <3>1, <3>2, <3>3
  <2>3. c.appended = EventsOf(c.file) \o q
    <3>1. stream[s].appended = EventsOf(stream[s].file) \o p
      BY <1>11 DEF Housed
    <3>2. Append(EventsOf(stream[s].file) \o p, e) = EventsOf(stream[s].file) \o q
      <4> DEFINE h == EventsOf(stream[s].file)
      <4>1. h \in Seq(EventNames) /\ p \in Seq(EventNames)
        BY <1>7
      <4> HIDE DEF h, p
      <4>2. Append(h \o p, e) = h \o Append(p, e)
        BY <4>1
      <4>3. QED
        BY <4>2 DEF h
    <3>3. QED
      BY <1>4, <3>1, <3>2
  <2>4. c.pending = q
    BY <1>4
  <2>5. IsInjective(p) /\ \A i \in DOMAIN p : p[i] # e
    BY <1>11 DEF Housed
  <2>6. \A x \in EventNames :
           (Live(x) /\ event[x].stream = s) <=> (\E i \in DOMAIN p : p[i] = x)
    BY <1>11 DEF Housed
  <2> HIDE DEF p, q
  <2>7. IsInjective(q)
    BY <2>2, <2>5 DEF IsInjective
  <2>8. ASSUME NEW x \in EventNames
        PROVE  (\E i \in DOMAIN q : q[i] = x) <=> (x = e \/ \E i \in DOMAIN p : p[i] = x)
    <3>1. DOMAIN q = DOMAIN p \cup {Len(p) + 1}
      BY <2>2
    <3>2. \A i \in DOMAIN p : q[i] = p[i]
      BY <2>2
    <3>3. QED
      BY <2>2, <3>1, <3>2
  <2>9. QED
    BY <1>10, <2>1, <2>3, <2>4, <2>6, <2>7, <2>8 DEF Housed
<1>13. EventsHaveOneHome'
  <2> SUFFICES ASSUME NEW t \in Files', t # s PROVE Housed(t)'
    BY <1>12 DEF EventsHaveOneHome, Housed
  <2>1. t \in StreamNames /\ Made(t) /\ Housed(t) /\ stream'[t] = stream[t]
    BY <1>5, <1>6, HomeOf DEF Files
  <2>2. QED
    BY <1>10, <2>1, HousedStays
<1>14. e \in Orphans /\ Orphans' = Orphans \ {e}
  <2>1. event'[e].stream # Nobody
    BY <1>3, <1>5, StreamsAssumption
  <2>2. QED
    BY <1>1, <1>5, <2>1 DEF Orphans, Live
<1>15. OrphansHoldTheirClass'
  BY <1>14, OneOrphanLess DEF IInv, AppendEvent
<1>16. QED
  BY <1>9, <1>13, <1>15 DEF IInv

\* What a flush does to a stream before it ends leaves its events alone.
LEMMA FlushKeeps ==
  ASSUME NEW st, IsStream(st), NEW b, KeepsHome(st, b)
  PROVE  /\ \A h : KeepsHome(st, [b EXCEPT !.header = h])
         /\ \A x, y : KeepsHome(st, WithSizes(b, x, y))
         /\ KeepsHome(st, WithTimestamps(b))
         /\ KeepsHome(st, Once(b))
         /\ KeepsHome(st, [b EXCEPT !.ok = FALSE])
         /\ \A c : KeepsHome(st, [b EXCEPT !.context = c, !.ok = TRUE, !.begin = 0])
<1> DEFINE Like(a) == /\ DOMAIN a = StreamParts /\ a.made = TRUE /\ a.pending = st.pending
                      /\ a.appended = st.appended /\ a.file = st.file
<1>1. Like(b)
  BY DEF KeepsHome, IsStream
<1>2. \A a : Like(a) => KeepsHome(st, a)
  BY DEF KeepsHome
<1>3. ASSUME NEW x PROVE Like([b EXCEPT !.header = x])
  BY <1>1 DEF StreamParts
<1>4. ASSUME NEW x PROVE Like([b EXCEPT !.context = x])
  BY <1>1 DEF StreamParts
<1>5. ASSUME NEW x, NEW y, NEW z PROVE Like([b EXCEPT !.context = x, !.lastEnd = y, !.begin = z])
  BY <1>1 DEF StreamParts
<1>6. Like([b EXCEPT !.ok = FALSE])
  BY <1>1 DEF StreamParts
<1>7. ASSUME NEW x PROVE Like([b EXCEPT !.discarded = x])
  BY <1>1 DEF StreamParts
<1>8. ASSUME NEW x PROVE Like([b EXCEPT !.context = x, !.ok = TRUE, !.begin = 0])
  BY <1>1 DEF StreamParts
<1> HIDE DEF Like
<1>9. ASSUME NEW x, NEW y PROVE Like(WithSizes(b, x, y))
  BY <1>4 DEF WithSizes
<1>10. Like(WithTimestamps(b))
  <2>1. \/ WithTimestamps(b) = [b EXCEPT !.ok = FALSE]
        \/ \E x, y, z : WithTimestamps(b) = [b EXCEPT !.context = x, !.lastEnd = y, !.begin = z]
    <3> DEFINE f == b.context
               begin == IF GivenMember(f, "timestamp_begin") THEN Member(f, "timestamp_begin").value
                        ELSE IF b.lastEnd # NoTime THEN b.lastEnd ELSE 0
               seen == VisitedClock(begin, ContextStamps(f) \o PendingStamps(b))
               ends == GivenMember(f, "timestamp_end")
               end == IF ends THEN Member(f, "timestamp_end").value ELSE seen
               withEnd == IF ends THEN f ELSE GiveMember(dev, f, "timestamp_end", seen)
               withBegin == IF GivenMember(f, "timestamp_begin") THEN withEnd
                            ELSE GiveMember(dev, withEnd, "timestamp_begin", begin)
               fails == \/ b.lastEnd # NoTime /\ begin < b.lastEnd
                        \/ \E i \in DOMAIN b.pending : ~IsVisitable(b.pending[i])
                        \/ end < seen
    <3>1. WithTimestamps(b) = IF fails THEN [b EXCEPT !.ok = FALSE]
             ELSE [b EXCEPT !.context = withBegin, !.lastEnd = end, !.begin = begin]
      BY Zenon DEF WithTimestamps
    <3> HIDE DEF fails, withBegin, end, begin
    <3>2. QED
      BY <3>1
  <2>2. CASE WithTimestamps(b) = [b EXCEPT !.ok = FALSE]
    BY <1>6, <2>2
  <2>3. ASSUME NEW x, NEW y, NEW z,
               WithTimestamps(b) = [b EXCEPT !.context = x, !.lastEnd = y, !.begin = z]
        PROVE  Like(WithTimestamps(b))
    <3>1. Like([b EXCEPT !.context = x, !.lastEnd = y, !.begin = z])
      BY <1>5
    <3>2. QED
      BY <2>3, <3>1
  <2>4. QED
    BY <2>1, <2>2, <2>3
<1>11. Like(Once(b))
  <2>1. \/ WithDiscarded(b) = b
        \/ \E x : WithDiscarded(b) = [b EXCEPT !.context = x]
        \/ \E x : WithDiscarded(b) = [b EXCEPT !.discarded = x]
    BY DEF WithDiscarded
  <2>2. Like(WithDiscarded(b))
    BY <1>1, <1>4, <1>7, <2>1
  <2>3. QED
    BY <1>1, <2>2 DEF Once
<1>12. QED
  BY <1>2, <1>3, <1>6, <1>8, <1>9, <1>10, <1>11

\* A flush either writes a packet with all of the pending events, and lets them
\* go, or leaves them.
LEMMA FlushEnds ==
  ASSUME IInv, NEW s \in StreamNames, Flush(s)
  PROVE  /\ Made(s)
         /\ \E st, content, failed :
              /\ KeepsHome(stream[s], Ended(st))
              /\ Writes(s, st, content, failed) \/ Leaves(s, st)
<1> DEFINE st == stream[s]
           populated == Populated(st)
<1>1. Made(s)
  BY DEF Flush
<1>2. IsStream(st)
  BY <1>1, PartsAreParts
<1>3. PICK first, content, failed :
        \/ Writes(s, Sized(st, populated, first), content, failed)
        \/ Leaves(s, Sized(st, populated, first))
  BY DEF Flush
<1>4. KeepsHome(st, populated)
  <2> DEFINE timed == IF IsField(st.context) THEN WithTimestamps(Blank(st)) ELSE Blank(st)
  <2>1. KeepsHome(st, st)
    BY DEF KeepsHome
  <2>2. KeepsHome(st, [st EXCEPT !.header = PopulateHeader(@, st.classId)])
    BY <1>2, <2>1, FlushKeeps
  <2>3. KeepsHome(st, Blank(st))
    BY <1>2, <2>2, FlushKeeps DEF Blank
  <2>4. KeepsHome(st, timed)
    BY <1>2, <2>3, FlushKeeps
  <2> HIDE DEF timed
  <2>5. KeepsHome(st, Once(timed))
    BY <1>2, <2>4, FlushKeeps
  <2>6. QED
    BY <2>5 DEF timed, Populated
<1> HIDE DEF populated
<1>5. KeepsHome(st, Sized(st, populated, first))
  <2> DEFINE ready == IF populated.ok /\ first.ok /\ SizesAreTold(st, first.bits)
                      THEN WithSizes(populated, UpToByte(first.bits), first.bits)
                      ELSE [populated EXCEPT !.ok = FALSE]
  <2>1. KeepsHome(st, WithSizes(populated, UpToByte(first.bits), first.bits))
    BY <1>2, <1>4, FlushKeeps
  <2>2. KeepsHome(st, [populated EXCEPT !.ok = FALSE])
    BY <1>2, <1>4, FlushKeeps
  <2>3. KeepsHome(st, ready)
    BY <2>1, <2>2
  <2> HIDE DEF ready
  <2>4. KeepsHome(st, Once(ready))
    BY <1>2, <2>3, FlushKeeps
  <2>5. QED
    BY <2>4 DEF ready, Sized
<1>6. KeepsHome(st, Ended(Sized(st, populated, first)))
  BY <1>2, <1>5, FlushKeeps DEF Ended
<1>7. QED
  BY <1>1, <1>3, <1>6

\* A packet that is written takes its events with it; those that a client holds
\* become orphans, which hold their class.
LEMMA WritesMovesEvents ==
  ASSUME IInv, NEW s \in StreamNames, Made(s), NEW st, NEW content, NEW failed,
         KeepsHome(stream[s], Ended(st)), Writes(s, st, content, failed)
  PROVE  IInv'
<1> DEFINE file == stream[s].file
           pending == stream[s].pending
           p == Packet(stream[s], st, content, failed)
           c == [Ended(st) EXCEPT !.pending = <<>>, !.count = @ + 1, !.file = Append(@, p)]
           es == Pending(s)
           held == {e \in es : event[e].held}
<1>1. IsStream(stream[s]) /\ Housed(s)
  BY PartsAreParts, HomeOf
<1>2. /\ DOMAIN Ended(st) = StreamParts /\ Ended(st).made = TRUE
      /\ Ended(st).appended = stream[s].appended /\ Ended(st).file = file
  BY <1>1 DEF KeepsHome, IsStream
<1>3. /\ DOMAIN c = StreamParts /\ c.made = TRUE /\ c.pending = <<>>
      /\ c.appended = stream[s].appended /\ c.file = Append(file, p)
  <2> HIDE DEF p, file
  <2>1. QED
    BY <1>2 DEF StreamParts
<1>4. p.events = pending
  BY DEF Packet
<1>5. /\ stream' = [stream EXCEPT ![s] = c]
      /\ event' = Released(es)
      /\ classRefs' = classRefs + Cardinality(held)
  BY DEF Writes
<1> HIDE DEF p, c
<1>6. /\ file \in Seq({file[k] : k \in DOMAIN file}) /\ EventsOf(file) \in Seq(EventNames)
      /\ pending \in Seq(EventNames) /\ stream[s].appended \in Seq(EventNames)
      /\ stream[s].appended = EventsOf(file) \o pending
      /\ \A e \in EventNames : (Live(e) /\ event[e].stream = s) <=> e \in es
  <2>1. \A e : e \in es <=> \E i \in DOMAIN pending : pending[i] = e
    BY DEF Pending
  <2>2. QED
    BY <1>1, <2>1 DEF IsStream, Housed
<1>7. /\ EventsOf(c.file) = stream[s].appended
      /\ c.file \in Seq({c.file[k] : k \in DOMAIN c.file})
  <2> HIDE DEF file, pending
  <2>1. /\ EventsOf(Append(file, p)) = EventsOf(file) \o p.events
        /\ Append(file, p) \in Seq({Append(file, p)[k] : k \in DOMAIN Append(file, p)})
    BY <1>4, <1>6, EventsOfMore
  <2>2. QED
    BY <1>3, <1>4, <1>6, <2>1
<1>8. IsStream(c)
  <2>1. <<>> \in Seq(EventNames) /\ EventsOf(c.file) \in Seq(EventNames)
    BY <1>6, <1>7
  <2>2. c.pending \in Seq(EventNames) /\ c.appended \in Seq(EventNames)
    BY <1>3, <1>6, <2>1
  <2>3. QED
    BY <1>3, <1>7, <2>1, <2>2 DEF IsStream
<1>9. es \subseteq EventNames
  <2>1. \A i \in DOMAIN pending : pending[i] \in EventNames
    BY <1>6
  <2>2. QED
    BY <2>1 DEF Pending
<1>10. /\ stream' = [t \in StreamNames |-> stream'[t]]
       /\ \A t \in StreamNames : stream'[t] = IF t = s THEN c ELSE stream[t]
       /\ event' = [e \in EventNames |-> event'[e]]
  BY <1>5, PartsAreParts DEF Released
<1>11. ASSUME NEW e \in es
       PROVE  /\ e \in EventNames /\ Live(e) /\ event[e].stream = s /\ IsEvent(event[e])
              /\ event[e].held =>
                   /\ DOMAIN event'[e] = EventParts /\ event'[e].made = TRUE
                   /\ event'[e].stream = Nobody /\ event'[e].held
              /\ ~event[e].held => event'[e] = Unmade
  <2>1. e \in EventNames
    BY <1>9
  <2>2. Live(e) /\ event[e].stream = s
    BY <1>6, <2>1
  <2>3. IsEvent(event[e])
    BY <2>1, <2>2, PartsAreParts
  <2>4. event'[e] = IF event[e].held THEN [event[e] EXCEPT !.stream = Nobody] ELSE Unmade
    BY <1>5, <2>1 DEF Released
  <2>5. event[e].held =>
          LET b == [event[e] EXCEPT !.stream = Nobody]
          IN DOMAIN b = EventParts /\ b.made = TRUE /\ b.stream = Nobody /\ b.held
    BY <2>3 DEF IsEvent, EventParts
  <2>6. QED
    BY <2>1, <2>2, <2>3, <2>4, <2>5
<1>12. \A e \in EventNames \ es : event'[e] = event[e]
  BY <1>5 DEF Released
<1>13. Files' = Files
  BY <1>3, <1>10 DEF Files, Made
<1> HIDE DEF es
<1>14. Shaped'
  <2>1. \A t \in StreamNames : stream'[t] = Unmade \/ IsStream(stream'[t])
    BY <1>8, <1>10 DEF IInv, Shaped
  <2>2. ASSUME NEW e \in EventNames, e \in es PROVE event'[e] = Unmade \/ IsEvent(event[e])'
    BY <1>11, <2>2 DEF IsEvent
  <2>3. ASSUME NEW e \in EventNames, e \notin es PROVE event'[e] = Unmade \/ IsEvent(event[e])'
    <3>1. event'[e] = event[e]
      BY <1>12, <2>3
    <3>2. event[e] = Unmade \/ IsEvent(event[e])
      BY DEF IInv, Shaped
    <3>3. QED
      BY <1>13, <3>1, <3>2 DEF IsEvent
  <2>4. QED
    BY <1>10, <2>1, <2>2, <2>3 DEF Shaped
<1>15. \A t \in StreamNames \ {s}, e \in EventNames :
          (Live(e) /\ event[e].stream = t)' <=> (Live(e) /\ event[e].stream = t)
  <2> SUFFICES ASSUME NEW t \in StreamNames \ {s}, NEW e \in EventNames
               PROVE  (Live(e) /\ event[e].stream = t)' <=> (Live(e) /\ event[e].stream = t)
    OBVIOUS
  <2>1. CASE e \in es
    <3>1. event[e].stream # t
      BY <1>11, <2>1
    <3>2. event[e].held \in BOOLEAN
      BY <1>11, <2>1 DEF IsEvent
    <3>3. CASE event[e].held
      BY <1>11, <2>1, <3>1, <3>3, StreamsAssumption
    <3>4. CASE ~event[e].held
      BY <1>11, <2>1, <3>1, <3>4, UnmadeIs DEF Live
    <3>5. QED
      BY <3>3, <3>4
  <2>2. CASE e \notin es
    BY <1>12, <2>2 DEF Live
  <2>3. QED
    BY <2>1, <2>2
<1>16. Housed(s)'
  <2>1. \A e \in EventNames : ~(Live(e) /\ event[e].stream = s)'
    <3> SUFFICES ASSUME NEW e \in EventNames PROVE ~(Live(e) /\ event[e].stream = s)'
      OBVIOUS
    <3>1. CASE e \in es
      BY <1>11, <3>1, UnmadeIs, StreamsAssumption DEF Live
    <3>2. CASE e \notin es
      BY <1>6, <1>12, <3>2 DEF Live
    <3>3. QED
      BY <3>1, <3>2
  <2>2. stream'[s] = c /\ DOMAIN <<>> = {}
    BY <1>10
  <2>3. c.appended = EventsOf(c.file) \o <<>>
    BY <1>3, <1>6, <1>7, ConcatEmptySeq
  <2>4. IsInjective(<<>>)
    BY <2>2 DEF IsInjective
  <2>5. QED
    BY <1>3, <2>1, <2>2, <2>3, <2>4 DEF Housed
<1>17. EventsHaveOneHome'
  <2> SUFFICES ASSUME NEW t \in Files', t # s PROVE Housed(t)'
    BY <1>16 DEF EventsHaveOneHome, Housed
  <2>1. t \in StreamNames \ {s} /\ Made(t) /\ Housed(t) /\ stream'[t] = stream[t]
    BY <1>10, <1>13, HomeOf DEF Files
  <2>2. QED
    BY <1>15, <2>1, HousedStays
<1>18. OrphansHoldTheirClass'
  <2>1. Orphans' = Orphans \cup held
    <3> SUFFICES ASSUME NEW e \in EventNames PROVE e \in Orphans' <=> e \in Orphans \cup held
      BY <1>9 DEF Orphans, es
    <3>1. CASE e \in es
      <4>1. event[e].held \in BOOLEAN
        BY <1>11, <3>1 DEF IsEvent
      <4>2. e \in Orphans' <=> event[e].held
        BY <1>11, <3>1, <4>1, UnmadeIs DEF Orphans, Live
      <4>3. e \notin Orphans
        BY <1>11, <3>1, StreamsAssumption DEF Orphans
      <4>4. QED
        BY <3>1, <4>2, <4>3
    <3>2. CASE e \notin es
      BY <1>12, <3>2 DEF Orphans, Live
    <3>3. QED
      BY <3>1, <3>2
  <2>2. Orphans \cap held = {}
    BY <1>11, StreamsAssumption DEF Orphans
  <2>3. IsFiniteSet(Orphans) /\ IsFiniteSet(held)
    <3>1. IsFiniteSet(EventNames) /\ held \subseteq EventNames
      BY <1>9, StreamsAssumption DEF es
    <3>2. QED
      BY <3>1, OrphansAreFinite, FS_Subset DEF Orphans
  <2>4. classRefs = Cardinality(Orphans)
    BY DEF IInv, OrphansHoldTheirClass, Orphans
  <2> HIDE DEF held
  <2>5. Cardinality(Orphans \cup held) = Cardinality(Orphans) + Cardinality(held)
    <3>1. Cardinality(Orphans \cup held)
            = Cardinality(Orphans) + Cardinality(held) - Cardinality(Orphans \cap held)
      BY <2>3, FS_Union
    <3>2. Cardinality(Orphans \cap held) = 0
      BY <2>2, FS_EmptySet
    <3>3. Cardinality(Orphans) \in Nat /\ Cardinality(held) \in Nat
      BY <2>3, FS_CardinalityType
    <3>4. QED
      BY <3>1, <3>2, <3>3
  <2>6. QED
    BY <1>5, <2>1, <2>4, <2>5 DEF OrphansHoldTheirClass, Orphans, held
<1>19. QED
  BY <1>14, <1>17, <1>18 DEF IInv

LEMMA FlushMovesEvents ==
  ASSUME IInv, NEW s \in StreamNames, Flush(s)
  PROVE  IInv'
<1>1. PICK st, content, failed :
        /\ Made(s) /\ KeepsHome(stream[s], Ended(st))
        /\ Writes(s, st, content, failed) \/ Leaves(s, st)
  BY FlushEnds
<1>2. CASE Writes(s, st, content, failed)
  BY <1>1, <1>2, WritesMovesEvents
<1>3. CASE Leaves(s, st)
  BY <1>1, <1>3, StreamChanges DEF Leaves
<1>4. QED
  BY <1>1, <1>2, <1>3

LEMMA RefuseFlushLeavesHomes ==
  ASSUME IInv, NEW s \in StreamNames, RefuseFlush(s)
  PROVE  IInv'
<1>1. Made(s) /\ Leaves(s, stream[s])
  BY DEF RefuseFlush
<1>2. IsStream(stream[s])
  BY <1>1, PartsAreParts
<1>3. KeepsHome(stream[s], stream[s])
  BY DEF KeepsHome
<1>4. KeepsHome(stream[s], Ended(stream[s]))
  BY <1>2, <1>3, FlushKeeps DEF Ended
<1>5. QED
  BY <1>1, <1>4, StreamChanges DEF Leaves

LEMMA StreamsKeep == IInv /\ [Next]_vars => IInv'
<1> SUFFICES ASSUME IInv, [Next]_vars PROVE IInv'
  OBVIOUS
<1>1. ASSUME NEW s \in StreamNames, StreamStep(s) PROVE IInv'
  BY <1>1, CreateStreamMakesHome, StreamEditsLeaveHomes, FlushMovesEvents,
     RefuseFlushLeavesHomes DEF StreamStep
<1>2. ASSUME NEW e \in EventNames, EventStep(e) PROVE IInv'
  BY <1>2, CreateEventHoldsClass, PutEventLeavesHomes, EventEditsLeaveHomes DEF EventStep
<1>3. ASSUME NEW s \in StreamNames, NEW e \in EventNames, AppendEvent(s, e) PROVE IInv'
  BY <1>3, AppendEventGivesHome
<1>4. CASE UNCHANGED <<stream, event, classRefs>>
  <2>1. \A s \in StreamNames : KeepsHome(stream[s], stream'[s])
    BY <1>4 DEF KeepsHome
  <2>2. \A e \in EventNames : KeepsParent(event[e], event'[e])
    BY <1>4 DEF KeepsParent
  <2>3. /\ stream' = [s \in StreamNames |-> stream'[s]]
        /\ event' = [e \in EventNames |-> event'[e]]
    BY <1>4, PartsAreParts
  <2>4. QED
    BY <1>4, <2>1, <2>2, <2>3, HomesStay
<1>5. QED
  BY <1>1, <1>2, <1>3, <1>4 DEF Next, SetTime, vars

(***************************************************************************)
(* Functions that are defined by recursion on the first numbers.           *)
(***************************************************************************)

\* Such a function, from "a" on, by the steps of F.
Iterates(g, n, a, F) ==
  g = [k \in 0..n |-> IF k = 0 THEN a ELSE F[k][g[k - 1]]]

LEMMA IterationExists ==
  ASSUME NEW a, NEW F, NEW n \in Nat
  PROVE  \E g : Iterates(g, n, a, F)
<1> DEFINE T == {j \in Nat : \E g : Iterates(g, j, a, F)}
<1>1. 0 \in T
  <2> DEFINE g == [k \in 0..0 |-> a]
  <2>1. \A k \in 0..0 : k = 0
    OBVIOUS
  <2>2. g = [k \in 0..0 |-> IF k = 0 THEN a ELSE F[k][g[k - 1]]]
    BY <2>1
  <2>3. QED
    BY <2>2 DEF Iterates
<1>2. ASSUME NEW j \in Nat, j \in T PROVE j + 1 \in T
  <2>1. PICK g : Iterates(g, j, a, F)
    BY <1>2
  <2> DEFINE r == [k \in 0..(j + 1) |-> IF k = j + 1 THEN F[k][g[j]] ELSE g[k]]
  <2>2. ASSUME NEW k \in 0..(j + 1) PROVE r[k] = IF k = 0 THEN a ELSE F[k][r[k - 1]]
    <3>1. CASE k = j + 1
      <4>1. k # 0 /\ k - 1 = j /\ j \in 0..(j + 1) /\ j # j + 1
        BY <3>1
      <4>2. r[k - 1] = g[j]
        BY <4>1
      <4>3. QED
        BY <3>1, <4>1, <4>2
    <3>2. CASE k # j + 1
      <4>1. k \in 0..j
        BY <3>2
      <4>2. r[k] = g[k] /\ g[k] = IF k = 0 THEN a ELSE F[k][g[k - 1]]
        BY <2>1, <3>2, <4>1 DEF Iterates
      <4>3. k # 0 => k - 1 \in 0..(j + 1) /\ k - 1 # j + 1
        BY <4>1
      <4>4. k # 0 => r[k - 1] = g[k - 1]
        BY <4>3
      <4>5. QED
        BY <4>2, <4>4
    <3>3. QED
      BY <3>1, <3>2
  <2>3. r = [k \in 0..(j + 1) |-> IF k = 0 THEN a ELSE F[k][r[k - 1]]]
    BY <2>2
  <2> HIDE DEF r
  <2>4. Iterates(r, j + 1, a, F)
    BY <2>3 DEF Iterates
  <2>5. QED
    BY <2>4
<1>3. Nat \subseteq T
  <2> HIDE DEF T
  <2> QED
    BY <1>1, <1>2, HasEveryNumber
<1>4. QED
  BY <1>3

\* What every step keeps holds of every value.
LEMMA IterationStays ==
  ASSUME NEW X, NEW a \in X, NEW F, NEW n \in Nat,
         \A k \in 1..n : \A x \in X : F[k][x] \in X,
         NEW g, Iterates(g, n, a, F)
  PROVE  \A k \in 0..n : g[k] \in X
<1> DEFINE T == {k \in Nat : k <= n => g[k] \in X}
<1>1. \A k \in 0..n : g[k] = IF k = 0 THEN a ELSE F[k][g[k - 1]]
  BY DEF Iterates
<1>2. 0 \in T
  BY <1>1
<1>3. ASSUME NEW k \in Nat, k \in T PROVE k + 1 \in T
  <2> SUFFICES ASSUME k + 1 <= n PROVE g[k + 1] \in X
    OBVIOUS
  <2>1. g[k] \in X
    BY <1>3
  <2>2. k + 1 \in 1..n /\ k + 1 \in 0..n /\ k + 1 # 0 /\ (k + 1) - 1 = k
    OBVIOUS
  <2>3. g[k + 1] = F[k + 1][g[k]]
    BY <1>1, <2>2
  <2>4. QED
    BY <2>1, <2>2, <2>3
<1>4. Nat \subseteq T
  <2> HIDE DEF T
  <2> QED
    BY <1>2, <1>3, HasEveryNumber
<1>5. QED
  BY <1>4

(***************************************************************************)
(* The types of parts.                                                     *)
(***************************************************************************)

TypeStep(p, type, k) ==
  IF type \in DOMAIN Shape /\ p[k] \in DOMAIN Shape[type].members
  THEN Shape[type].members[p[k]] ELSE "none"

\* The definition of TypeAt has a meaning.
LEMMA TypeAtIs ==
  ASSUME NEW t \in AnyType, NEW p, Len(p) \in Nat
  PROVE  \E g : /\ g = [k \in 0..Len(p) |-> IF k = 0 THEN t ELSE TypeStep(p, g[k - 1], k)]
                /\ \A k \in 0..Len(p) : g[k] \in AnyType
                /\ TypeAt(t, p) = g[Len(p)]
<1> DEFINE Is(g) == g = [k \in 0..Len(p) |->
                            IF k = 0 THEN t
                            ELSE IF g[k - 1] \in DOMAIN Shape /\ p[k] \in DOMAIN Shape[g[k - 1]].members
                                 THEN Shape[g[k - 1]].members[p[k]] ELSE "none"]
           F == [k \in 1..Len(p) |-> [x \in AnyType |-> TypeStep(p, x, k)]]
<1>1. \A x \in AnyType : \A k : TypeStep(p, x, k) \in AnyType
  <2> SUFFICES ASSUME NEW x \in AnyType, NEW k, x \in DOMAIN Shape, p[k] \in DOMAIN Shape[x].members
               PROVE  Shape[x].members[p[k]] \in AnyType
    BY DEF TypeStep, AnyType
  <2>1. Shape[x].members \in Seq(DOMAIN Shape)
    BY FieldsAssumption DEF ShapeAssumption
  <2> DEFINE ms == Shape[x].members
  <2> HIDE DEF ms
  <2>2. ms[p[k]] \in DOMAIN Shape
    BY <2>1 DEF ms
  <2>3. QED
    BY <2>2 DEF ms, AnyType
<1>2. \A k \in 1..Len(p) : \A x \in AnyType : F[k][x] = TypeStep(p, x, k)
  OBVIOUS
<1> HIDE DEF F
<1>3. PICK g : Iterates(g, Len(p), t, F)
  BY IterationExists
<1>4. \A k \in 0..Len(p) : g[k] \in AnyType
  <2>1. \A k \in 1..Len(p) : \A x \in AnyType : F[k][x] \in AnyType
    BY <1>1, <1>2
  <2>2. t \in AnyType
    OBVIOUS
  <2> HIDE DEF F
  <2>3. QED
    BY <1>3, <2>1, <2>2, IterationStays
<1>5. g = [k \in 0..Len(p) |-> IF k = 0 THEN t ELSE F[k][g[k - 1]]]
  BY <1>3 DEF Iterates
<1>6. ASSUME NEW k \in 0..Len(p), k # 0 PROVE F[k][g[k - 1]] = TypeStep(p, g[k - 1], k)
  <2>1. k \in 1..Len(p) /\ k - 1 \in 0..Len(p)
    BY <1>6
  <2>2. QED
    BY <1>2, <1>4, <2>1
<1>7. g = [k \in 0..Len(p) |-> IF k = 0 THEN t ELSE TypeStep(p, g[k - 1], k)]
  BY <1>5, <1>6
<1>8. Is(g)
  BY <1>7 DEF TypeStep
<1>9. TypeAt(t, p) = (CHOOSE h : Is(h))[Len(p)]
  BY DEF TypeAt
<1>10. \A h : Is(h) => h = g
  <2> SUFFICES ASSUME NEW h, Is(h) PROVE h = g
    OBVIOUS
  <2>1. h = [k \in 0..Len(p) |-> IF k = 0 THEN t ELSE TypeStep(p, h[k - 1], k)]
    BY DEF TypeStep
  <2> DEFINE T == {k \in Nat : k <= Len(p) => h[k] = g[k]}
  <2>2. 0 \in T
    BY <1>7, <2>1
  <2>3. ASSUME NEW k \in Nat, k \in T PROVE k + 1 \in T
    <3>1. k + 1 <= Len(p) => /\ k + 1 \in 0..Len(p) /\ k + 1 # 0 /\ (k + 1) - 1 = k
                             /\ h[k] = g[k]
      BY <2>3
    <3> HIDE DEF Is
    <3>2. QED
      BY <1>7, <2>1, <3>1
  <2>4. Nat \subseteq T
    <3> HIDE DEF T
    <3> QED
      BY <2>2, <2>3, HasEveryNumber
  <2>5. \A k \in 0..Len(p) : h[k] = g[k]
    <3> SUFFICES ASSUME NEW k \in 0..Len(p) PROVE h[k] = g[k]
      OBVIOUS
    <3> HIDE DEF Is
    <3>1. k \in T /\ k <= Len(p)
      <4> HIDE DEF T
      <4> QED
        BY <2>4
    <3>2. QED
      BY <3>1
  <2>6. QED
    BY <1>7, <2>1, <2>5
<1> HIDE DEF Is
<1>11. (CHOOSE h : Is(h)) = g
  BY <1>8, <1>10
<1>12. QED
  BY <1>4, <1>7, <1>9, <1>11

LEMMA Iterated ==
  ASSUME NEW X, NEW a \in X, NEW F, NEW n \in Nat,
         \A k \in 1..n : \A x \in X : F[k][x] \in X
  PROVE  \E g : Iterates(g, n, a, F) /\ \A k \in 0..n : g[k] \in X
<1>1. PICK g : Iterates(g, n, a, F)
  BY IterationExists
<1>2. \A k \in 0..n : g[k] \in X
  BY <1>1, IterationStays
<1>3. QED
  BY <1>1, <1>2

LEMMA Stays ==
  ASSUME NEW X, NEW n \in Nat, NEW h, h[0] \in X, \A k \in 1..n : h[k - 1] \in X => h[k] \in X
  PROVE  \A k \in 0..n : h[k] \in X
<1> DEFINE T == {k \in Nat : k <= n => h[k] \in X}
<1>1. 0 \in T
  OBVIOUS
<1>2. ASSUME NEW k \in Nat, k \in T PROVE k + 1 \in T
  <2>1. k + 1 <= n => k + 1 \in 1..n /\ (k + 1) - 1 = k /\ h[k] \in X
    BY <1>2
  <2>2. QED
    BY <2>1
<1>3. Nat \subseteq T
  <2> HIDE DEF T
  <2> QED
    BY <1>1, <1>2, HasEveryNumber
<1>4. QED
  BY <1>3

(***************************************************************************)
(* The clock values.                                                       *)
(***************************************************************************)

LEMMA SizesAre ==
  /\ WordBits \in Nat \ {0} /\ WordBits \in Sizes
  /\ \A n \in Sizes : 2 ^ n \in Nat \ {0}
  /\ Word \in Nat /\ Word > 1
<1>1. WordBits \in Sizes
  BY FieldsAssumption DEF Sizes
<1>2. QED
  BY <1>1, FieldsAssumption DEF Word

LEMMA OrIs ==
  ASSUME NEW a, NEW b
  PROVE  Or(a, b) \in Nat
<1> DEFINE Bit(n, k) == (n \div 2 ^ k) % 2
           More(k) == IF Bit(a, k - 1) = 1 \/ Bit(b, k - 1) = 1 THEN 2 ^ (k - 1) ELSE 0
           Is(h) == h = [k \in Sizes |-> IF k = 0 THEN 0 ELSE h[k - 1] + More(k)]
           F == [k \in 1..WordBits |-> [x \in Nat |-> x + More(k)]]
<1>1. \A k \in 1..WordBits : More(k) \in Nat
  <2> SUFFICES ASSUME NEW k \in 1..WordBits PROVE More(k) \in Nat
    OBVIOUS
  <2>1. k - 1 \in Sizes
    BY SizesAre DEF Sizes
  <2>2. 2 ^ (k - 1) \in Nat
    BY <2>1, SizesAre
  <2>3. QED
    BY <2>2
<1>2. Or(a, b) = (CHOOSE h : Is(h))[WordBits]
  BY DEF Or
<1> HIDE DEF More
<1>3. \A k \in 1..WordBits : \A x \in Nat : F[k][x] = x + More(k) /\ F[k][x] \in Nat
  BY <1>1
<1> HIDE DEF F
<1>4. PICK g : Iterates(g, WordBits, 0, F) /\ \A k \in 0..WordBits : g[k] \in Nat
  <2>1. WordBits \in Nat /\ \A k \in 1..WordBits : \A x \in Nat : F[k][x] \in Nat
    BY <1>3, SizesAre
  <2>2. QED
    BY ONLY <2>1, Iterated
<1>5. g = [k \in 0..WordBits |-> IF k = 0 THEN 0 ELSE F[k][g[k - 1]]]
  BY <1>4 DEF Iterates
<1>6. ASSUME NEW k \in 0..WordBits, k # 0 PROVE F[k][g[k - 1]] = g[k - 1] + More(k)
  <2>1. k \in 1..WordBits /\ k - 1 \in 0..WordBits
    BY <1>6, SizesAre
  <2>2. QED
    BY <1>3, <1>4, <2>1
<1>7. Is(g)
  <2>1. g = [k \in 0..WordBits |-> IF k = 0 THEN 0 ELSE g[k - 1] + More(k)]
    BY <1>5, <1>6
  <2>2. QED
    BY <2>1 DEF Sizes
<1>8. PICK h : h = (CHOOSE f : Is(f)) /\ Is(h)
  <2> HIDE DEF Is
  <2> QED
    BY <1>7
<1>9. \A k \in 1..WordBits : h[k - 1] \in Nat => h[k] \in Nat
  <2> SUFFICES ASSUME NEW k \in 1..WordBits, h[k - 1] \in Nat PROVE h[k] \in Nat
    OBVIOUS
  <2>1. k \in Sizes /\ k # 0
    BY SizesAre DEF Sizes
  <2>2. h[k] = h[k - 1] + More(k)
    BY <1>8, <2>1
  <2>3. QED
    BY <1>1, <2>2
<1>10. h[0] \in Nat
  <2>1. 0 \in Sizes
    BY SizesAre DEF Sizes
  <2>2. QED
    BY <1>8, <2>1
<1>11. \A k \in 0..WordBits : h[k] \in Nat
  BY <1>9, <1>10, SizesAre, Stays
<1>12. QED
  BY <1>2, <1>8, <1>11, SizesAre

\* A multiple and a remainder.
LEMMA Rest ==
  ASSUME NEW m \in Nat \ {0}, NEW x \in Nat, NEW new \in Nat
  PROVE  /\ ((m * x) + (new % m)) \in Nat
         /\ (((m * x) + (new % m)) - new) % m = 0
<1> DEFINE q == new \div m
           r == new % m
<1>1. new = (m * q) + r /\ q \in Nat /\ r \in Nat
  OBVIOUS
<1> HIDE DEF q, r
<1>2. m * x \in Nat /\ ((m * x) + r) \in Nat
  BY <1>1
<1>3. ((m * x) + r) - new = m * (x - q) /\ x - q \in Int
  BY <1>1
<1>4. (m * (x - q)) % m = 0
  <2> DEFINE k == x - q
  <2>1. k \in Int
    BY <1>3
  <2> HIDE DEF k
  <2>2. (m * k) % m = 0
    BY <2>1
  <2>3. QED
    BY <2>2 DEF k
<1>5. QED
  BY <1>2, <1>3, <1>4 DEF r

Stamp == [bits : Sizes, value : Nat]

\* The new clock value has the low bits of the one that is visited, and is just
\* that if it has all bits.
LEMMA UpdatedClockIs ==
  ASSUME NEW val, NEW new \in Nat, NEW bits \in Sizes
  PROVE  /\ UpdatedClock(val, new, bits) \in Nat
         /\ bits = WordBits => UpdatedClock(val, new, bits) = new
         /\ (UpdatedClock(val, new, bits) - new) % 2 ^ bits = 0
<1> DEFINE m == 2 ^ bits
           carry == IF new < val % m THEN 1 ELSE 0
           x == Or(val \div m, Or(new \div m, carry))
<1>1. m \in Nat \ {0} /\ x \in Nat
  BY SizesAre, OrIs
<1>2. UpdatedClock(val, new, bits) = IF bits = WordBits THEN new ELSE (m * x) + (new % m)
  BY DEF UpdatedClock
<1> HIDE DEF x, m
<1>3. CASE bits = WordBits
  <2>1. (new - new) % m = 0
    BY <1>1
  <2>2. QED
    BY <1>2, <1>3, <2>1 DEF m
<1>4. CASE bits # WordBits
  <2>1. ((m * x) + (new % m)) \in Nat /\ (((m * x) + (new % m)) - new) % m = 0
    BY <1>1, Rest
  <2>2. QED
    BY <1>2, <1>4, <2>1 DEF m
<1>5. QED
  BY <1>3, <1>4

\* The clock after a field was visited is the one before, or has been updated by
\* the last of the clock values.
LEMMA VisitedClockIs ==
  ASSUME NEW val \in Nat, NEW stamps \in Seq(Stamp)
  PROVE  /\ VisitedClock(val, stamps) \in Nat
         /\ stamps = <<>> => VisitedClock(val, stamps) = val
         /\ stamps # <<>> =>
              /\ (VisitedClock(val, stamps) - Last(stamps).value) % 2 ^ Last(stamps).bits = 0
              /\ Last(stamps).bits = WordBits => VisitedClock(val, stamps) = Last(stamps).value
<1> DEFINE n == Len(stamps)
           Is(h) == h = [k \in 0..Len(stamps) |->
                          IF k = 0 THEN val
                          ELSE UpdatedClock(h[k - 1], stamps[k].value, stamps[k].bits)]
           F == [k \in 1..n |-> [x \in Nat |-> UpdatedClock(x, stamps[k].value, stamps[k].bits)]]
<1>1. n \in Nat /\ \A k \in 1..n : stamps[k].value \in Nat /\ stamps[k].bits \in Sizes
  <2>1. n \in Nat /\ \A k \in 1..n : stamps[k] \in Stamp
    OBVIOUS
  <2>2. QED
    BY <2>1 DEF Stamp
<1>2. VisitedClock(val, stamps) = (CHOOSE h : Is(h))[n]
  BY DEF VisitedClock
<1>3. \A k \in 1..n : \A x \in Nat :
        /\ F[k][x] = UpdatedClock(x, stamps[k].value, stamps[k].bits) /\ F[k][x] \in Nat
  BY <1>1, UpdatedClockIs
<1> HIDE DEF F
<1>4. PICK g : Iterates(g, n, val, F) /\ \A k \in 0..n : g[k] \in Nat
  BY <1>1, <1>3, Iterated
<1>5. g = [k \in 0..n |-> IF k = 0 THEN val ELSE F[k][g[k - 1]]]
  BY <1>4 DEF Iterates
<1>6. ASSUME NEW k \in 0..n, k # 0
      PROVE  F[k][g[k - 1]] = UpdatedClock(g[k - 1], stamps[k].value, stamps[k].bits)
  <2>1. k \in 1..n /\ k - 1 \in 0..n
    BY <1>1, <1>6
  <2>2. QED
    BY <1>3, <1>4, <2>1
<1>7. Is(g)
  BY <1>5, <1>6
<1>8. PICK h : h = (CHOOSE f : Is(f)) /\ Is(h)
  <2> HIDE DEF Is
  <2> QED
    BY <1>7
<1>9. h = [k \in 0..n |-> IF k = 0 THEN val
                          ELSE UpdatedClock(h[k - 1], stamps[k].value, stamps[k].bits)]
  BY <1>8
<1> HIDE DEF Is
<1>10. VisitedClock(val, stamps) = h[n]
  BY <1>2, <1>8
<1> HIDE DEF n
<1>11. h[0] = val
  BY <1>1, <1>9
<1>12. CASE n = 0
  <2>1. stamps = <<>>
    BY <1>12 DEF n
  <2>2. QED
    BY <1>10, <1>11, <1>12, <2>1
<1>13. CASE n # 0
  <2>1. n \in 1..n /\ n \in 0..n /\ stamps # <<>> /\ Last(stamps) = stamps[n]
    BY <1>1, <1>13 DEF n, Last
  <2>2. h[n] = UpdatedClock(h[n - 1], stamps[n].value, stamps[n].bits)
    BY <1>9, <1>13, <2>1
  <2>3. stamps[n].value \in Nat /\ stamps[n].bits \in Sizes
    BY <1>1, <2>1
  <2>4. QED
    BY <1>10, <2>1, <2>2, <2>3, UpdatedClockIs
<1>14. QED
  BY <1>12, <1>13

(***************************************************************************)
(* Trees of parts.                                                         *)
(***************************************************************************)

LEMMA OrderIs ==
  /\ Order \in Seq(Seq(Nat \ {0})) /\ Len(Order) \in Nat /\ DOMAIN Order = 1..Len(Order)
  /\ Places \subseteq Seq(Nat \ {0}) /\ <<>> \in Places
  /\ \A i \in 1..Len(Order) : Order[i] \in Places
<1>1. Order \in Seq(Seq(Nat \ {0})) /\ <<>> \in Places
  BY FieldsAssumption DEF OrderAssumption
<1>2. Len(Order) \in Nat /\ DOMAIN Order = 1..Len(Order)
  BY <1>1
<1>3. \A i \in 1..Len(Order) : Order[i] \in Seq(Nat \ {0})
  BY <1>1
<1>4. QED
  BY <1>1, <1>2, <1>3 DEF Places

LEMMA ShapeIs ==
  ASSUME NEW t \in DOMAIN Shape
  PROVE  /\ Shape[t].bits \in Sizes
         /\ Shape[t].members \in Seq(DOMAIN Shape)
         /\ DOMAIN Shape[t].names \subseteq DOMAIN Shape[t].members
         /\ t # "none"
BY FieldsAssumption DEF ShapeAssumption

LEMMA PartIs ==
  ASSUME NEW f, IsTree(f), NEW p \in DOMAIN f
  PROVE  /\ f[p] \in Part /\ f[p].type \in DOMAIN Shape /\ f[p].value \in Nat
         /\ f[p].length \in Nat /\ f[p].current \in Nat
         /\ f[p].set \in BOOLEAN /\ f[p].frozen \in BOOLEAN
         /\ BitsAt(f, p) \in Sizes /\ p \in Places /\ p \in Seq(Nat \ {0})
<1>1. f[p] \in Part /\ p \in Places
  BY DEF IsTree
<1>2. f[p].type \in DOMAIN Shape
  BY <1>1 DEF Part
<1>3. QED
  BY <1>1, <1>2, ShapeIs, OrderIs DEF Part, BitsAt

\* What is put together of sequences of the same things is one.
LEMMA FlattenTyped ==
  ASSUME NEW S, NEW q, Len(q) \in Nat, Len(q) = 0 => q = <<>>, \A i \in 1..Len(q) : q[i] \in Seq(S)
  PROVE  FlattenSeq(q) \in Seq(S)
<1>1. CASE Len(q) = 0
  <2>1. FlattenSeq(q) = <<>>
    BY <1>1 DEF FlattenSeq
  <2>2. QED
    BY <2>1
<1>2. CASE Len(q) # 0
  <2>1. PICK g : Joined(q, g, Len(q)) /\ FlattenSeq(q) = g[Len(q)]
    BY <1>2, FlattenIsJoined
  <2> DEFINE n == Len(q)
             T == {j \in Nat : j \in 1..n => g[j] \in Seq(S)}
  <2>2. 0 \in T
    OBVIOUS
  <2>3. ASSUME NEW j \in Nat, j \in T PROVE j + 1 \in T
    <3> SUFFICES ASSUME j + 1 \in 1..n PROVE g[j + 1] \in Seq(S)
      OBVIOUS
    <3>1. q[j + 1] \in Seq(S)
      OBVIOUS
    <3>2. g[j + 1] = IF j + 1 = 1 THEN q[j + 1] ELSE g[(j + 1) - 1] \o q[j + 1]
      BY <2>1 DEF Joined
    <3>3. CASE j = 0
      BY <3>1, <3>2, <3>3
    <3>4. CASE j # 0
      <4>1. (j + 1) - 1 = j /\ j \in 1..n /\ j + 1 # 1
        BY <3>4
      <4>2. g[j] \in Seq(S) /\ g[j + 1] = g[j] \o q[j + 1]
        BY <2>3, <3>2, <4>1
      <4>3. QED
        BY <3>1, <4>2, ConcatProperties
    <3>5. QED
      BY <3>3, <3>4
  <2>4. Nat \subseteq T
    <3> HIDE DEF T
    <3> QED
      BY <2>2, <2>3, HasEveryNumber
  <2>5. n \in T /\ n \in 1..n
    <3> HIDE DEF T
    <3> QED
      BY <1>2, <2>4
  <2>6. QED
    BY <2>1, <2>5
<1>3. QED
  BY <1>1, <1>2

LEMMA FlattenOf ==
  ASSUME NEW S, NEW q, NEW n \in Nat, q = [i \in 1..n |-> q[i]], \A i \in 1..n : q[i] \in Seq(S)
  PROVE  FlattenSeq(q) \in Seq(S)
<1>1. q \in Seq({q[i] : i \in DOMAIN q}) /\ Len(q) = n
  BY SequenceOf
<1>2. Len(q) = 0 => q = <<>>
  BY <1>1, EmptySeq
<1>3. Len(q) \in Nat /\ \A i \in 1..Len(q) : q[i] \in Seq(S)
  BY <1>1
<1>4. QED
  BY ONLY <1>2, <1>3, FlattenTyped

LEMMA StampsAre ==
  ASSUME NEW f, IsTree(f), NEW places
  PROVE  Stamps(f, places) \in Seq(Stamp)
<1> DEFINE Of(p) ==
             IF /\ p \in DOMAIN f \cap places
                /\ ClassAt(f, p) = "integer" /\ Shape[f[p].type].clocked
                /\ Chosen(f, p) /\ Inside(f, p)
             THEN <<[bits |-> BitsAt(f, p), value |-> f[p].value]>> ELSE <<>>
           q == [i \in DOMAIN Order |-> Of(Order[i])]
<1>1. Stamps(f, places) = FlattenSeq(q)
  BY DEF Stamps
<1>2. ASSUME NEW p PROVE Of(p) \in Seq(Stamp)
  <2>1. CASE p \in DOMAIN f
    <3>1. [bits |-> BitsAt(f, p), value |-> f[p].value] \in Stamp
      BY <2>1, PartIs DEF Stamp
    <3>2. QED
      BY <3>1
  <2>2. CASE p \notin DOMAIN f
    BY <2>2
  <2>3. QED
    BY <2>1, <2>2
<1> HIDE DEF Of
<1>3. q = [i \in 1..Len(Order) |-> q[i]] /\ \A i \in 1..Len(Order) : q[i] \in Seq(Stamp)
  BY <1>2, OrderIs
<1> HIDE DEF q
<1>4. QED
  BY <1>1, <1>3, OrderIs, FlattenOf

(***************************************************************************)
(* What the serializer has written.                                        *)
(***************************************************************************)

Writings(fails) ==
  [bits : Nat, calls : Nat, fails : {fails}, failed : BOOLEAN, ok : BOOLEAN]

LEMMA CallWrites ==
  ASSUME NEW fails, NEW w \in Writings(fails), NEW b \in Nat
  PROVE  Call(w, b) \in Writings(fails)
BY DEF Writings, Call

LEMMA PartIsWritten ==
  ASSUME NEW fails, NEW w \in Writings(fails), NEW f, IsTree(f), NEW p \in DOMAIN f
  PROVE  WrittenPart(f, p, w) \in Writings(fails)
<1>1. BitsAt(f, p) \in Nat
  BY PartIs DEF Sizes
<1>2. Call(w, BitsAt(f, p)) \in Writings(fails) /\ Call(w, 0) \in Writings(fails)
  BY <1>1, CallWrites
<1>3. QED
  BY <1>2 DEF WrittenPart

LEMMA SerializeWrites ==
  ASSUME NEW fails, NEW w \in Writings(fails), NEW f, IsTree(f)
  PROVE  Serialize(f, w) \in Writings(fails)
<1> DEFINE n == Len(Order)
           Loops(p) == {q \in Above(f, p) : ClassAt(f, q) = "structure"}
           Innermost(qs) == {q \in qs : \A r \in qs : Len(r) <= Len(q)}
           Skips(done, p) ==
             \/ p \notin DOMAIN f \/ ~Chosen(f, p)
             \/ ~done.w.ok
             \/ \E q \in done.left : IsStrictPrefix(q, p)
           Step(done, p, v) ==
             IF v.ok THEN [done EXCEPT !.w = v]
             ELSE [w |-> [v EXCEPT !.ok = Loops(p) # {}], left |-> Innermost(Loops(p))]
           More(done, p) == IF Skips(done, p) THEN done ELSE Step(done, p, WrittenPart(f, p, done.w))
           none == [w |-> w, left |-> {}]
           X == [w : Writings(fails), left : SUBSET DOMAIN f]
           Is(h) == h = [k \in 0..Len(Order) |-> IF k = 0 THEN none ELSE More(h[k - 1], Order[k])]
           F == [k \in 1..n |-> [x \in X |-> More(x, Order[k])]]
<1>1. Serialize(f, w) = (CHOOSE h : Is(h))[n].w
  BY DEF Serialize
<1>2. ASSUME NEW x \in X, NEW p PROVE More(x, p) \in X
  <2>1. CASE Skips(x, p)
    BY <2>1
  <2>2. CASE ~Skips(x, p)
    <3> DEFINE v == WrittenPart(f, p, x.w)
    <3>1. p \in DOMAIN f
      BY <2>2
    <3>2. v \in Writings(fails)
      BY <3>1, PartIsWritten
    <3>3. More(x, p) = Step(x, p, v)
      BY <2>2
    <3> HIDE DEF v, Skips
    <3>4. Innermost(Loops(p)) \subseteq DOMAIN f
      BY DEF Above
    <3> DEFINE left == Innermost(Loops(p))
               ok == Loops(p) # {}
    <3>5. left \in SUBSET DOMAIN f /\ ok \in BOOLEAN
      BY <3>4
    <3>6. Step(x, p, v) = IF v.ok THEN [x EXCEPT !.w = v] ELSE [w |-> [v EXCEPT !.ok = ok], left |-> left]
      OBVIOUS
    <3> HIDE DEF left, ok, Step, More
    <3>7. [v EXCEPT !.ok = ok] \in Writings(fails)
      BY <3>2, <3>5 DEF Writings
    <3>8. [x EXCEPT !.w = v] \in X /\ [w |-> [v EXCEPT !.ok = ok], left |-> left] \in X
      BY <3>2, <3>5, <3>7
    <3>9. QED
      BY <3>3, <3>6, <3>8
  <2>3. QED
    BY <2>1, <2>2
<1>3. none \in X
  OBVIOUS
<1> HIDE DEF X, More, none
<1>4. \A k \in 1..n : \A x \in X : F[k][x] = More(x, Order[k]) /\ F[k][x] \in X
  BY <1>2
<1> HIDE DEF F
<1>5. n \in Nat
  BY OrderIs
<1>6. PICK g : Iterates(g, n, none, F) /\ \A k \in 0..n : g[k] \in X
  <2>1. \A k \in 1..n : \A x \in X : F[k][x] \in X
    BY <1>4
  <2>2. QED
    BY ONLY <1>3, <1>5, <2>1, Iterated
<1>7. g = [k \in 0..n |-> IF k = 0 THEN none ELSE F[k][g[k - 1]]]
  BY <1>6 DEF Iterates
<1>8. ASSUME NEW k \in 0..n, k # 0 PROVE F[k][g[k - 1]] = More(g[k - 1], Order[k])
  <2>1. k \in 1..n /\ k - 1 \in 0..n
    BY <1>5, <1>8
  <2>2. QED
    BY <1>4, <1>6, <2>1
<1>9. Is(g)
  BY <1>7, <1>8
<1>10. PICK h : h = (CHOOSE i : Is(i)) /\ Is(h)
  <2> HIDE DEF Is
  <2> QED
    BY <1>9
<1>11. h[0] \in X /\ \A k \in 1..n : h[k - 1] \in X => h[k] \in X
  <2>1. h[0] = none /\ \A k \in 1..n : h[k] = More(h[k - 1], Order[k])
    <3>1. h = [k \in 0..n |-> IF k = 0 THEN none ELSE More(h[k - 1], Order[k])]
      BY <1>10
    <3>2. 0 \in 0..n /\ \A k \in 1..n : k \in 0..n /\ k # 0
      BY <1>5
    <3> HIDE DEF Is
    <3>3. QED
      BY <3>1, <3>2
  <2>2. QED
    BY <1>2, <1>3, <2>1
<1>12. h[n] \in X
  <2>1. \A k \in 0..n : h[k] \in X
    BY ONLY <1>5, <1>11, Stays
  <2>2. QED
    BY <1>5, <2>1
<1>13. h[n].w \in Writings(fails)
  BY <1>12 DEF X
<1> HIDE DEF Is
<1>14. QED
  BY <1>1, <1>10, <1>13

(***************************************************************************)
(* The events that are written.                                            *)
(***************************************************************************)

\* The fields of the events have the shape of trees.
HaveTrees(es) ==
  \A i \in DOMAIN es : \A x \in DOMAIN Scopes : IsTree(event[es[i]].fields[Scopes[x]])

LEMMA ScopesAre ==
  /\ DOMAIN Scopes = {1, 2, 3, 4} /\ DOMAIN Scopes = 1..4
  /\ Scopes[1] = "header" /\ Scopes[2] = "streamContext"
  /\ Scopes[3] = "context" /\ Scopes[4] = "payload"
BY DEF Scopes

LEMMA EventWrites ==
  ASSUME NEW fails, NEW w \in Writings(fails), NEW e,
         \A x \in DOMAIN Scopes : IsTree(event[e].fields[Scopes[x]])
  PROVE  WrittenEvent(w, e) \in Writings(fails)
<1> DEFINE fields == event[e].fields
<1>1. IsTree(fields["header"]) /\ IsTree(fields["streamContext"])
      /\ IsTree(fields["context"]) /\ IsTree(fields["payload"])
  BY ScopesAre
<1> DEFINE a == Serialize(fields["header"], w)
           b == Serialize(fields["streamContext"], a)
           c == Serialize(fields["context"], b)
<1>2. a \in Writings(fails)
  BY <1>1, SerializeWrites
<1> HIDE DEF a
<1>3. b \in Writings(fails)
  BY <1>1, <1>2, SerializeWrites
<1> HIDE DEF b
<1>4. c \in Writings(fails)
  BY <1>1, <1>3, SerializeWrites
<1> HIDE DEF c
<1>5. Serialize(fields["payload"], c) \in Writings(fails)
  BY <1>1, <1>4, SerializeWrites
<1>6. WrittenEvent(w, e) = Serialize(fields["payload"], c)
  BY DEF WrittenEvent, a, b, c
<1>7. QED
  BY <1>5, <1>6

LEMMA EventsWrite ==
  ASSUME NEW fails, NEW w \in Writings(fails), NEW es, Len(es) \in Nat, DOMAIN es = 1..Len(es),
         HaveTrees(es)
  PROVE  WrittenEvents(w, es) \in Writings(fails)
<1> DEFINE n == Len(es)
           X == Writings(fails)
           Is(h) == h = [k \in 0..Len(es) |-> IF k = 0 THEN w ELSE WrittenEvent(h[k - 1], es[k])]
           F == [k \in 1..n |-> [x \in X |-> WrittenEvent(x, es[k])]]
<1>1. WrittenEvents(w, es) = (CHOOSE h : Is(h))[n]
  BY DEF WrittenEvents
<1>2. ASSUME NEW x \in X, NEW k \in 1..n PROVE WrittenEvent(x, es[k]) \in X
  BY EventWrites DEF HaveTrees
<1>3. w \in X /\ n \in Nat
  OBVIOUS
<1> HIDE DEF X
<1>4. \A k \in 1..n : \A x \in X : F[k][x] = WrittenEvent(x, es[k]) /\ F[k][x] \in X
  BY <1>2
<1> HIDE DEF F
<1>5. PICK g : Iterates(g, n, w, F) /\ \A k \in 0..n : g[k] \in X
  <2>1. \A k \in 1..n : \A x \in X : F[k][x] \in X
    BY <1>4
  <2>2. QED
    BY ONLY <1>3, <2>1, Iterated
<1>6. g = [k \in 0..n |-> IF k = 0 THEN w ELSE F[k][g[k - 1]]]
  BY <1>5 DEF Iterates
<1>7. ASSUME NEW k \in 0..n, k # 0 PROVE F[k][g[k - 1]] = WrittenEvent(g[k - 1], es[k])
  <2>1. k \in 1..n /\ k - 1 \in 0..n
    BY <1>3, <1>7
  <2>2. QED
    BY <1>4, <1>5, <2>1
<1>8. Is(g)
  BY <1>6, <1>7
<1>9. PICK h : h = (CHOOSE i : Is(i)) /\ Is(h)
  <2> HIDE DEF Is
  <2> QED
    BY <1>8
<1>10. h[0] = w /\ \A k \in 1..n : h[k] = WrittenEvent(h[k - 1], es[k])
  <2>1. h = [k \in 0..n |-> IF k = 0 THEN w ELSE WrittenEvent(h[k - 1], es[k])]
    BY <1>9
  <2>2. 0 \in 0..n /\ \A k \in 1..n : k \in 0..n /\ k # 0
    BY <1>3
  <2> HIDE DEF Is
  <2>3. QED
    BY <2>1, <2>2
<1> HIDE DEF Is
<1>11. h[0] \in X /\ \A k \in 1..n : h[k - 1] \in X => h[k] \in X
  BY <1>2, <1>3, <1>10
<1>12. h[n] \in X
  <2>1. \A k \in 0..n : h[k] \in X
    BY ONLY <1>3, <1>11, Stays
  <2>2. QED
    BY <1>3, <2>1
<1>13. QED
  BY <1>1, <1>9, <1>12 DEF X

(***************************************************************************)
(* New fields.                                                             *)
(***************************************************************************)

LEMMA NewIsPart ==
  ASSUME NEW t \in DOMAIN Shape
  PROVE  New(t) \in Part /\ New(t).type = t
BY DEF New, Part

LEMMA CreateIsTree ==
  ASSUME NEW t
  PROVE  IsTree(Create(t)) /\ \A p \in DOMAIN Create(t) : Create(t)[p].type = TypeAt(t, p)
<1> DEFINE c == Create(t)
           places == {q \in Places : TypeAt(t, q) \in DOMAIN Shape}
<1>1. c = [p \in places |-> New(TypeAt(t, p))]
  BY DEF Create
<1>2. \A p \in places : New(TypeAt(t, p)) \in Part /\ New(TypeAt(t, p)).type = TypeAt(t, p)
  BY NewIsPart
<1> HIDE DEF c
<1>3. DOMAIN c = places /\ c \in [places -> Part] /\ \A p \in places : c[p].type = TypeAt(t, p)
  BY <1>1, <1>2
<1>4. IsTree(c)
  BY <1>3 DEF IsTree
<1>5. QED
  BY <1>3, <1>4 DEF c

\* A new field has its type at the root, and the members of its type.
LEMMA CreateIs ==
  ASSUME NEW t \in AnyType
  PROVE  /\ IsField(Create(t)) <=> t \in DOMAIN Shape
         /\ IsField(Create(t)) =>
              /\ Create(t)[<<>>].type = t
              /\ \A i \in DOMAIN Shape[t].members : <<i>> \in DOMAIN Create(t)
<1>1. TypeAt(t, <<>>) = t
  <2>1. Len(<<>>) \in Nat /\ Len(<<>>) = 0
    OBVIOUS
  <2>2. PICK g : /\ g = [k \in 0..Len(<<>>) |-> IF k = 0 THEN t ELSE TypeStep(<<>>, g[k - 1], k)]
                 /\ TypeAt(t, <<>>) = g[Len(<<>>)]
    BY <2>1, TypeAtIs
  <2>3. g[0] = t
    BY <2>1, <2>2
  <2>4. QED
    BY <2>1, <2>2, <2>3
<1>2. IsField(Create(t)) <=> t \in DOMAIN Shape
  BY <1>1, OrderIs DEF IsField, Create
<1> SUFFICES ASSUME IsField(Create(t))
             PROVE  /\ Create(t)[<<>>].type = t
                    /\ \A i \in DOMAIN Shape[t].members : <<i>> \in DOMAIN Create(t)
  BY <1>2
<1>3. Create(t)[<<>>].type = t
  BY <1>1, CreateIsTree DEF IsField
<1>4. ASSUME NEW i \in DOMAIN Shape[t].members PROVE <<i>> \in DOMAIN Create(t)
  <2>1. t \in DOMAIN Shape /\ Shape[t].members \in Seq(DOMAIN Shape)
    BY <1>2, ShapeIs
  <2> DEFINE ms == Shape[t].members
  <2>2. ms[i] \in DOMAIN Shape
    <3>1. ms \in Seq(DOMAIN Shape) /\ i \in DOMAIN ms
      BY <2>1
    <3> HIDE DEF ms
    <3>2. QED
      BY <3>1
  <2>3. Append(<<>>, i) \in Places
    <3>1. TypeAt(t, <<>>) \in DOMAIN Shape /\ i \in DOMAIN Shape[TypeAt(t, <<>>)].members
      BY <1>1, <2>1
    <3>2. QED
      BY <2>1, <3>1, OrderIs, FieldsAssumption DEF OrderAssumption
  <2>4. Append(<<>>, i) = <<i>>
    OBVIOUS
  <2>5. TypeAt(t, <<i>>) = ms[i]
    <3> DEFINE p == <<i>>
    <3>1. Len(p) = 1 /\ p[1] = i
      OBVIOUS
    <3> HIDE DEF p
    <3>2. PICK g : /\ g = [k \in 0..Len(p) |-> IF k = 0 THEN t ELSE TypeStep(p, g[k - 1], k)]
                   /\ TypeAt(t, p) = g[Len(p)]
      BY <3>1, TypeAtIs
    <3>3. g[0] = t /\ g[1] = TypeStep(p, g[0], 1)
      <4>1. g = [k \in 0..1 |-> IF k = 0 THEN t ELSE TypeStep(p, g[k - 1], k)]
        BY <3>1, <3>2
      <4>2. 0 \in 0..1 /\ 1 \in 0..1 /\ 1 - 1 = 0 /\ 1 # 0
        OBVIOUS
      <4>3. QED
        BY <4>1, <4>2
    <3>4. TypeStep(p, t, 1) = ms[i]
      BY <2>1, <3>1 DEF TypeStep
    <3>5. QED
      BY <3>1, <3>2, <3>3, <3>4 DEF p
  <2>6. QED
    BY <2>2, <2>3, <2>4, <2>5 DEF Create
<1>5. QED
  BY <1>3, <1>4

(***************************************************************************)
(* Packet contexts.                                                        *)
(***************************************************************************)

LEMMA ContextIsTree ==
  ASSUME NEW f, IsContext(f)
  PROVE  IsTree(f) /\ DOMAIN f = DOMAIN Create(layout.packetContext)
<1>1. IsTree(Create(layout.packetContext))
  BY CreateIsTree
<1>2. DOMAIN f = DOMAIN Create(layout.packetContext)
  BY DEF IsContext
<1>3. QED
  BY <1>1, <1>2 DEF IsTree, IsContext

\* The members of a packet context are there, each in its place.
LEMMA ContextHas ==
  ASSUME IsLayout(layout), NEW f, IsContext(f), NEW name, HasMember(f, name)
  PROVE  /\ Place(f, name) \in DOMAIN f
         /\ \E i \in DOMAIN NamesOf(f) : Place(f, name) = <<i>> /\ NamesOf(f)[i] = name
<1> DEFINE t == layout.packetContext
           i == CHOOSE j \in DOMAIN NamesOf(f) : NamesOf(f)[j] = name
<1>1. t \in AnyType
  BY DEF IsLayout
<1>2. DOMAIN f = DOMAIN Create(t) /\ <<>> \in DOMAIN f /\ f[<<>>].type = Create(t)[<<>>].type
  BY ContextIsTree DEF IsContext, HasMember, IsField
<1>3. t \in DOMAIN Shape /\ f[<<>>].type = t
  BY <1>1, <1>2, CreateIs DEF IsField
<1>4. i \in DOMAIN NamesOf(f) /\ NamesOf(f)[i] = name /\ Place(f, name) = <<i>>
  BY DEF HasMember, Place
<1> HIDE DEF i
<1>5. i \in DOMAIN Shape[t].members
  BY <1>3, <1>4, ShapeIs DEF NamesOf
<1>6. <<i>> \in DOMAIN f
  BY <1>1, <1>2, <1>5, CreateIs DEF IsField
<1>7. QED
  BY <1>4, <1>6

\* Other members have other places.
LEMMA PlacesDiffer ==
  ASSUME IsLayout(layout), NEW f, IsContext(f), NEW a, NEW b, a # b,
         HasMember(f, a), HasMember(f, b)
  PROVE  Place(f, a) # Place(f, b)
<1>1. PICK i : Place(f, a) = <<i>> /\ NamesOf(f)[i] = a
  BY ContextHas
<1>2. PICK j : Place(f, b) = <<j>> /\ NamesOf(f)[j] = b
  BY ContextHas
<1>3. <<i>> = <<j>> => i = j
  OBVIOUS
<1>4. QED
  BY <1>1, <1>2, <1>3

\* Two packet contexts have the same members.
LEMMA ContextsAgree ==
  ASSUME NEW f, NEW g, IsContext(f), IsContext(g)
  PROVE  /\ DOMAIN g = DOMAIN f /\ (IsField(g) <=> IsField(f))
         /\ IsField(f) => NamesOf(g) = NamesOf(f)
         /\ \A name : /\ HasMember(g, name) <=> HasMember(f, name)
                      /\ HasMember(f, name) => Place(g, name) = Place(f, name)
         /\ \A p \in DOMAIN f : g[p].type = f[p].type /\ BitsAt(g, p) = BitsAt(f, p)
<1>1. DOMAIN g = DOMAIN f /\ \A p \in DOMAIN f : g[p].type = f[p].type
  BY DEF IsContext
<1>2. IsField(g) <=> IsField(f)
  BY <1>1 DEF IsField
<1>3. IsField(f) => NamesOf(g) = NamesOf(f)
  BY <1>1 DEF IsField, NamesOf
<1>4. \A name : HasMember(g, name) <=> HasMember(f, name)
  BY <1>2, <1>3 DEF HasMember
<1>5. \A name : HasMember(f, name) => Place(g, name) = Place(f, name)
  BY <1>3 DEF HasMember, Place
<1>6. \A p \in DOMAIN f : BitsAt(g, p) = BitsAt(f, p)
  BY <1>1 DEF BitsAt
<1>7. QED
  BY <1>1, <1>2, <1>3, <1>4, <1>5, <1>6

(***************************************************************************)
(* Members that are given.                                                 *)
(***************************************************************************)

LEMMA GivenIs ==
  ASSUME dev \in BOOLEAN, NEW part \in Part, NEW v \in Nat
  PROVE  /\ Given(dev, part, v) \in Part /\ Given(dev, part, v).type = part.type
         /\ Given(dev, part, v).value = v /\ Given(dev, part, v).set = dev
         /\ Given(dev, part, v).frozen = part.frozen /\ Given(dev, part, v).current = part.current
         /\ Given(dev, part, v).length = part.length
BY DEF Given, Part

\* A member that is given in a packet context has its value; the others keep theirs.
LEMMA GiveMemberIs ==
  ASSUME dev \in BOOLEAN, IsLayout(layout), NEW f, IsContext(f), NEW name, NEW v \in Nat
  PROVE  /\ IsContext(GiveMember(dev, f, name, v))
         /\ HasMember(f, name) => Member(GiveMember(dev, f, name, v), name).value = v
         /\ \A x : x # name /\ HasMember(f, x) =>
               Member(GiveMember(dev, f, name, v), x) = Member(f, x)
<1> DEFINE g == GiveMember(dev, f, name, v)
<1>1. CASE ~HasMember(f, name)
  BY <1>1 DEF GiveMember
<1>2. CASE HasMember(f, name)
  <2> DEFINE p == Place(f, name)
             C == Create(layout.packetContext)
  <2>1. p \in DOMAIN f /\ g = [f EXCEPT ![p] = Given(dev, f[p], v)]
    BY <1>2, ContextHas DEF GiveMember
  <2>2. f \in [DOMAIN C -> Part] /\ \A q \in DOMAIN C : f[q].type = C[q].type
    BY DEF IsContext
  <2> HIDE DEF p, g, C
  <2>3. f[p] \in Part
    BY <2>1, <2>2
  <2>4. /\ Given(dev, f[p], v) \in Part /\ Given(dev, f[p], v).type = f[p].type
        /\ Given(dev, f[p], v).value = v
    BY <2>3, GivenIs
  <2>5. /\ g \in [DOMAIN C -> Part] /\ g[p].value = v
        /\ \A q \in DOMAIN f : q # p => g[q] = f[q]
        /\ \A q \in DOMAIN C : g[q].type = C[q].type
    BY <2>1, <2>2, <2>4
  <2>6. IsContext(g)
    BY <2>5 DEF IsContext, C
  <2>7. \A x : HasMember(f, x) => Place(g, x) = Place(f, x)
    BY <2>6, ContextsAgree
  <2>8. Member(g, name).value = v
    BY <1>2, <2>5, <2>7 DEF Member, p
  <2>9. ASSUME NEW x, x # name, HasMember(f, x) PROVE Member(g, x) = Member(f, x)
    <3>1. Place(f, x) \in DOMAIN f /\ Place(f, x) # p
      BY <1>2, <2>9, ContextHas, PlacesDiffer DEF p
    <3>2. QED
      BY <2>5, <2>7, <2>9, <3>1 DEF Member
  <2>10. QED
    BY <2>6, <2>8, <2>9 DEF g
<1>3. QED
  BY <1>1, <1>2

LEMMA GiveMemberKeepsTree ==
  ASSUME dev \in BOOLEAN, NEW f, IsTree(f), NEW name, NEW v \in Nat
  PROVE  IsTree(GiveMember(dev, f, name, v))
<1> DEFINE p == Place(f, name)
           g == [f EXCEPT ![p] = Given(dev, f[p], v)]
<1>1. CASE p \in DOMAIN f
  <2>1. f[p] \in Part /\ f \in [DOMAIN f -> Part] /\ DOMAIN f \subseteq Places
    BY <1>1 DEF IsTree
  <2>2. Given(dev, f[p], v) \in Part
    BY <2>1, GivenIs
  <2> HIDE DEF p
  <2>3. DOMAIN g = DOMAIN f /\ g \in [DOMAIN f -> Part]
    BY <2>1, <2>2
  <2>4. QED
    BY <2>1, <2>3 DEF IsTree, GiveMember, p
<1>2. CASE p \notin DOMAIN f
  <2>1. f = [q \in DOMAIN f |-> f[q]]
    BY DEF IsTree
  <2> HIDE DEF p
  <2>2. g = f
    BY <1>2, <2>1
  <2>3. QED
    BY <2>2 DEF GiveMember, p
<1>3. QED
  BY <1>1, <1>2

LEMMA ResetIs ==
  ASSUME NEW f, IsContext(f)
  PROVE  IsContext(WithReset(f))
<1> DEFINE reset == {Place(f, name) : name \in {x \in ResetNames : HasMember(f, x)}}
           g == [p \in DOMAIN f |-> [f[p] EXCEPT !.set = @ /\ p \notin reset]]
           C == Create(layout.packetContext)
<1>1. WithReset(f) = IF dev THEN g ELSE f
  BY DEF WithReset
<1>2. f \in [DOMAIN C -> Part] /\ \A q \in DOMAIN C : f[q].type = C[q].type
  BY DEF IsContext
<1> HIDE DEF reset
<1>3. ASSUME NEW p \in DOMAIN f PROVE g[p] \in Part /\ g[p].type = f[p].type
  <2> DEFINE part == f[p]
             out == p \notin reset
  <2>1. part \in Part /\ out \in BOOLEAN
    BY <1>2
  <2>2. g[p] = [part EXCEPT !.set = @ /\ out]
    OBVIOUS
  <2> HIDE DEF part, out, g
  <2>3. [part EXCEPT !.set = @ /\ out] \in Part /\ [part EXCEPT !.set = @ /\ out].type = part.type
    BY <2>1 DEF Part
  <2>4. QED
    BY <2>2, <2>3 DEF part
<1>4. DOMAIN g = DOMAIN f /\ g \in [DOMAIN C -> Part] /\ \A q \in DOMAIN C : g[q].type = C[q].type
  <2>1. DOMAIN g = DOMAIN f /\ DOMAIN f = DOMAIN C /\ g = [p \in DOMAIN f |-> g[p]]
    BY <1>2
  <2> HIDE DEF g, C
  <2>2. QED
    BY <1>2, <1>3, <2>1
<1> HIDE DEF g
<1>5. IsContext(g)
  BY <1>4 DEF IsContext
<1>6. QED
  BY <1>1, <1>5

(***************************************************************************)
(* A stream through a flush.                                               *)
(***************************************************************************)

IsRecord(st) == DOMAIN st = StreamParts /\ IsFilled(st)

\* What a step of a flush keeps of a stream, beside its context.
Same(a, b) ==
  /\ b.made = a.made /\ b.id = a.id /\ b.classId = a.classId /\ b.count = a.count
  /\ b.pending = a.pending /\ b.file = a.file /\ b.appended = a.appended

LEMMA RecordIs ==
  ASSUME NEW st, IsRecord(st)
  PROVE  /\ IsContext(st.context) /\ IsTree(st.header)
         /\ st.classId \in Nat /\ st.lastEnd \in Nat /\ st.discarded \in Nat /\ st.begin \in Nat
BY DEF IsRecord, IsFilled

\* Another context, other times and another count make a stream, too.
LEMMA RecordStays ==
  ASSUME NEW st, IsRecord(st), NEW z, DOMAIN z = StreamParts, Same(st, z), z.header = st.header,
         IsContext(z.context), z.lastEnd \in Nat, z.discarded \in Nat, z.begin \in Nat
  PROVE  IsRecord(z)
BY RecordIs DEF IsFilled, IsRecord, Same

LEMMA WithSizesIs ==
  ASSUME dev \in BOOLEAN, IsLayout(layout), NEW st, IsRecord(st), NEW size \in Nat, NEW content \in Nat
  PROVE  LET z == WithSizes(st, size, content)
         IN /\ IsRecord(z) /\ Same(st, z) /\ z.ok = st.ok
            /\ z.lastEnd = st.lastEnd /\ z.discarded = st.discarded /\ z.begin = st.begin
            /\ HasMember(st.context, "packet_size") => Member(z.context, "packet_size").value = size
            /\ HasMember(st.context, "content_size") => Member(z.context, "content_size").value = content
            /\ \A x : x \notin {"packet_size", "content_size"} /\ HasMember(st.context, x) =>
                  Member(z.context, x) = Member(st.context, x)
<1> DEFINE f == st.context
           g == GiveMember(dev, f, "packet_size", size)
           h == GiveMember(dev, g, "content_size", content)
           z == WithSizes(st, size, content)
<1>1. z = [st EXCEPT !.context = h]
  BY DEF WithSizes
<1>2. IsContext(f)
  BY RecordIs
<1> HIDE DEF f
<1>3. /\ IsContext(g)
      /\ HasMember(f, "packet_size") => Member(g, "packet_size").value = size
      /\ \A x : x # "packet_size" /\ HasMember(f, x) => Member(g, x) = Member(f, x)
  BY <1>2, GiveMemberIs
<1>4. \A x : HasMember(g, x) <=> HasMember(f, x)
  BY <1>2, <1>3, ContextsAgree
<1> HIDE DEF g
<1>5. /\ IsContext(h)
      /\ HasMember(g, "content_size") => Member(h, "content_size").value = content
      /\ \A x : x # "content_size" /\ HasMember(g, x) => Member(h, x) = Member(g, x)
  BY <1>3, GiveMemberIs
<1> HIDE DEF h
<1>6. /\ DOMAIN z = StreamParts /\ Same(st, z) /\ z.ok = st.ok /\ z.context = h
      /\ z.lastEnd = st.lastEnd /\ z.discarded = st.discarded /\ z.begin = st.begin
      /\ z.header = st.header
  <2>1. DOMAIN st = StreamParts
    BY DEF IsRecord
  <2> HIDE DEF z
  <2>2. QED
    BY <1>1, <2>1 DEF StreamParts, Same
<1> HIDE DEF z
<1>7. IsRecord(z)
  BY <1>5, <1>6, RecordIs, RecordStays
<1>8. QED
  BY <1>3, <1>4, <1>5, <1>6, <1>7 DEF z, f

LEMMA BlankIs ==
  ASSUME dev \in BOOLEAN, IsLayout(layout), NEW st, IsRecord(st)
  PROVE  LET z == Blank(st)
         IN /\ IsRecord(z) /\ Same(st, z) /\ z.ok = st.ok
            /\ z.lastEnd = st.lastEnd /\ z.discarded = st.discarded /\ z.begin = st.begin
            /\ \A x : x \notin {"packet_size", "content_size"} /\ HasMember(st.context, x) =>
                  Member(z.context, x) = Member(st.context, x)
<1> DEFINE y == [st EXCEPT !.header = PopulateHeader(@, st.classId)]
<1>1. DOMAIN st = StreamParts
  BY DEF IsRecord
<1>2. /\ DOMAIN y = StreamParts /\ Same(st, y) /\ y.ok = st.ok /\ y.context = st.context
      /\ y.lastEnd = st.lastEnd /\ y.discarded = st.discarded /\ y.begin = st.begin
      /\ y.header = PopulateHeader(st.header, st.classId)
  BY <1>1 DEF StreamParts, Same
<1>3. Blank(st) = WithSizes(y, 0, 0)
  BY DEF Blank
<1> HIDE DEF y
<1>4. IsTree(y.header)
  <2> DEFINE g == GiveMember(dev, st.header, "magic", 1)
  <2>1. IsTree(g)
    BY RecordIs, GiveMemberKeepsTree
  <2> HIDE DEF g
  <2>2. IsTree(GiveMember(dev, g, "stream_id", st.classId))
    BY <2>1, RecordIs, GiveMemberKeepsTree
  <2>3. QED
    BY <1>2, <2>2 DEF PopulateHeader, g
<1>5. IsRecord(y)
  BY <1>2, <1>4, RecordIs DEF IsRecord, IsFilled, Same
<1> DEFINE z == WithSizes(y, 0, 0)
<1>6. /\ IsRecord(z) /\ Same(y, z) /\ z.ok = y.ok
      /\ z.lastEnd = y.lastEnd /\ z.discarded = y.discarded /\ z.begin = y.begin
      /\ \A x : x \notin {"packet_size", "content_size"} /\ HasMember(y.context, x) =>
            Member(z.context, x) = Member(y.context, x)
  <2>1. 0 \in Nat
    OBVIOUS
  <2>2. QED
    BY <1>5, <2>1, WithSizesIs, Zenon
<1> HIDE DEF z
<1>7. Same(st, z)
  BY <1>2, <1>6 DEF Same
<1>8. QED
  BY <1>2, <1>3, <1>6, <1>7 DEF z

LEMMA WithDiscardedIs ==
  ASSUME dev \in BOOLEAN, IsLayout(layout), NEW st, IsRecord(st)
  PROVE  LET z == WithDiscarded(st)
         IN /\ IsRecord(z) /\ Same(st, z) /\ z.ok = st.ok
            /\ z.lastEnd = st.lastEnd /\ z.begin = st.begin
            /\ z.discarded >= st.discarded
            /\ ~dev /\ HasMember(st.context, "events_discarded") =>
                  Member(z.context, "events_discarded").value = z.discarded
            /\ \A x : x # "events_discarded" /\ HasMember(st.context, x) =>
                  Member(z.context, x) = Member(st.context, x)
<1> DEFINE f == st.context
           name == "events_discarded"
           g == GiveMember(dev, f, name, st.discarded)
           given == Member(f, name).value
           y == [st EXCEPT !.context = g]
           x == [st EXCEPT !.discarded = given]
           z == WithDiscarded(st)
<1>1. DOMAIN st = StreamParts /\ IsContext(f)
  BY RecordIs DEF IsRecord
<1>2. z = IF ~GivenMember(f, name) THEN y ELSE IF given < st.discarded THEN st ELSE x
  BY DEF WithDiscarded
<1>3. CASE ~GivenMember(f, name)
  <2>1. /\ IsContext(g)
        /\ HasMember(f, name) => Member(g, name).value = st.discarded
        /\ \A k : k # name /\ HasMember(f, k) => Member(g, k) = Member(f, k)
    BY <1>1, RecordIs, GiveMemberIs
  <2> HIDE DEF g
  <2>2. /\ DOMAIN y = StreamParts /\ Same(st, y) /\ y.ok = st.ok /\ y.context = g
        /\ y.lastEnd = st.lastEnd /\ y.discarded = st.discarded /\ y.begin = st.begin
        /\ y.header = st.header
    BY <1>1 DEF StreamParts, Same
  <2> HIDE DEF y
  <2>3. IsRecord(y)
    BY <2>1, <2>2, RecordIs, RecordStays
  <2>4. st.discarded \in Nat
    BY RecordIs
  <2>5. z = y
    BY <1>2, <1>3
  <2> HIDE DEF z
  <2>6. QED
    BY <2>1, <2>2, <2>3, <2>4, <2>5 DEF z
<1>4. CASE GivenMember(f, name)
  <2>1. dev /\ HasMember(f, name)
    BY <1>4 DEF GivenMember
  <2>2. given \in Nat
    BY <1>1, <2>1, ContextHas, ContextIsTree, PartIs DEF Member
  <2> HIDE DEF given
  <2>3. CASE given < st.discarded
    <3>1. z = st
      BY <1>2, <1>4, <2>3
    <3> HIDE DEF z
    <3>2. QED
      BY <2>1, <3>1, RecordIs DEF Same, z
  <2>4. CASE ~(given < st.discarded)
    <3>1. /\ DOMAIN x = StreamParts /\ Same(st, x) /\ x.ok = st.ok /\ x.context = f
          /\ x.lastEnd = st.lastEnd /\ x.discarded = given /\ x.begin = st.begin
          /\ x.header = st.header
      BY <1>1 DEF StreamParts, Same
    <3> HIDE DEF x
    <3>2. IsRecord(x)
      BY <1>1, <2>2, <3>1, RecordIs, RecordStays
    <3>3. z = x
      BY <1>2, <1>4, <2>4
    <3>4. given >= st.discarded
      BY <2>2, <2>4, RecordIs
    <3> HIDE DEF z
    <3>5. QED
      BY <2>1, <3>1, <3>2, <3>3, <3>4 DEF z
  <2>5. QED
    BY <2>3, <2>4
<1>5. QED
  BY <1>3, <1>4

LEMMA OnceIs ==
  ASSUME dev \in BOOLEAN, IsLayout(layout), NEW st, IsRecord(st)
  PROVE  LET z == Once(st)
         IN /\ IsRecord(z) /\ Same(st, z) /\ z.ok = st.ok
            /\ z.lastEnd = st.lastEnd /\ z.begin = st.begin
            /\ z.discarded >= st.discarded
            /\ ~dev /\ st.ok /\ HasMember(st.context, "events_discarded") =>
                  Member(z.context, "events_discarded").value = z.discarded
            /\ \A x : x # "events_discarded" /\ HasMember(st.context, x) =>
                  Member(z.context, x) = Member(st.context, x)
<1>1. CASE st.ok /\ IsField(st.context)
  BY <1>1, WithDiscardedIs DEF Once
<1>2. CASE ~(st.ok /\ IsField(st.context))
  <2>1. Once(st) = st
    BY <1>2 DEF Once
  <2>2. st.ok => ~HasMember(st.context, "events_discarded")
    BY <1>2 DEF HasMember
  <2>3. st.discarded \in Nat
    BY RecordIs
  <2>4. QED
    BY <2>1, <2>2, <2>3 DEF Same
<1>3. QED
  BY <1>1, <1>2

(***************************************************************************)
(* The times of a flush.                                                   *)
(***************************************************************************)

\* The pending events of a stream that is flushed.
Writable(st) ==
  Len(st.pending) \in Nat /\ DOMAIN st.pending = 1..Len(st.pending) /\ HaveTrees(st.pending)

LEMMA StampsOfAll ==
  ASSUME NEW st, Writable(st)
  PROVE  PendingStamps(st) \in Seq(Stamp)
<1> DEFINE es == st.pending
           q == [i \in DOMAIN es |-> EventStamps(es[i])]
<1>1. ASSUME NEW i \in DOMAIN es PROVE EventStamps(es[i]) \in Seq(Stamp)
  <2> DEFINE r == [x \in DOMAIN Scopes |-> Stamps(event[es[i]].fields[Scopes[x]], Places)]
  <2>1. \A x \in DOMAIN Scopes : IsTree(event[es[i]].fields[Scopes[x]])
    BY DEF Writable, HaveTrees
  <2>2. r = [x \in 1..4 |-> r[x]] /\ \A x \in 1..4 : r[x] \in Seq(Stamp)
    BY <2>1, ScopesAre, StampsAre
  <2>3. EventStamps(es[i]) = FlattenSeq(r)
    BY DEF EventStamps
  <2> HIDE DEF r
  <2>4. 4 \in Nat
    OBVIOUS
  <2>5. FlattenSeq(r) \in Seq(Stamp)
    BY ONLY <2>2, <2>4, FlattenOf
  <2>6. QED
    BY <2>3, <2>5
<1>2. Len(es) \in Nat /\ q = [i \in 1..Len(es) |-> q[i]] /\ \A i \in 1..Len(es) : q[i] \in Seq(Stamp)
  BY <1>1 DEF Writable
<1>3. PendingStamps(st) = FlattenSeq(q)
  BY DEF PendingStamps
<1> HIDE DEF q
<1>4. QED
  BY <1>2, <1>3, FlattenOf

LEMMA StampsOfContext ==
  ASSUME NEW f, IsContext(f)
  PROVE  ContextStamps(f) \in Seq(Stamp)
BY ContextIsTree, StampsAre DEF ContextStamps

\* What a given or a visited time is.
BeginOf(st) ==
  IF GivenMember(st.context, "timestamp_begin") THEN Member(st.context, "timestamp_begin").value
  ELSE IF st.lastEnd # NoTime THEN st.lastEnd ELSE 0

SeenBy(st) == VisitedClock(BeginOf(st), ContextStamps(st.context) \o PendingStamps(st))

EndOfVisit(st) ==
  IF GivenMember(st.context, "timestamp_end") THEN Member(st.context, "timestamp_end").value
  ELSE SeenBy(st)

LEMMA MemberIsNumber ==
  ASSUME IsLayout(layout), NEW f, IsContext(f), NEW name, HasMember(f, name)
  PROVE  Member(f, name).value \in Nat
BY ContextHas, ContextIsTree, PartIs DEF Member

LEMMA TimesAreNumbers ==
  ASSUME IsLayout(layout), NEW st, IsRecord(st), Writable(st)
  PROVE  BeginOf(st) \in Nat /\ SeenBy(st) \in Nat /\ EndOfVisit(st) \in Nat
<1>1. IsContext(st.context) /\ st.lastEnd \in Nat
  BY RecordIs
<1>2. BeginOf(st) \in Nat
  BY <1>1, MemberIsNumber DEF BeginOf, GivenMember
<1>3. ContextStamps(st.context) \o PendingStamps(st) \in Seq(Stamp)
  BY <1>1, StampsOfAll, StampsOfContext, ConcatProperties
<1>4. SeenBy(st) \in Nat
  BY <1>2, <1>3, VisitedClockIs DEF SeenBy
<1>5. EndOfVisit(st) \in Nat
  BY <1>1, <1>4, MemberIsNumber DEF EndOfVisit, GivenMember
<1>6. QED
  BY <1>2, <1>4, <1>5

\* What the check of the times lets pass.
InOrder(st) ==
  (st.lastEnd # NoTime => BeginOf(st) >= st.lastEnd) /\ EndOfVisit(st) >= SeenBy(st)

LEMMA WithTimestampsIs ==
  ASSUME dev \in BOOLEAN, IsLayout(layout), NEW st, IsRecord(st), Writable(st)
  PROVE  LET z == WithTimestamps(st)
         IN /\ IsRecord(z) /\ Same(st, z) /\ z.discarded = st.discarded
            /\ z.ok => /\ st.ok /\ z.begin = BeginOf(st) /\ z.lastEnd = EndOfVisit(st)
                       /\ InOrder(st)
            /\ \A x : x \notin {"timestamp_begin", "timestamp_end"} /\ HasMember(st.context, x) =>
                  Member(z.context, x) = Member(st.context, x)
<1> DEFINE f == st.context
           begin == BeginOf(st)
           seen == SeenBy(st)
           end == EndOfVisit(st)
           withEnd == IF GivenMember(f, "timestamp_end") THEN f
                      ELSE GiveMember(dev, f, "timestamp_end", seen)
           withBegin == IF GivenMember(f, "timestamp_begin") THEN withEnd
                        ELSE GiveMember(dev, withEnd, "timestamp_begin", begin)
           fails == \/ st.lastEnd # NoTime /\ begin < st.lastEnd
                    \/ \E i \in DOMAIN st.pending : ~IsVisitable(st.pending[i])
                    \/ end < seen
           x == [st EXCEPT !.ok = FALSE]
           y == [st EXCEPT !.context = withBegin, !.lastEnd = end, !.begin = begin]
           z == WithTimestamps(st)
<1>1. z = IF fails THEN x ELSE y
  BY Zenon DEF WithTimestamps, BeginOf, SeenBy, EndOfVisit
<1>2. DOMAIN st = StreamParts /\ IsContext(f) /\ st.lastEnd \in Nat
  BY RecordIs DEF IsRecord
<1>3. begin \in Nat /\ seen \in Nat /\ end \in Nat
  BY TimesAreNumbers
<1>4. CASE fails
  <2>1. /\ DOMAIN x = StreamParts /\ Same(st, x) /\ x.ok = FALSE /\ x.context = f
        /\ x.lastEnd = st.lastEnd /\ x.discarded = st.discarded /\ x.begin = st.begin
        /\ x.header = st.header
    BY <1>2 DEF StreamParts, Same
  <2>2. z = x
    BY <1>1, <1>4
  <2> HIDE DEF x, z
  <2>3. IsRecord(x)
    BY <1>2, <2>1, RecordIs, RecordStays
  <2>4. QED
    BY <2>1, <2>2, <2>3 DEF z
<1>5. CASE ~fails
  <2>1. InOrder(st)
    BY <1>2, <1>3, <1>5 DEF InOrder
  <2>2. z = y
    BY <1>1, <1>5
  <2> HIDE DEF fails, begin, seen, end
  <2>3. /\ IsContext(withEnd)
        /\ \A n : n # "timestamp_end" /\ HasMember(f, n) => Member(withEnd, n) = Member(f, n)
    BY <1>2, <1>3, GiveMemberIs
  <2> HIDE DEF withEnd
  <2>4. \A n : HasMember(withEnd, n) <=> HasMember(f, n)
    BY <1>2, <2>3, ContextsAgree
  <2>5. /\ IsContext(withBegin)
        /\ \A n : n # "timestamp_begin" /\ HasMember(withEnd, n) =>
              Member(withBegin, n) = Member(withEnd, n)
    BY <1>3, <2>3, GiveMemberIs
  <2> HIDE DEF withBegin
  <2>6. /\ DOMAIN y = StreamParts /\ Same(st, y) /\ y.ok = st.ok /\ y.context = withBegin
        /\ y.lastEnd = end /\ y.discarded = st.discarded /\ y.begin = begin
        /\ y.header = st.header
    BY <1>2 DEF StreamParts, Same
  <2> HIDE DEF y, z
  <2>7. IsRecord(y)
    BY <1>3, <2>5, <2>6, RecordIs, RecordStays
  <2>8. QED
    BY <2>1, <2>2, <2>3, <2>4, <2>5, <2>6, <2>7 DEF z, begin, end
<1>6. QED
  BY <1>4, <1>5

\* A stream that has been populated has the times, if it has a context.
LEMMA PopulatedIs ==
  ASSUME dev \in BOOLEAN, IsLayout(layout), NEW st, IsRecord(st), Writable(st)
  PROVE  LET z == Populated(st)
         IN /\ IsRecord(z) /\ Same(st, z) /\ z.discarded >= st.discarded
            /\ z.ok /\ IsField(st.context) =>
                  /\ z.begin = BeginOf(Blank(st)) /\ z.lastEnd = EndOfVisit(Blank(st))
                  /\ InOrder(Blank(st))
<1> DEFINE b == Blank(st)
           t == IF IsField(st.context) THEN WithTimestamps(b) ELSE b
           z == Once(t)
<1>1. IsRecord(b) /\ Same(st, b) /\ b.discarded = st.discarded
  BY BlankIs
<1>2. Writable(b)
  BY <1>1 DEF Writable, Same
<1>3. /\ IsRecord(t) /\ Same(b, t) /\ t.discarded = b.discarded
      /\ t.ok /\ IsField(st.context) =>
            /\ t.begin = BeginOf(b) /\ t.lastEnd = EndOfVisit(b) /\ InOrder(b)
  <2>1. CASE IsField(st.context)
    BY <1>1, <1>2, <2>1, WithTimestampsIs
  <2>2. CASE ~IsField(st.context)
    BY <1>1, <2>2 DEF Same
  <2>3. QED
    BY <2>1, <2>2
<1>4. Populated(st) = z
  BY DEF Populated
<1> HIDE DEF t, b
<1>5. /\ IsRecord(z) /\ Same(t, z) /\ z.ok = t.ok /\ z.lastEnd = t.lastEnd /\ z.begin = t.begin
      /\ z.discarded >= t.discarded
  BY <1>3, OnceIs
<1> HIDE DEF z
<1>6. Same(st, z)
  BY <1>1, <1>3, <1>5 DEF Same
<1>7. QED
  BY <1>1, <1>3, <1>4, <1>5, <1>6 DEF b

\* When the packet is written the context says its sizes, and the count.
LEMMA SizedIs ==
  ASSUME dev \in BOOLEAN, IsLayout(layout), NEW st, IsRecord(st), Writable(st),
         NEW first, first.bits \in Nat
  PROVE  LET z == Sized(st, Populated(st), first)
             content == first.bits
         IN /\ IsRecord(z) /\ Same(st, z) /\ z.discarded >= st.discarded
            /\ z.ok =>
                 /\ Populated(st).ok /\ SizesAreTold(st, content)
                 /\ HasMember(st.context, "packet_size") =>
                       Member(z.context, "packet_size").value = UpToByte(content)
                 /\ HasMember(st.context, "content_size") =>
                       Member(z.context, "content_size").value = content
                 /\ ~dev /\ HasMember(st.context, "events_discarded") =>
                       Member(z.context, "events_discarded").value = z.discarded
                 /\ IsField(st.context) =>
                      /\ z.begin = BeginOf(Blank(st)) /\ z.lastEnd = EndOfVisit(Blank(st))
                      /\ InOrder(Blank(st))
<1> DEFINE p == Populated(st)
           content == first.bits
           size == UpToByte(content)
           passes == p.ok /\ first.ok /\ SizesAreTold(st, content)
           x == [p EXCEPT !.ok = FALSE]
           y == WithSizes(p, size, content)
           r == IF passes THEN y ELSE x
           z == Once(r)
<1>1. /\ IsRecord(p) /\ Same(st, p) /\ p.discarded >= st.discarded
      /\ p.ok /\ IsField(st.context) =>
            /\ p.begin = BeginOf(Blank(st)) /\ p.lastEnd = EndOfVisit(Blank(st))
            /\ InOrder(Blank(st))
  BY PopulatedIs
<1>2. size \in Nat
  BY DEF UpToByte
<1>3. Sized(st, Populated(st), first) = z
  BY DEF Sized
<1> HIDE DEF p, size
<1>4. IsContext(st.context) /\ IsContext(p.context)
  BY <1>1, RecordIs
<1>5. \A n : HasMember(p.context, n) <=> HasMember(st.context, n)
  BY <1>4, ContextsAgree
<1>6. /\ IsRecord(x) /\ Same(p, x) /\ x.ok = FALSE /\ x.discarded = p.discarded
      /\ x.begin = p.begin /\ x.lastEnd = p.lastEnd
  <2>1. DOMAIN p = StreamParts
    BY <1>1 DEF IsRecord
  <2>2. /\ DOMAIN x = StreamParts /\ Same(p, x) /\ x.ok = FALSE /\ x.context = p.context
        /\ x.lastEnd = p.lastEnd /\ x.discarded = p.discarded /\ x.begin = p.begin
        /\ x.header = p.header
    BY <2>1 DEF StreamParts, Same
  <2> HIDE DEF x
  <2>3. IsRecord(x)
    BY <1>1, <1>4, <2>2, RecordIs, RecordStays
  <2>4. QED
    BY <2>2, <2>3
<1> HIDE DEF x
<1>7. /\ IsRecord(y) /\ Same(p, y) /\ y.ok = p.ok
      /\ y.lastEnd = p.lastEnd /\ y.discarded = p.discarded /\ y.begin = p.begin
      /\ HasMember(p.context, "packet_size") => Member(y.context, "packet_size").value = size
      /\ HasMember(p.context, "content_size") => Member(y.context, "content_size").value = content
  BY <1>1, <1>2, WithSizesIs
<1> HIDE DEF y
<1>8. /\ IsRecord(r) /\ Same(p, r) /\ r.discarded = p.discarded
      /\ r.begin = p.begin /\ r.lastEnd = p.lastEnd
      /\ r.ok => passes /\ r = y
  BY <1>6, <1>7
<1> HIDE DEF r
<1>9. /\ IsRecord(z) /\ Same(r, z) /\ z.ok = r.ok
      /\ z.lastEnd = r.lastEnd /\ z.begin = r.begin
      /\ z.discarded >= r.discarded
      /\ ~dev /\ r.ok /\ HasMember(r.context, "events_discarded") =>
            Member(z.context, "events_discarded").value = z.discarded
      /\ \A n : n # "events_discarded" /\ HasMember(r.context, n) =>
            Member(z.context, n) = Member(r.context, n)
  BY <1>8, OnceIs
<1> HIDE DEF z
<1>10. IsContext(r.context) /\ \A n : HasMember(r.context, n) <=> HasMember(st.context, n)
  BY <1>4, <1>8, RecordIs, ContextsAgree
<1>11. Same(st, z) /\ z.discarded >= st.discarded
  <2>1. z.discarded \in Nat /\ r.discarded \in Nat /\ p.discarded \in Nat /\ st.discarded \in Nat
    BY <1>1, <1>8, <1>9, RecordIs
  <2>2. QED
    BY <1>1, <1>8, <1>9, <2>1 DEF Same
<1>12. ASSUME z.ok
       PROVE  /\ p.ok /\ SizesAreTold(st, content)
              /\ HasMember(st.context, "packet_size") => Member(z.context, "packet_size").value = size
              /\ HasMember(st.context, "content_size") =>
                    Member(z.context, "content_size").value = content
              /\ ~dev /\ HasMember(st.context, "events_discarded") =>
                    Member(z.context, "events_discarded").value = z.discarded
  <2>1. passes /\ r = y /\ r.ok
    BY <1>8, <1>9, <1>12
  <2>2. QED
    BY <1>5, <1>7, <1>9, <1>10, <2>1
<1>13. z.ok /\ IsField(st.context) =>
          /\ z.begin = BeginOf(Blank(st)) /\ z.lastEnd = EndOfVisit(Blank(st))
          /\ InOrder(Blank(st))
  BY <1>1, <1>8, <1>9, <1>12
<1>14. QED
  BY <1>3, <1>9, <1>11, <1>12, <1>13 DEF p, size

(***************************************************************************)
(* A packet that is written.                                               *)
(***************************************************************************)

\* What holds of a packet that is written.
IsWritten(st, z, content) ==
  /\ SizesAreTold(st, content)
  /\ st.count = 1 => HasPacketSize(st)
  /\ IsField(st.context) => HasPacketSize(st)
  /\ HasMember(st.context, "packet_size") =>
        Member(z.context, "packet_size").value = UpToByte(content)
  /\ HasMember(st.context, "content_size") => Member(z.context, "content_size").value = content
  /\ ~dev /\ HasMember(st.context, "events_discarded") =>
        Member(z.context, "events_discarded").value = z.discarded
  /\ IsField(st.context) =>
       /\ z.begin = BeginOf(Blank(st)) /\ z.lastEnd = EndOfVisit(Blank(st)) /\ InOrder(Blank(st))

LEMMA StreamIsWritable ==
  ASSUME IInv, Filled, NEW s \in StreamNames, Made(s)
  PROVE  IsRecord(stream[s]) /\ Writable(stream[s])
<1> DEFINE st == stream[s]
           es == st.pending
<1>1. IsStream(st) /\ Housed(s)
  BY PartsAreParts, HomeOf
<1>2. IsRecord(st)
  BY <1>1 DEF IsStream, IsRecord, Filled, Files
<1>3. es \in Seq(EventNames)
  BY <1>1 DEF IsStream
<1>4. Len(es) \in Nat /\ DOMAIN es = 1..Len(es) /\ \A i \in DOMAIN es : es[i] \in EventNames
  BY <1>3
<1>5. ASSUME NEW i \in DOMAIN es, NEW x \in DOMAIN Scopes PROVE IsTree(event[es[i]].fields[Scopes[x]])
  <2>1. es[i] \in EventNames /\ Live(es[i])
    BY <1>1, <1>4 DEF Housed
  <2>2. HasTrees(event[es[i]])
    BY <2>1 DEF Filled
  <2>3. QED
    BY <2>2 DEF HasTrees
<1>6. QED
  BY <1>2, <1>4, <1>5 DEF Writable, HaveTrees

LEMMA FirstPassWrites ==
  ASSUME NEW st, IsRecord(st), Writable(st), NEW fails
  PROVE  FirstPass(st, fails) \in Writings(fails)
<1> DEFINE a == Call(Nothing(fails), 0)
           b == Serialize(st.header, a)
           c == Serialize(st.context, b)
<1>1. Nothing(fails) \in Writings(fails)
  BY DEF Nothing, Writings
<1>2. a \in Writings(fails)
  BY <1>1, CallWrites
<1> HIDE DEF a
<1>3. IsTree(st.header) /\ IsTree(st.context)
  BY RecordIs, ContextIsTree
<1>4. b \in Writings(fails)
  BY <1>2, <1>3, SerializeWrites
<1> HIDE DEF b
<1>5. c \in Writings(fails)
  BY <1>3, <1>4, SerializeWrites
<1> HIDE DEF c
<1>6. WrittenEvents(c, st.pending) \in Writings(fails)
  BY <1>5, EventsWrite DEF Writable
<1>7. FirstPass(st, fails) = WrittenEvents(c, st.pending)
  BY DEF FirstPass, a, b, c
<1>8. QED
  BY <1>6, <1>7

LEMMA FlushIs ==
  ASSUME IInv, Filled, NEW s \in StreamNames, Flush(s)
  PROVE  /\ Made(s) /\ IsRecord(stream[s]) /\ Writable(stream[s])
         /\ UNCHANGED <<dev, layout, clock>>
         /\ \E z, content, failed :
              /\ content \in Nat /\ IsRecord(z) /\ Same(stream[s], z)
              /\ z.discarded >= stream[s].discarded
              /\ \/ Leaves(s, z)
                 \/ Writes(s, z, content, failed) /\ IsWritten(stream[s], z, content)
<1> DEFINE st == stream[s]
           p == Populated(st)
<1>1. Made(s) /\ UNCHANGED <<dev, layout, clock>>
  BY DEF Flush
<1>2. IsRecord(st) /\ Writable(st) /\ dev \in BOOLEAN /\ IsLayout(layout)
  BY <1>1, StreamIsWritable DEF Filled
<1>3. IsRecord(p) /\ Writable(p)
  <2>1. IsRecord(p) /\ Same(st, p)
    BY <1>2, PopulatedIs
  <2> HIDE DEF p
  <2>2. QED
    BY <1>2, <2>1 DEF Writable, Same
<1>4. PICK fails, first, sized, second :
        /\ first = IF p.ok THEN FirstPass(p, fails) ELSE Nothing({})
        /\ sized = Sized(st, p, first)
        /\ IF sized.ok /\ second.ok THEN Writes(s, sized, first.bits, second.failed)
                                    ELSE Leaves(s, sized)
        /\ st.count = 1 => HasPacketSize(st)
        /\ IsField(st.context) => HasPacketSize(st)
  BY DEF Flush
<1>5. first.bits \in Nat
  <2>1. FirstPass(p, fails) \in Writings(fails)
    BY <1>3, FirstPassWrites
  <2>2. FirstPass(p, fails).bits \in Nat
    BY <2>1 DEF Writings
  <2>3. Nothing({}).bits \in Nat
    BY DEF Nothing
  <2> HIDE DEF p
  <2>4. QED
    BY <1>4, <2>2, <2>3
<1>6. /\ IsRecord(sized) /\ Same(st, sized) /\ sized.discarded >= st.discarded
      /\ sized.ok => IsWritten(st, sized, first.bits)
  <2> DEFINE z == Sized(st, Populated(st), first)
  <2>1. sized = z
    BY <1>4
  <2>2. /\ IsRecord(z) /\ Same(st, z) /\ z.discarded >= st.discarded
        /\ z.ok =>
             /\ SizesAreTold(st, first.bits)
             /\ HasMember(st.context, "packet_size") =>
                   Member(z.context, "packet_size").value = UpToByte(first.bits)
             /\ HasMember(st.context, "content_size") =>
                   Member(z.context, "content_size").value = first.bits
             /\ ~dev /\ HasMember(st.context, "events_discarded") =>
                   Member(z.context, "events_discarded").value = z.discarded
             /\ IsField(st.context) =>
                  /\ z.begin = BeginOf(Blank(st)) /\ z.lastEnd = EndOfVisit(Blank(st))
                  /\ InOrder(Blank(st))
    BY <1>2, <1>5, SizedIs
  <2> HIDE DEF z
  <2>3. QED
    BY <1>4, <2>1, <2>2 DEF IsWritten
<1> HIDE DEF p
<1>7. \/ Leaves(s, sized)
      \/ Writes(s, sized, first.bits, second.failed) /\ IsWritten(st, sized, first.bits)
  BY <1>4, <1>6
<1>8. QED
  BY <1>1, <1>2, <1>5, <1>6, <1>7

\* A stream after a flush is one again.
LEMMA EndedIs ==
  ASSUME NEW st, IsRecord(st)
  PROVE  /\ IsRecord(Ended(st)) /\ Same(st, Ended(st))
         /\ Ended(st).discarded = st.discarded /\ Ended(st).lastEnd = st.lastEnd
<1> DEFINE z == Ended(st)
           f == WithReset(st.context)
<1>1. IsContext(f)
  BY RecordIs, ResetIs
<1>2. z = [st EXCEPT !.context = f, !.ok = TRUE, !.begin = 0] /\ DOMAIN st = StreamParts
  BY DEF Ended, IsRecord
<1> HIDE DEF f, z
<1>3. /\ DOMAIN z = StreamParts /\ Same(st, z) /\ z.header = st.header
      /\ z.context = f /\ z.lastEnd = st.lastEnd /\ z.discarded = st.discarded /\ z.begin = 0
  BY <1>2 DEF StreamParts, Same
<1>4. IsRecord(z)
  <2>1. st.lastEnd \in Nat /\ st.discarded \in Nat /\ 0 \in Nat
    BY RecordIs
  <2>2. QED
    BY <1>1, <1>3, <2>1, RecordStays
<1>5. QED
  BY <1>3, <1>4 DEF z

(***************************************************************************)
(* Filled stays.                                                           *)
(***************************************************************************)

LEMMA FilledAgain ==
  ASSUME Filled, UNCHANGED <<dev, layout>>, clock' \in Nat,
         \A s \in StreamNames : Made(s)' => IsFilled(stream'[s]),
         \A e \in EventNames : Live(e)' => HasTrees(event'[e])
  PROVE  Filled'
<1>1. dev' \in BOOLEAN /\ IsLayout(layout')
  BY DEF Filled
<1>2. ASSUME NEW s \in Files' PROVE IsFilled(stream[s])'
  <2>1. s \in StreamNames /\ Made(s)'
    BY DEF Files
  <2>2. IsFilled(stream'[s])
    BY <2>1
  <2>3. QED
    BY <2>2 DEF IsFilled, IsContext
<1>3. QED
  BY <1>1, <1>2 DEF Filled

LEMMA FilledIs ==
  ASSUME Filled
  PROVE  /\ dev \in BOOLEAN /\ clock \in Nat /\ IsLayout(layout)
         /\ \A s \in StreamNames : Made(s) => IsFilled(stream[s])
         /\ \A e \in EventNames : Live(e) => HasTrees(event[e])
BY DEF Filled, Files

\* One stream changes.
LEMMA StreamIsFilled ==
  ASSUME IInv, Filled, UNCHANGED <<dev, layout, clock, event>>, NEW s \in StreamNames, NEW b,
         stream' = [stream EXCEPT ![s] = b], IsFilled(b)
  PROVE  Filled'
<1>1. \A t \in StreamNames : stream'[t] = IF t = s THEN b ELSE stream[t]
  BY PartsAreParts
<1>2. \A t \in StreamNames : Made(t)' => IsFilled(stream'[t])
  BY <1>1, FilledIs DEF Made
<1>3. \A e \in EventNames : Live(e)' => HasTrees(event'[e])
  BY FilledIs DEF Live
<1>4. clock' \in Nat
  BY FilledIs
<1>5. QED
  BY <1>2, <1>3, <1>4, FilledAgain

\* One event changes.
LEMMA EventIsFilled ==
  ASSUME IInv, Filled, UNCHANGED <<dev, layout, clock, stream>>, NEW e \in EventNames, NEW b,
         event' = [event EXCEPT ![e] = b], b = Unmade \/ HasTrees(b)
  PROVE  Filled'
<1>1. \A x \in EventNames : event'[x] = IF x = e THEN b ELSE event[x]
  BY PartsAreParts
<1>2. \A x \in EventNames : Live(x)' => HasTrees(event'[x])
  BY <1>1, FilledIs, UnmadeIs DEF Live
<1>3. \A t \in StreamNames : Made(t)' => IsFilled(stream'[t])
  BY FilledIs DEF Made
<1>4. clock' \in Nat
  BY FilledIs
<1>5. QED
  BY <1>2, <1>3, <1>4, FilledAgain

LEMMA InputsAreNumbers ==
  /\ Values \subseteq Nat /\ Times \subseteq Nat /\ Counts \subseteq Nat /\ NoTime \in Nat
BY StreamsAssumption, SizesAre DEF NoTime

LEMMA ContextIsNew ==
  /\ IsContext(Create(layout.packetContext))
  /\ IsTree(Create(layout.packetHeader))
<1>1. IsTree(Create(layout.packetContext)) /\ IsTree(Create(layout.packetHeader))
  BY CreateIsTree
<1>2. QED
  BY <1>1 DEF IsContext, IsTree

LEMMA StreamEditsFill ==
  ASSUME IInv, Filled, NEW s \in StreamNames,
         CreateStream(s) \/ AppendDiscarded(s) \/ GiveContextMember(s) \/ SetPacketContext(s)
  PROVE  Filled'
<1>1. UNCHANGED <<dev, layout, clock, event>>
  BY DEF CreateStream, AppendDiscarded, GiveContextMember, SetPacketContext
<1>2. dev \in BOOLEAN /\ IsLayout(layout)
  BY FilledIs
<1>3. ASSUME Made(s) PROVE IsRecord(stream[s]) /\ IsContext(stream[s].context)
  BY <1>3, StreamIsWritable, RecordIs
<1>4. CASE CreateStream(s)
  <2> DEFINE C == Create(layout.packetContext)
             H == Create(layout.packetHeader)
             f == GiveMember(dev, C, "events_discarded", 0)
             h == PopulateHeader(H, 0)
             Begun(id) ==
               [made |-> TRUE, id |-> id, classId |-> 0, header |-> h, context |-> f,
                lastEnd |-> NoTime, discarded |-> 0, count |-> 0,
                pending |-> <<>>, file |-> <<>>, appended |-> <<>>,
                ok |-> TRUE, begin |-> 0]
  <2>1. PICK asked \in Ids \cup {AutoId} :
           stream' = [stream EXCEPT ![s] = Begun(IF asked = AutoId THEN nextId ELSE asked)]
    BY <1>4 DEF CreateStream
  <2>2. IsContext(f)
    <3>1. IsContext(C) /\ 0 \in Nat
      BY ContextIsNew
    <3> HIDE DEF C
    <3>2. QED
      BY <1>2, <3>1, GiveMemberIs
  <2>3. IsTree(h)
    <3>1. IsTree(H)
      BY ContextIsNew
    <3> HIDE DEF H
    <3> DEFINE g == GiveMember(dev, H, "magic", 1)
    <3>2. IsTree(g)
      BY <1>2, <3>1, GiveMemberKeepsTree
    <3> HIDE DEF g
    <3>3. IsTree(GiveMember(dev, g, "stream_id", 0))
      BY <1>2, <3>2, GiveMemberKeepsTree
    <3>4. QED
      BY <3>3 DEF PopulateHeader, g
  <2> HIDE DEF f, h, C, H
  <2>4. \A id : IsFilled(Begun(id))
    BY <2>2, <2>3, InputsAreNumbers DEF IsFilled
  <2> HIDE DEF Begun
  <2>5. QED
    BY <1>1, <2>1, <2>4, StreamIsFilled
<1>5. CASE AppendDiscarded(s)
  <2>1. PICK n \in Counts :
          stream' = [stream EXCEPT ![s].discarded = (stream[s].discarded + n) % Word,
                        ![s].context = GiveMember(dev, @, "events_discarded",
                                                  (stream[s].discarded + n) % Word)]
    BY <1>5 DEF AppendDiscarded
  <2> DEFINE st == stream[s]
             count == (st.discarded + n) % Word
             f == GiveMember(dev, st.context, "events_discarded", count)
             b == [st EXCEPT !.discarded = count, !.context = f]
  <2>2. Made(s)
    BY <1>5 DEF AppendDiscarded
  <2>3. count \in Nat
    <3>1. st.discarded \in Nat /\ n \in Nat
      BY <1>3, <2>2, RecordIs, InputsAreNumbers
    <3> HIDE DEF st
    <3>2. QED
      BY <3>1, SizesAre
  <2>4. stream' = [stream EXCEPT ![s] = b]
    BY <2>1
  <2> HIDE DEF count
  <2>5. IsContext(f)
    BY <1>2, <1>3, <2>2, <2>3, GiveMemberIs
  <2> HIDE DEF f
  <2>6. /\ DOMAIN b = StreamParts /\ Same(st, b) /\ b.header = st.header /\ b.context = f
        /\ b.lastEnd = st.lastEnd /\ b.discarded = count /\ b.begin = st.begin
    BY <1>3, <2>2 DEF StreamParts, Same, IsRecord
  <2> HIDE DEF b
  <2>7. IsRecord(b)
    BY <1>3, <2>2, <2>3, <2>5, <2>6, RecordIs, RecordStays
  <2>8. QED
    BY <1>1, <2>4, <2>7, StreamIsFilled DEF IsRecord
<1>6. CASE GiveContextMember(s) \/ SetPacketContext(s)
  <2>1. Made(s)
    BY <1>6 DEF GiveContextMember, SetPacketContext
  <2> DEFINE st == stream[s]
             b(f) == [st EXCEPT !.context = f]
  <2>2. PICK f : IsContext(f) /\ stream' = [stream EXCEPT ![s] = b(f)]
    <3>1. CASE SetPacketContext(s)
      BY <3>1, ContextIsNew DEF SetPacketContext
    <3>2. CASE GiveContextMember(s)
      <4> DEFINE names == NamesOf(stream[s].context)
      <4>0. PICK i \in DOMAIN names, v \in Values :
               stream' = [stream EXCEPT ![s].context = GiveMember(dev, @, names[i], v)]
        BY <3>2 DEF GiveContextMember
      <4> DEFINE name == names[i]
      <4> HIDE DEF names
      <4>1. stream' = [stream EXCEPT ![s].context = GiveMember(dev, @, name, v)]
        BY <4>0
      <4> HIDE DEF name
      <4> DEFINE f == GiveMember(dev, st.context, name, v)
      <4>2. v \in Nat
        BY InputsAreNumbers
      <4>3. IsContext(f)
        BY <1>2, <1>3, <2>1, <4>2, GiveMemberIs
      <4>4. stream' = [stream EXCEPT ![s] = b(f)]
        BY <4>1
      <4> HIDE DEF f, b
      <4>5. QED
        BY <4>3, <4>4
    <3>3. QED
      BY <1>6, <3>1, <3>2
  <2>3. /\ DOMAIN b(f) = StreamParts /\ Same(st, b(f)) /\ b(f).header = st.header
        /\ b(f).context = f
        /\ b(f).lastEnd = st.lastEnd /\ b(f).discarded = st.discarded /\ b(f).begin = st.begin
    BY <1>3, <2>1 DEF StreamParts, Same, IsRecord
  <2> HIDE DEF b
  <2>4. IsRecord(b(f))
    BY <1>3, <2>1, <2>2, <2>3, RecordIs, RecordStays
  <2>5. QED
    BY <1>1, <2>2, <2>4, StreamIsFilled DEF IsRecord
<1>7. QED
  BY <1>4, <1>5, <1>6

(***************************************************************************)
(* The events and their fields.                                            *)
(***************************************************************************)

LEMMA PartChanges ==
  ASSUME NEW f, IsTree(f), NEW p \in DOMAIN f, NEW part \in Part
  PROVE  LET g == [f EXCEPT ![p] = part]
         IN IsTree(g) /\ DOMAIN g = DOMAIN f /\ g[p] = part /\ \A q \in DOMAIN f : q # p => g[q] = f[q]
<1> DEFINE g == [f EXCEPT ![p] = part]
<1>1. DOMAIN f \subseteq Places /\ f \in [DOMAIN f -> Part]
  BY DEF IsTree
<1>2. /\ DOMAIN g = DOMAIN f /\ g \in [DOMAIN f -> Part] /\ g[p] = part
      /\ \A q \in DOMAIN f : q # p => g[q] = f[q]
  BY <1>1
<1>3. IsTree(g)
  <2> HIDE DEF g
  <2> QED
    BY <1>1, <1>2 DEF IsTree
<1>4. QED
  BY <1>2, <1>3

LEMMA PlantedIsTree ==
  ASSUME NEW f, IsTree(f), NEW p, NEW numbers, NEW t
  PROVE  IsTree(Planted(f, p, numbers, t))
<1> DEFINE planted == {q \in Places : IsStrictPrefix(p, q) /\ q[Len(p) + 1] \in numbers}
           TypeIn(q) == TypeAt(t, SubSeq(q, Len(p) + 2, Len(q)))
           places == (DOMAIN f \ planted) \cup {q \in planted : TypeIn(q) \in DOMAIN Shape}
           g == [q \in places |-> IF q \in planted THEN New(TypeIn(q)) ELSE f[q]]
<1>1. Planted(f, p, numbers, t) = g
  BY DEF Planted
<1>2. DOMAIN f \subseteq Places /\ f \in [DOMAIN f -> Part]
  BY DEF IsTree
<1>3. planted \subseteq Places
  OBVIOUS
<1> HIDE DEF planted, TypeIn
<1>4. places \subseteq Places
  BY <1>2, <1>3
<1>5. \A q \in places : g[q] \in Part
  BY <1>2, NewIsPart
<1>6. DOMAIN g = places /\ g \in [places -> Part]
  BY <1>5
<1> HIDE DEF g, places
<1>7. IsTree(g)
  BY <1>4, <1>6 DEF IsTree
<1>8. QED
  BY <1>1, <1>7

LEMMA FreezeIs ==
  ASSUME NEW f, IsTree(f)
  PROVE  /\ IsTree(Freeze(f)) /\ DOMAIN Freeze(f) = DOMAIN f
         /\ \A p \in DOMAIN f :
              /\ Freeze(f)[p].type = f[p].type /\ Freeze(f)[p].set = f[p].set
              /\ Freeze(f)[p].length = f[p].length /\ Freeze(f)[p].current = f[p].current
              /\ Inside(f, p) => Freeze(f)[p].frozen
<1> DEFINE g == [p \in DOMAIN f |-> [f[p] EXCEPT !.frozen = @ \/ Inside(f, p)]]
<1>1. Freeze(f) = g
  BY DEF Freeze
<1>2. ASSUME NEW p \in DOMAIN f
      PROVE  /\ g[p] \in Part
             /\ g[p].type = f[p].type /\ g[p].set = f[p].set
             /\ g[p].length = f[p].length /\ g[p].current = f[p].current
             /\ Inside(f, p) => g[p].frozen
  <2> DEFINE part == f[p]
             in == Inside(f, p)
  <2>1. part \in Part
    BY PartIs
  <2>2. in \in BOOLEAN
    BY DEF Inside
  <2>3. g[p] = [part EXCEPT !.frozen = @ \/ in]
    OBVIOUS
  <2> HIDE DEF part, in, g
  <2>4. /\ [part EXCEPT !.frozen = @ \/ in] \in Part
        /\ [part EXCEPT !.frozen = @ \/ in].type = part.type
        /\ [part EXCEPT !.frozen = @ \/ in].set = part.set
        /\ [part EXCEPT !.frozen = @ \/ in].length = part.length
        /\ [part EXCEPT !.frozen = @ \/ in].current = part.current
        /\ in => [part EXCEPT !.frozen = @ \/ in].frozen
    BY <2>1, <2>2 DEF Part
  <2>5. QED
    BY <2>3, <2>4 DEF part, in
<1>3. DOMAIN g = DOMAIN f /\ g = [p \in DOMAIN f |-> g[p]]
  OBVIOUS
<1> HIDE DEF g
<1>4. g \in [DOMAIN f -> Part]
  BY <1>2, <1>3
<1>5. IsTree(g)
  BY <1>3, <1>4 DEF IsTree
<1>6. QED
  BY <1>1, <1>2, <1>3, <1>5

\* One field of an event is edited.
LEMMA EditIs ==
  ASSUME IInv, NEW e \in EventNames, Live(e), HasTrees(event[e]),
         NEW x \in DOMAIN Scopes, NEW g, Edit(e, Scopes[x], g)
  PROVE  \E b : /\ event' = [event EXCEPT ![e] = b] /\ b = event'[e]
                /\ DOMAIN b = EventParts /\ b.stream = event[e].stream /\ b.frozen = event[e].frozen
                /\ b.class = event[e].class
                /\ DOMAIN b.fields = DOMAIN event[e].fields
                /\ \A i \in DOMAIN Scopes : b.fields[Scopes[i]] = IF i = x THEN g ELSE event[e].fields[Scopes[i]]
<1> DEFINE b == [event[e] EXCEPT !.fields = [event[e].fields EXCEPT ![Scopes[x]] = g]]
<1>1. DOMAIN event[e] = EventParts /\ DOMAIN event = EventNames
  <2>1. event = [y \in EventNames |-> event[y]] /\ IsEvent(event[e])
    BY PartsAreParts
  <2>2. QED
    BY <2>1 DEF IsEvent
<1>2. event' = [event EXCEPT ![e] = b]
  BY DEF Edit
<1>3. /\ DOMAIN b = EventParts /\ b.stream = event[e].stream /\ b.frozen = event[e].frozen
      /\ b.class = event[e].class
      /\ b.fields = [event[e].fields EXCEPT ![Scopes[x]] = g]
  BY <1>1 DEF EventParts
<1> HIDE DEF b
<1>4. b = event'[e]
  BY <1>1, <1>2
<1>5. DOMAIN event[e].fields = {Scopes[i] : i \in DOMAIN Scopes}
  BY DEF HasTrees
<1>6. \A i \in DOMAIN Scopes : i # x => Scopes[i] # Scopes[x]
  BY ScopesAre
<1>7. /\ DOMAIN b.fields = DOMAIN event[e].fields
      /\ \A i \in DOMAIN Scopes : b.fields[Scopes[i]] = IF i = x THEN g ELSE event[e].fields[Scopes[i]]
  BY <1>3, <1>5, <1>6
<1>8. QED
  BY <1>2, <1>3, <1>4, <1>7

LEMMA EditFills ==
  ASSUME IInv, Filled, NEW e \in EventNames, Edits(e),
         NEW x \in DOMAIN Scopes, NEW g, Edit(e, Scopes[x], g), IsTree(g)
  PROVE  Filled'
<1>1. Live(e) /\ UNCHANGED <<dev, layout, clock, stream>>
  BY DEF Edits
<1>2. HasTrees(event[e])
  BY <1>1, FilledIs
<1>3. PICK b : /\ event' = [event EXCEPT ![e] = b] /\ b.class = event[e].class
               /\ DOMAIN b.fields = DOMAIN event[e].fields
               /\ \A i \in DOMAIN Scopes : b.fields[Scopes[i]] = IF i = x THEN g ELSE event[e].fields[Scopes[i]]
  BY <1>1, <1>2, EditIs
<1>4. HasTrees(b)
  BY <1>2, <1>3 DEF HasTrees
<1>5. QED
  BY <1>1, <1>3, <1>4, EventIsFilled

LEMMA EventEditsFill ==
  ASSUME IInv, Filled, NEW e \in EventNames, SetValue(e) \/ SetLength(e) \/ SelectChoice(e) \/ SetPayload(e)
  PROVE  Filled'
<1>1. Edits(e) /\ Live(e)
  BY DEF SetValue, SetLength, SelectChoice, SetPayload, Edits
<1>2. HasTrees(event[e]) /\ dev \in BOOLEAN
  BY <1>1, FilledIs
<1> DEFINE F(i) == event[e].fields[Scopes[i]]
<1>3. \A i \in DOMAIN Scopes : IsTree(F(i))
  BY <1>2 DEF HasTrees
<1> HIDE DEF F
<1>4. CASE SetValue(e)
  <2>1. PICK i \in DOMAIN Scopes : \E p \in Reached(F(i)), v \in Values :
                Edit(e, Scopes[i], [F(i) EXCEPT ![p] = Given(dev, @, v)])
    BY <1>4 DEF SetValue, F
  <2>2. PICK p \in Reached(F(i)), v \in Values :
                Edit(e, Scopes[i], [F(i) EXCEPT ![p] = Given(dev, @, v)])
    BY <2>1
  <2>3. p \in DOMAIN F(i) /\ v \in Nat
    BY InputsAreNumbers DEF Reached
  <2>4. F(i)[p] \in Part
    BY <1>3, <2>3, PartIs
  <2>5. Given(dev, F(i)[p], v) \in Part
    BY <1>2, <2>3, <2>4, GivenIs
  <2>6. IsTree([F(i) EXCEPT ![p] = Given(dev, F(i)[p], v)])
    BY <1>3, <2>3, <2>5, PartChanges
  <2>7. QED
    BY <1>1, <2>2, <2>6, EditFills
<1>5. CASE SetLength(e)
  <2>1. PICK i \in DOMAIN Scopes : \E p \in Reached(F(i)), n \in Values :
                Edit(e, Scopes[i], WithLength(F(i), p, n))
    BY <1>5 DEF SetLength, F
  <2>2. PICK p \in Reached(F(i)), n \in Values : Edit(e, Scopes[i], WithLength(F(i), p, n))
    BY <2>1
  <2> DEFINE f == F(i)
             part == [f[p] EXCEPT !.length = n]
             g == [f EXCEPT ![p] = part]
  <2>3. p \in DOMAIN f /\ n \in Nat
    BY InputsAreNumbers DEF Reached
  <2>4. f[p] \in Part
    BY <1>3, <2>3, PartIs
  <2>5. part \in Part
    BY <2>3, <2>4 DEF Part
  <2> HIDE DEF part
  <2>6. IsTree(g)
    BY <1>3, <2>3, <2>5, PartChanges
  <2>7. [f EXCEPT ![p].length = n] = g
    BY DEF part
  <2> HIDE DEF g
  <2>8. \A numbers, t : IsTree(Planted(g, p, numbers, t))
    BY <2>6, PlantedIsTree
  <2>9. IsTree(WithLength(f, p, n))
    BY <2>7, <2>8 DEF WithLength
  <2>10. QED
    BY <1>1, <2>2, <2>9, EditFills
<1>6. CASE SelectChoice(e)
  <2>1. PICK i \in DOMAIN Scopes : \E p \in Reached(F(i)), c \in Values \ {0} :
                Edit(e, Scopes[i], [F(i) EXCEPT ![p] = WithChoice(dev, @, c)])
    BY <1>6 DEF SelectChoice, F
  <2>2. PICK p \in Reached(F(i)), c \in Values \ {0} :
                Edit(e, Scopes[i], [F(i) EXCEPT ![p] = WithChoice(dev, @, c)])
    BY <2>1
  <2>3. p \in DOMAIN F(i) /\ c \in Nat
    BY InputsAreNumbers DEF Reached
  <2>4. F(i)[p] \in Part
    BY <1>3, <2>3, PartIs
  <2>5. WithChoice(dev, F(i)[p], c) \in Part
    BY <1>2, <2>3, <2>4 DEF Part, WithChoice
  <2>6. IsTree([F(i) EXCEPT ![p] = WithChoice(dev, F(i)[p], c)])
    BY <1>3, <2>3, <2>5, PartChanges
  <2>7. QED
    BY <1>1, <2>2, <2>6, EditFills
<1>7. CASE SetPayload(e)
  <2>1. Scopes[4] = "payload" /\ 4 \in DOMAIN Scopes
    BY ScopesAre
  <2>2. PICK i : Edit(e, Scopes[4], Planted(F(4), <<>>, {i}, F(4)[<<i>>].type))
    BY <1>7, <2>1 DEF SetPayload, F
  <2>3. IsTree(Planted(F(4), <<>>, {i}, F(4)[<<i>>].type))
    BY <1>3, <2>1, PlantedIsTree
  <2>4. QED
    BY <1>1, <2>1, <2>2, <2>3, EditFills
<1>8. QED
  BY <1>4, <1>5, <1>6, <1>7

\* The fields of an event that is appended.
LEMMA AppendedIs ==
  ASSUME Filled, NEW e \in EventNames, Live(e)
  PROVE  /\ DOMAIN Appended(e) = {Scopes[i] : i \in DOMAIN Scopes}
         /\ \A i \in DOMAIN Scopes : IsTree(Appended(e)[Scopes[i]])
<1> DEFINE fields == event[e].fields
           h == PopulatedEventHeader(fields["header"], event[e].class)
<1>1. /\ DOMAIN fields = {Scopes[i] : i \in DOMAIN Scopes}
      /\ \A i \in DOMAIN Scopes : IsTree(fields[Scopes[i]])
  BY FilledIs DEF HasTrees
<1>2. Appended(e) = [fields EXCEPT !["header"] = h]
  BY DEF Appended
<1> DEFINE f == fields["header"]
           c == event[e].class
           g == IF HasIntegerId(f) THEN GiveMember(dev, f, "id", c) ELSE f
<1>3. dev \in BOOLEAN /\ clock \in Nat /\ c \in Nat /\ IsTree(f)
  BY <1>1, FilledIs, ScopesAre DEF HasTrees
<1>4. IsTree(h)
  <2> HIDE DEF f, c
  <2>1. IsTree(g)
    BY <1>3, GiveMemberKeepsTree
  <2> HIDE DEF g
  <2>2. IsTree(GiveMember(dev, g, "timestamp", clock))
    BY <1>3, <2>1, GiveMemberKeepsTree
  <2>3. h = IF WantsStamp(f) THEN GiveMember(dev, g, "timestamp", clock) ELSE g
    BY DEF PopulatedEventHeader, f, c, g
  <2>4. QED
    BY <2>1, <2>2, <2>3
<1> HIDE DEF h, fields
<1>5. DOMAIN Appended(e) = DOMAIN fields
  BY <1>2
<1>6. \A i \in DOMAIN Scopes : IsTree(Appended(e)[Scopes[i]])
  BY <1>1, <1>2, <1>4
<1>7. QED
  BY <1>1, <1>5, <1>6

\* And of one that was.
IsAppended(s, e, b) ==
  /\ HasTrees(b) /\ DOMAIN b = EventParts /\ b.stream = s /\ (dev => b.frozen)
  /\ \A i \in DOMAIN Scopes : b.fields[Scopes[i]] =
        IF dev THEN Freeze(Appended(e)[Scopes[i]]) ELSE Appended(e)[Scopes[i]]

LEMMA AppendEventIs ==
  ASSUME IInv, Filled, NEW s \in StreamNames, NEW e \in EventNames, AppendEvent(s, e)
  PROVE  \E b : event' = [event EXCEPT ![e] = b] /\ IsAppended(s, e, b)
<1> DEFINE fields == Appended(e)
           frozen == [x \in DOMAIN fields |-> IF dev THEN Freeze(fields[x]) ELSE fields[x]]
           b == [event[e] EXCEPT !.stream = s, !.frozen = dev, !.fields = frozen]
<1>1. Live(e)
  BY DEF AppendEvent, Takes
<1>2. IsEvent(event[e]) /\ HasTrees(event[e])
  BY <1>1, PartsAreParts, FilledIs
<1>3. event' = [event EXCEPT ![e] = b]
  BY DEF AppendEvent
<1>4. /\ DOMAIN fields = {Scopes[i] : i \in DOMAIN Scopes}
      /\ \A i \in DOMAIN Scopes : IsTree(fields[Scopes[i]])
  BY <1>1, AppendedIs
<1> HIDE DEF fields
<1>5. /\ DOMAIN frozen = {Scopes[i] : i \in DOMAIN Scopes}
      /\ \A i \in DOMAIN Scopes :
           frozen[Scopes[i]] = IF dev THEN Freeze(fields[Scopes[i]]) ELSE fields[Scopes[i]]
  BY <1>4
<1> HIDE DEF frozen
<1>6. \A i \in DOMAIN Scopes : IsTree(frozen[Scopes[i]])
  BY <1>4, <1>5, FreezeIs
<1>7. /\ DOMAIN b = EventParts /\ b.stream = s /\ b.frozen = dev /\ b.fields = frozen
      /\ b.class = event[e].class
  BY <1>2 DEF IsEvent, EventParts
<1> HIDE DEF b
<1>8. HasTrees(b)
  BY <1>2, <1>5, <1>6, <1>7 DEF HasTrees
<1>9. \A i \in DOMAIN Scopes : b.fields[Scopes[i]] =
        IF dev THEN Freeze(Appended(e)[Scopes[i]]) ELSE Appended(e)[Scopes[i]]
  BY <1>5, <1>7 DEF fields
<1>10. IsAppended(s, e, b)
  BY <1>7, <1>8, <1>9 DEF IsAppended
<1>11. QED
  BY <1>3, <1>10

LEMMA AppendEventFills ==
  ASSUME IInv, Filled, NEW s \in StreamNames, NEW e \in EventNames, AppendEvent(s, e)
  PROVE  Filled'
<1> DEFINE c == [stream[s] EXCEPT !.pending = Append(@, e), !.appended = Append(@, e)]
<1>1. Made(s) /\ UNCHANGED <<dev, layout, clock>> /\ stream' = [stream EXCEPT ![s] = c]
  BY DEF AppendEvent
<1>2. PICK b : event' = [event EXCEPT ![e] = b] /\ HasTrees(b)
  BY AppendEventIs DEF IsAppended
<1>3. IsRecord(stream[s])
  BY <1>1, StreamIsWritable
<1>4. /\ DOMAIN c = StreamParts /\ c.context = stream[s].context /\ c.header = stream[s].header
      /\ c.classId = stream[s].classId /\ c.lastEnd = stream[s].lastEnd
      /\ c.discarded = stream[s].discarded /\ c.begin = stream[s].begin
  BY <1>3 DEF IsRecord, StreamParts
<1> HIDE DEF c
<1>5. IsFilled(c)
  BY <1>3, <1>4, RecordIs DEF IsFilled
<1>6. /\ \A t \in StreamNames : stream'[t] = IF t = s THEN c ELSE stream[t]
      /\ \A x \in EventNames : event'[x] = IF x = e THEN b ELSE event[x]
  BY <1>1, <1>2, PartsAreParts
<1>7. \A t \in StreamNames : Made(t)' => IsFilled(stream'[t])
  BY <1>5, <1>6, FilledIs DEF Made
<1>8. \A x \in EventNames : Live(x)' => HasTrees(event'[x])
  BY <1>2, <1>6, FilledIs DEF Live
<1>9. clock' \in Nat
  BY <1>1, FilledIs
<1>10. QED
  BY <1>1, <1>7, <1>8, <1>9, FilledAgain

LEMMA CreateEventFills ==
  ASSUME IInv, Filled, NEW e \in EventNames, CreateEvent(e)
  PROVE  Filled'
<1> DEFINE Begun(c) ==
             [made |-> TRUE, class |-> c, frozen |-> FALSE, stream |-> Nobody, held |-> TRUE,
              fields |-> [header |-> Create(layout.eventHeader),
                          streamContext |-> Create(layout.streamContext),
                          context |-> Create(layout.eventContext),
                          payload |-> Create(layout.payloads[c])]]
<1>1. PICK c \in DOMAIN layout.payloads : event' = [event EXCEPT ![e] = Begun(c)]
  BY DEF CreateEvent
<1>2. UNCHANGED <<dev, layout, clock, stream>>
  BY DEF CreateEvent
<1>3. c \in Nat
  <2>1. layout.payloads \in Seq(AnyType)
    BY FilledIs DEF IsLayout
  <2> DEFINE ps == layout.payloads
  <2>2. ps \in Seq(AnyType) /\ c \in DOMAIN ps
    BY <2>1
  <2> HIDE DEF ps
  <2>3. QED
    BY <2>2
<1>4. HasTrees(Begun(c))
  <2>1. \A t : IsTree(Create(t))
    BY CreateIsTree
  <2>2. {Scopes[i] : i \in DOMAIN Scopes} = {"header", "streamContext", "context", "payload"}
    BY ScopesAre
  <2>3. \A i \in DOMAIN Scopes : Scopes[i] \in {"header", "streamContext", "context", "payload"}
    BY <2>2
  <2> DEFINE b == Begun(c)
  <2>4. /\ b.class = c /\ DOMAIN b.fields = {"header", "streamContext", "context", "payload"}
        /\ IsTree(b.fields["header"]) /\ IsTree(b.fields["streamContext"])
        /\ IsTree(b.fields["context"]) /\ IsTree(b.fields["payload"])
    BY <2>1
  <2> HIDE DEF b
  <2>5. HasTrees(b)
    BY <1>3, <2>2, <2>3, <2>4 DEF HasTrees
  <2>6. QED
    BY <2>5 DEF b
<1> HIDE DEF Begun
<1>5. QED
  BY <1>1, <1>2, <1>4, EventIsFilled

LEMMA PutEventFills ==
  ASSUME IInv, Filled, NEW e \in EventNames, PutEvent(e)
  PROVE  Filled'
<1> DEFINE b == [event[e] EXCEPT !.held = FALSE]
<1>1. Live(e) /\ UNCHANGED <<dev, layout, clock, stream>>
  BY DEF PutEvent
<1>2. IsEvent(event[e]) /\ HasTrees(event[e])
  BY <1>1, PartsAreParts, FilledIs
<1>3. b.class = event[e].class /\ b.fields = event[e].fields
  BY <1>2 DEF IsEvent, EventParts
<1>4. event' = [event EXCEPT ![e] = b] \/ event' = [event EXCEPT ![e] = Unmade]
  BY DEF PutEvent
<1> HIDE DEF b
<1>5. HasTrees(b)
  BY <1>2, <1>3 DEF HasTrees
<1>6. QED
  BY <1>1, <1>4, <1>5, EventIsFilled

\* An event that a packet took keeps its fields as long as it lives.
LEMMA ReleasedIs ==
  ASSUME IInv, NEW es, NEW e \in EventNames, event' = Released(es), Live(e)'
  PROVE  /\ Live(e) /\ event'[e].fields = event[e].fields /\ event'[e].class = event[e].class
         /\ event'[e].frozen = event[e].frozen
         /\ e \in es => event'[e].stream = Nobody
         /\ e \notin es => event'[e] = event[e]
<1>1. event'[e] = IF e \notin es THEN event[e]
                  ELSE IF event[e].held THEN [event[e] EXCEPT !.stream = Nobody] ELSE Unmade
  BY DEF Released
<1>2. event[e] = Unmade \/ IsEvent(event[e])
  BY DEF IInv, Shaped
<1>3. CASE e \notin es
  BY <1>1, <1>3 DEF Live
<1>4. CASE e \in es
  <2>1. event[e].held
    BY <1>1, <1>4, UnmadeIs DEF Live
  <2>2. event'[e] = [event[e] EXCEPT !.stream = Nobody]
    BY <1>1, <1>4, <2>1
  <2>3. CASE event[e] = Unmade
    <3>1. DOMAIN event[e] = {"made"} /\ event[e].made = FALSE
      BY <2>3 DEF Unmade
    <3>2. event'[e].made = FALSE
      BY <2>2, <3>1
    <3>3. QED
      BY <3>2 DEF Live
  <2>4. CASE IsEvent(event[e])
    <3>1. DOMAIN event[e] = EventParts /\ event[e].made
      BY <2>4 DEF IsEvent
    <3>2. /\ event'[e].fields = event[e].fields /\ event'[e].class = event[e].class
          /\ event'[e].frozen = event[e].frozen /\ event'[e].stream = Nobody
      BY <2>2, <3>1 DEF EventParts
    <3>3. QED
      BY <1>4, <3>1, <3>2 DEF Live
  <2>5. QED
    BY <1>2, <2>3, <2>4
<1>5. QED
  BY <1>3, <1>4

\* The stream after its packet was written.
Wrote(s, z, content, failed) ==
  [Ended(z) EXCEPT !.pending = <<>>, !.count = @ + 1,
                   !.file = Append(@, Packet(stream[s], z, content, failed))]

HasPacket(z, b, p) ==
  /\ DOMAIN b = StreamParts /\ IsFilled(b) /\ IsContext(b.context)
  /\ b.pending = <<>> /\ b.count = z.count + 1 /\ b.file = Append(z.file, p)
  /\ b.discarded = z.discarded /\ b.lastEnd = z.lastEnd /\ b.made = z.made

LEMMA WrittenIs ==
  ASSUME NEW s, NEW z, IsRecord(z), NEW content, NEW failed
  PROVE  HasPacket(z, Wrote(s, z, content, failed), Packet(stream[s], z, content, failed))
<1> DEFINE y == Ended(z)
           p == Packet(stream[s], z, content, failed)
           b == [y EXCEPT !.pending = <<>>, !.count = @ + 1, !.file = Append(@, p)]
<1>1. IsRecord(y) /\ Same(z, y) /\ y.discarded = z.discarded /\ y.lastEnd = z.lastEnd
  BY EndedIs
<1> HIDE DEF y, p
<1>2. DOMAIN y = StreamParts
  BY <1>1 DEF IsRecord
<1>3. /\ DOMAIN b = StreamParts /\ b.pending = <<>> /\ b.count = y.count + 1 /\ b.made = y.made
      /\ b.file = Append(y.file, p) /\ b.context = y.context /\ b.header = y.header
      /\ b.classId = y.classId /\ b.lastEnd = y.lastEnd /\ b.discarded = y.discarded
      /\ b.begin = y.begin
  BY <1>2 DEF StreamParts
<1> HIDE DEF b
<1>4. IsFilled(b) /\ IsContext(b.context)
  BY <1>1, <1>3, RecordIs DEF IsFilled
<1>5. QED
  BY <1>1, <1>3, <1>4 DEF b, y, p, Same, Wrote, HasPacket

LEMMA FlushFills ==
  ASSUME IInv, Filled, NEW s \in StreamNames, Flush(s)
  PROVE  Filled'
<1>1. PICK z, content, failed : IsRecord(z) /\ (Leaves(s, z) \/ Writes(s, z, content, failed))
  BY FlushIs
<1>2. UNCHANGED <<dev, layout, clock>>
  BY FlushIs
<1>3. CASE Leaves(s, z)
  <2>1. IsFilled(Ended(z))
    BY <1>1, EndedIs DEF IsRecord
  <2>2. QED
    BY <1>2, <1>3, <2>1, StreamIsFilled DEF Leaves
<1>4. CASE Writes(s, z, content, failed)
  <2> DEFINE b == Wrote(s, z, content, failed)
  <2>1. IsFilled(b)
    BY <1>1, WrittenIs DEF HasPacket
  <2>2. stream' = [stream EXCEPT ![s] = b] /\ event' = Released(Pending(s))
    BY <1>4 DEF Writes, Wrote
  <2> HIDE DEF b
  <2>3. \A t \in StreamNames : Made(t)' => IsFilled(stream'[t])
    <3>1. \A t \in StreamNames : stream'[t] = IF t = s THEN b ELSE stream[t]
      BY <2>2, PartsAreParts
    <3>2. QED
      BY <2>1, <3>1, FilledIs DEF Made
  <2>4. ASSUME NEW e \in EventNames, Live(e)' PROVE HasTrees(event'[e])
    <3>1. Live(e) /\ event'[e].fields = event[e].fields /\ event'[e].class = event[e].class
      BY <2>2, <2>4, ReleasedIs
    <3>2. QED
      BY <3>1, FilledIs DEF HasTrees
  <2>5. clock' \in Nat
    BY <1>2, FilledIs
  <2>6. QED
    BY <1>2, <2>3, <2>4, <2>5, FilledAgain
<1>5. QED
  BY <1>1, <1>3, <1>4

LEMMA RefuseFlushFills ==
  ASSUME IInv, Filled, NEW s \in StreamNames, RefuseFlush(s)
  PROVE  Filled'
<1>1. Made(s) /\ Leaves(s, stream[s]) /\ UNCHANGED <<dev, layout, clock>>
  BY DEF RefuseFlush
<1>2. IsFilled(Ended(stream[s]))
  BY <1>1, StreamIsWritable, EndedIs DEF IsRecord
<1>3. QED
  BY <1>1, <1>2, StreamIsFilled DEF Leaves

LEMMA FilledBegins == Init => Filled
<1> SUFFICES ASSUME Init PROVE Filled
  OBVIOUS
<1>1. PICK client \in Clients : dev = client.dev /\ layout = client.layout
  BY DEF Init
<1>2. dev \in BOOLEAN /\ IsLayout(layout)
  BY <1>1, StreamsAssumption
<1>3. clock = 0 /\ \A s \in StreamNames : ~Made(s)
  BY UnmadeIs DEF Init, Made
<1>4. \A e \in EventNames : ~Live(e)
  BY UnmadeIs DEF Init, Live
<1>5. QED
  BY <1>2, <1>3, <1>4 DEF Filled, Files

LEMMA FilledStays == IInv /\ Filled /\ [Next]_vars => Filled'
<1> SUFFICES ASSUME IInv, Filled, [Next]_vars PROVE Filled'
  OBVIOUS
<1>1. ASSUME NEW s \in StreamNames, StreamStep(s) PROVE Filled'
  BY <1>1, StreamEditsFill, FlushFills, RefuseFlushFills DEF StreamStep
<1>2. ASSUME NEW e \in EventNames, EventStep(e) PROVE Filled'
  BY <1>2, CreateEventFills, PutEventFills, EventEditsFill DEF EventStep
<1>3. ASSUME NEW s \in StreamNames, NEW e \in EventNames, AppendEvent(s, e) PROVE Filled'
  BY <1>3, AppendEventFills
<1>4. ASSUME UNCHANGED <<dev, layout, stream, event>>, clock' \in Nat PROVE Filled'
  <2>1. \A t \in StreamNames : Made(t)' => IsFilled(stream'[t])
    BY <1>4, FilledIs DEF Made
  <2>2. \A e \in EventNames : Live(e)' => HasTrees(event'[e])
    BY <1>4, FilledIs DEF Live
  <2>3. QED
    BY <1>4, <2>1, <2>2, FilledAgain
<1>5. CASE SetTime
  BY <1>4, <1>5, InputsAreNumbers DEF SetTime
<1>6. CASE UNCHANGED vars
  BY <1>4, <1>6, FilledIs DEF vars
<1>7. QED
  BY <1>1, <1>2, <1>3, <1>5, <1>6 DEF Next

(***************************************************************************)
(* What packets say.                                                       *)
(***************************************************************************)

LEMMA AppendIs ==
  ASSUME NEW file, file \in Seq({file[k] : k \in DOMAIN file}), NEW p
  PROVE  LET n == Len(file)
             m == Append(file, p)
         IN /\ n \in Nat /\ DOMAIN file = 1..n
            /\ Len(m) = n + 1 /\ DOMAIN m = 1..(n + 1) /\ m[n + 1] = p
            /\ \A i \in 1..n : m[i] = file[i]
<1> DEFINE R == {file[k] : k \in DOMAIN file}
           n == Len(file)
           m == Append(file, p)
<1>1. n \in Nat /\ DOMAIN file = 1..n
  BY LenProperties
<1>2. file \in Seq(R \cup {p})
  <2>1. file \in Seq(R) /\ R \subseteq R \cup {p}
    OBVIOUS
  <2> HIDE DEF R
  <2>2. file \in [1..n -> R \cup {p}]
    BY <1>1, <2>1
  <2>3. QED
    BY <1>1, <2>2, SeqDef
<1>3. m \in Seq(R \cup {p}) /\ Len(m) = n + 1 /\ m[n + 1] = p /\ \A i \in 1..n : m[i] = file[i]
  <2> HIDE DEF R
  <2> QED
    BY <1>2, AppendProperties
<1>4. DOMAIN m = 1..Len(m)
  BY <1>3, LenProperties
<1>5. QED
  BY <1>1, <1>3, <1>4

\* What two contexts say is the same.
LEMMA SaidAgrees ==
  ASSUME IsLayout(layout), NEW f, NEW g, IsContext(f), IsContext(g), NEW name, NEW v
  PROVE  Said(g, name, v) = Said(f, name, v) /\ (Holds(g, name, v) <=> Holds(f, name, v))
<1>1. /\ HasMember(g, name) <=> HasMember(f, name)
      /\ HasMember(f, name) => Place(g, name) = Place(f, name)
                               /\ BitsAt(g, Place(f, name)) = BitsAt(f, Place(f, name))
  BY ContextHas, ContextsAgree
<1>2. QED
  BY <1>1 DEF Said, Holds

\* A stream without a new packet, and no fewer discarded events.
LEMMA TellsAgain ==
  ASSUME IsLayout(layout), NEW st, NEW b, IsContext(st.context), IsContext(b.context), IsTold(st),
         b.file = st.file, b.count = st.count, st.discarded \in Nat, b.discarded \in Nat,
         b.discarded >= st.discarded
  PROVE  IsTold(b)
<1>1. \A name : HasMember(b.context, name) <=> HasMember(st.context, name)
  BY ContextsAgree
<1>2. HasPacketSize(b) <=> HasPacketSize(st)
  BY <1>1 DEF HasPacketSize
<1>3. ASSUME NEW k \in DOMAIN b.file
      PROVE  SaysSizes(b.context, b.file[k]) /\ SaysDiscarded(b, k)
  <2>1. SaysSizes(st.context, st.file[k]) /\ SaysDiscarded(st, k)
    BY DEF IsTold
  <2>2. SaysSizes(b.context, b.file[k])
    BY <1>1, <2>1, SaidAgrees DEF SaysSizes
  <2>3. st.file[k].discarded \in 0..b.discarded
    BY <2>1 DEF SaysDiscarded
  <2>4. SaysDiscarded(b, k)
    BY <2>1, <2>3, SaidAgrees DEF SaysDiscarded
  <2>5. QED
    BY <2>2, <2>4
<1>4. QED
  BY <1>2, <1>3 DEF IsTold

\* A written packet says its sizes, and its count.
LEMMA PacketSays ==
  ASSUME IsLayout(layout), NEW st, NEW z, IsRecord(st), IsRecord(z),
         NEW content \in Nat, NEW failed, IsWritten(st, z, content), NEW f, IsContext(f)
  PROVE  LET p == Packet(st, z, content, failed)
         IN /\ SaysSizes(f, p) /\ p.discarded = z.discarded
            /\ ~dev => p.saidDiscarded = Said(f, "events_discarded", z.discarded)
<1> DEFINE p == Packet(st, z, content, failed)
<1>1. /\ p.content = content /\ p.discarded = z.discarded
      /\ p.saidSize = Recorded(z.context, "packet_size")
      /\ p.saidContent = Recorded(z.context, "content_size")
      /\ p.saidDiscarded = Recorded(z.context, "events_discarded")
  BY DEF Packet
<1> HIDE DEF p
<1>2. IsContext(st.context) /\ IsContext(z.context)
  BY RecordIs
<1>3. \A name : (HasMember(z.context, name) <=> HasMember(st.context, name))
                /\ (HasMember(f, name) <=> HasMember(st.context, name))
  BY <1>2, ContextsAgree
<1>4. ASSUME NEW name, NEW v, HasMember(z.context, name) => Member(z.context, name).value = v
      PROVE  Recorded(z.context, name) = Said(f, name, v)
  <2>1. Recorded(z.context, name) = Said(z.context, name, v)
    BY <1>4 DEF Recorded, Said
  <2>2. QED
    BY <1>2, <2>1, SaidAgrees
<1>5. p.saidSize = Said(f, "packet_size", UpToByte(content))
  BY <1>1, <1>3, <1>4 DEF IsWritten
<1>6. p.saidContent = Said(f, "content_size", content)
  BY <1>1, <1>3, <1>4 DEF IsWritten
<1>7. ~dev => p.saidDiscarded = Said(f, "events_discarded", z.discarded)
  BY <1>1, <1>3, <1>4 DEF IsWritten
<1>8. HasMember(f, "content_size") => HasMember(f, "packet_size")
  BY <1>3 DEF IsWritten, HasPacketSize, HasMember
<1>9. ~HasMember(f, "content_size") => content % 8 = 0
  <2>1. SizesAreTold(st, content)
    BY DEF IsWritten
  <2>2. ~IsField(st.context) => ~HasPacketSize(st)
    BY DEF HasPacketSize, HasMember
  <2>3. QED
    BY <1>3, <2>1, <2>2 DEF SizesAreTold
<1>10. SaysSizes(f, p)
  BY <1>1, <1>5, <1>6, <1>8, <1>9 DEF SaysSizes
<1>11. QED
  BY <1>1, <1>7, <1>10 DEF p

\* A stream with one more packet.
LEMMA TellsMore ==
  ASSUME IsLayout(layout), NEW st, IsContext(st.context), IsTold(st), st.discarded \in Nat,
         st.file \in Seq({st.file[k] : k \in DOMAIN st.file}), st.count = 1 => HasPacketSize(st),
         NEW b, IsContext(b.context), b.discarded \in Nat, b.discarded >= st.discarded,
         NEW p, b.file = Append(st.file, p), b.count = st.count + 1,
         SaysSizes(b.context, p), p.discarded = b.discarded,
         ~dev => p.saidDiscarded = Said(b.context, "events_discarded", b.discarded)
  PROVE  IsTold(b)
<1> DEFINE n == Len(st.file)
           file == b.file
<1>1. /\ n \in Nat /\ DOMAIN st.file = 1..n
      /\ Len(file) = n + 1 /\ DOMAIN file = 1..(n + 1) /\ file[n + 1] = p
      /\ \A i \in 1..n : file[i] = st.file[i]
  BY AppendIs
<1> HIDE DEF n
<1>2. st.count = n
  BY DEF IsTold, n
<1>3. b.count = Len(file)
  BY <1>1, <1>2
<1>4. \A name : HasMember(b.context, name) <=> HasMember(st.context, name)
  BY ContextsAgree
<1>5. HasPacketSize(b) \/ b.count <= 1
  <2>1. HasPacketSize(b) <=> HasPacketSize(st)
    BY <1>4 DEF HasPacketSize
  <2>2. HasPacketSize(st) \/ (st.count <= 1 /\ st.count # 1)
    BY DEF IsTold
  <2>3. QED
    BY <1>1, <1>2, <2>1, <2>2
<1> HIDE DEF file
<1>6. ASSUME NEW k \in 1..n
      PROVE  /\ SaysSizes(b.context, file[k]) /\ SaysDiscarded(b, k)
             /\ file[k].discarded \in 0..b.discarded
  <2> DEFINE q == file[k]
  <2>1. SaysSizes(st.context, q) /\ SaysDiscarded(st, k) /\ q = st.file[k]
    BY <1>1 DEF IsTold
  <2> HIDE DEF q
  <2>2. SaysSizes(b.context, q)
    BY <1>4, <2>1, SaidAgrees DEF SaysSizes
  <2>3. q.discarded \in 0..b.discarded
    BY <2>1 DEF SaysDiscarded
  <2>4. \A j \in 1..k : file[j].discarded <= q.discarded
    <3>1. \A j \in 1..k : j \in 1..n
      BY <1>1
    <3>2. QED
      BY <1>1, <2>1, <3>1 DEF SaysDiscarded
  <2>5. ~dev => q.saidDiscarded = Said(b.context, "events_discarded", q.discarded)
    BY <2>1, SaidAgrees DEF SaysDiscarded
  <2>6. SaysDiscarded(b, k)
    BY <2>3, <2>4, <2>5 DEF SaysDiscarded, q, file
  <2>7. QED
    BY <2>2, <2>3, <2>6 DEF q
<1>7. SaysSizes(b.context, file[n + 1]) /\ SaysDiscarded(b, n + 1)
  <2>1. \A j \in 1..(n + 1) : file[j].discarded <= p.discarded
    <3> SUFFICES ASSUME NEW j \in 1..(n + 1) PROVE file[j].discarded <= p.discarded
      OBVIOUS
    <3>1. CASE j = n + 1
      BY <1>1, <3>1
    <3>2. CASE j # n + 1
      <4>1. j \in 1..n
        BY <1>1, <3>2
      <4>2. QED
        BY <1>6, <4>1
    <3>3. QED
      BY <3>1, <3>2
  <2>2. p.discarded \in 0..b.discarded
    OBVIOUS
  <2>3. QED
    BY <1>1, <2>1, <2>2 DEF SaysDiscarded, file
<1>8. \A k \in 1..(n + 1) : k \in 1..n \/ k = n + 1
  BY <1>1
<1>9. QED
  BY <1>1, <1>3, <1>5, <1>6, <1>7, <1>8 DEF IsTold, file

LEMMA WritesTell ==
  ASSUME IInv, Filled, Told, NEW s \in StreamNames, Made(s),
         NEW z, IsRecord(z), Same(stream[s], z), z.discarded >= stream[s].discarded,
         NEW content \in Nat, NEW failed, IsWritten(stream[s], z, content)
  PROVE  IsTold(Wrote(s, z, content, failed))
<1> DEFINE st == stream[s]
           p == Packet(stream[s], z, content, failed)
           b == Wrote(s, z, content, failed)
<1>1. IsRecord(st) /\ IsTold(st) /\ IsStream(st)
  BY StreamIsWritable, PartsAreParts DEF Told, Files
<1>2. /\ IsContext(b.context) /\ b.count = z.count + 1 /\ b.file = Append(z.file, p)
      /\ b.discarded = z.discarded
  <2>1. HasPacket(z, b, p)
    BY WrittenIs
  <2> HIDE DEF b, p
  <2>2. QED
    BY <2>1 DEF HasPacket
<1> HIDE DEF b
<1>3. IsLayout(layout) /\ IsContext(st.context) /\ IsContext(z.context)
      /\ z.discarded \in Nat /\ st.discarded \in Nat
  BY <1>1, RecordIs, FilledIs
<1>4. SaysSizes(b.context, p) /\ p.discarded = z.discarded
      /\ (~dev => p.saidDiscarded = Said(b.context, "events_discarded", z.discarded))
  BY <1>1, <1>2, <1>3, PacketSays
<1> HIDE DEF p
<1>5. b.file = Append(st.file, p) /\ b.count = st.count + 1
  BY <1>2 DEF Same
<1>6. st.file \in Seq({st.file[k] : k \in DOMAIN st.file}) /\ (st.count = 1 => HasPacketSize(st))
  BY <1>1 DEF IsStream, IsWritten
<1> HIDE DEF st
<1>7. IsTold(b)
  <2>1. b.discarded \in Nat /\ b.discarded >= st.discarded /\ p.discarded = b.discarded
        /\ (~dev => p.saidDiscarded = Said(b.context, "events_discarded", b.discarded))
    BY <1>2, <1>3, <1>4 DEF st
  <2>2. QED
    BY <1>1, <1>2, <1>3, <1>4, <1>5, <1>6, <2>1, TellsMore
<1>8. QED
  BY <1>7 DEF b, p, st

(***************************************************************************)
(* What becomes of a stream in a step: it is created, it keeps its file,   *)
(* or it gets one more packet.                                             *)
(***************************************************************************)

Keeps(a, b) == b.file = a.file /\ b.count = a.count /\ b.discarded >= a.discarded

Extends(s, b, z, content, failed) ==
  /\ content \in Nat /\ IsRecord(z) /\ Same(stream[s], z)
  /\ z.discarded >= stream[s].discarded /\ IsWritten(stream[s], z, content)
  /\ b = Wrote(s, z, content, failed)

Moves(s, b) ==
  \/ b.file = <<>> /\ b.count = 0
  \/ Made(s) /\ Keeps(stream[s], b)
  \/ Made(s) /\ \E z, content, failed : Extends(s, b, z, content, failed)

LEMMA StandingStill ==
  ASSUME IInv, Filled, NEW s \in StreamNames, Made(s)
  PROVE  Moves(s, stream[s])
<1>1. stream[s].discarded \in Nat
  BY StreamIsWritable, RecordIs
<1>2. QED
  BY <1>1 DEF Moves, Keeps

LEMMA OneMoves ==
  ASSUME IInv, Filled, NEW s \in StreamNames, NEW b, Moves(s, b), stream' = [stream EXCEPT ![s] = b]
  PROVE  \A t \in StreamNames : Made(t)' => Moves(t, stream'[t])
<1> SUFFICES ASSUME NEW t \in StreamNames, Made(t)' PROVE Moves(t, stream'[t])
  OBVIOUS
<1>1. stream'[t] = IF t = s THEN b ELSE stream[t]
  BY PartsAreParts
<1>2. CASE t = s
  BY <1>1, <1>2
<1>3. CASE t # s
  <2>1. stream'[t] = stream[t] /\ Made(t)
    BY <1>1, <1>3 DEF Made
  <2>2. QED
    BY <2>1, StandingStill
<1>4. QED
  BY <1>2, <1>3

LEMMA StreamEditsMove ==
  ASSUME IInv, Filled, NEW s \in StreamNames,
         CreateStream(s) \/ AppendDiscarded(s) \/ GiveContextMember(s) \/ SetPacketContext(s)
  PROVE  \A t \in StreamNames : Made(t)' => Moves(t, stream'[t])
<1>1. ASSUME Made(s) PROVE DOMAIN stream[s] = StreamParts /\ stream[s].discarded \in Nat
  BY <1>1, StreamIsWritable, RecordIs DEF IsRecord
<1>2. CASE CreateStream(s)
  <2> DEFINE Begun(id) ==
               [made |-> TRUE, id |-> id, classId |-> 0,
                header |-> PopulateHeader(Create(layout.packetHeader), 0),
                context |-> GiveMember(dev, Create(layout.packetContext), "events_discarded", 0),
                lastEnd |-> NoTime, discarded |-> 0, count |-> 0,
                pending |-> <<>>, file |-> <<>>, appended |-> <<>>,
                ok |-> TRUE, begin |-> 0]
  <2>1. PICK asked \in Ids \cup {AutoId} :
           stream' = [stream EXCEPT ![s] = Begun(IF asked = AutoId THEN nextId ELSE asked)]
    BY <1>2 DEF CreateStream
  <2>2. \A id : Begun(id).file = <<>> /\ Begun(id).count = 0
    OBVIOUS
  <2> HIDE DEF Begun
  <2>3. \A id : Moves(s, Begun(id))
    BY <2>2 DEF Moves
  <2>4. QED
    BY <2>1, <2>3, OneMoves
<1>3. CASE AppendDiscarded(s)
  <2>1. PICK n \in Counts :
          /\ (stream[s].discarded + n) % Word >= stream[s].discarded
          /\ stream' = [stream EXCEPT ![s].discarded = (stream[s].discarded + n) % Word,
                        ![s].context = GiveMember(dev, @, "events_discarded",
                                                  (stream[s].discarded + n) % Word)]
    BY <1>3 DEF AppendDiscarded
  <2> DEFINE st == stream[s]
             count == (st.discarded + n) % Word
             f == GiveMember(dev, st.context, "events_discarded", count)
             b == [st EXCEPT !.discarded = count, !.context = f]
  <2>2. Made(s)
    BY <1>3 DEF AppendDiscarded
  <2>3. stream' = [stream EXCEPT ![s] = b] /\ count >= st.discarded
    BY <2>1
  <2> HIDE DEF count, f
  <2>4. b.file = st.file /\ b.count = st.count /\ b.discarded = count
    BY <1>1, <2>2 DEF StreamParts
  <2> HIDE DEF b
  <2>5. Moves(s, b)
    BY <2>2, <2>3, <2>4 DEF Moves, Keeps
  <2>6. QED
    BY <2>3, <2>5, OneMoves
<1>4. CASE GiveContextMember(s) \/ SetPacketContext(s)
  <2>1. Made(s)
    BY <1>4 DEF GiveContextMember, SetPacketContext
  <2> DEFINE st == stream[s]
             b(f) == [st EXCEPT !.context = f]
  <2>2. PICK f : stream' = [stream EXCEPT ![s] = b(f)]
    <3>1. CASE SetPacketContext(s)
      BY <3>1 DEF SetPacketContext
    <3>2. CASE GiveContextMember(s)
      <4> DEFINE names == NamesOf(stream[s].context)
      <4>0. PICK i \in DOMAIN names, v \in Values :
               stream' = [stream EXCEPT ![s].context = GiveMember(dev, @, names[i], v)]
        BY <3>2 DEF GiveContextMember
      <4> DEFINE f == GiveMember(dev, st.context, names[i], v)
      <4>1. stream' = [stream EXCEPT ![s] = b(f)]
        BY <4>0
      <4> HIDE DEF f, b
      <4>2. QED
        BY <4>1
    <3>3. QED
      BY <1>4, <3>1, <3>2
  <2>3. b(f).file = st.file /\ b(f).count = st.count /\ b(f).discarded = st.discarded
    BY <1>1, <2>1 DEF StreamParts
  <2> HIDE DEF b
  <2>4. Moves(s, b(f))
    BY <1>1, <2>1, <2>3 DEF Moves, Keeps
  <2>5. QED
    BY <2>2, <2>4, OneMoves
<1>5. QED
  BY <1>2, <1>3, <1>4

LEMMA LeavesMoves ==
  ASSUME IInv, Filled, NEW s \in StreamNames, Made(s), NEW z, IsRecord(z), Same(stream[s], z),
         z.discarded >= stream[s].discarded, Leaves(s, z)
  PROVE  \A t \in StreamNames : Made(t)' => Moves(t, stream'[t])
<1> DEFINE b == Ended(z)
<1>1. Same(z, b) /\ b.discarded = z.discarded
  BY EndedIs
<1>2. stream' = [stream EXCEPT ![s] = b]
  BY DEF Leaves
<1> HIDE DEF b
<1>3. Moves(s, b)
  BY <1>1 DEF Moves, Keeps, Same
<1>4. QED
  BY <1>2, <1>3, OneMoves

LEMMA FlushMoves ==
  ASSUME IInv, Filled, NEW s \in StreamNames, Flush(s) \/ RefuseFlush(s)
  PROVE  \A t \in StreamNames : Made(t)' => Moves(t, stream'[t])
<1>1. CASE Flush(s)
  <2>1. Made(s)
    BY <1>1 DEF Flush
  <2>2. PICK z, content, failed :
              /\ content \in Nat /\ IsRecord(z) /\ Same(stream[s], z)
              /\ z.discarded >= stream[s].discarded
              /\ \/ Leaves(s, z)
                 \/ Writes(s, z, content, failed) /\ IsWritten(stream[s], z, content)
    BY <1>1, FlushIs
  <2>3. CASE Leaves(s, z)
    BY <2>1, <2>2, <2>3, LeavesMoves
  <2>4. CASE Writes(s, z, content, failed) /\ IsWritten(stream[s], z, content)
    <3> DEFINE b == Wrote(s, z, content, failed)
    <3>1. stream' = [stream EXCEPT ![s] = b]
      BY <2>4 DEF Writes, Wrote
    <3> HIDE DEF b
    <3>2. Extends(s, b, z, content, failed)
      BY <2>2, <2>4 DEF Extends, b
    <3>3. Moves(s, b)
      BY <2>1, <3>2 DEF Moves
    <3>4. QED
      BY <3>1, <3>3, OneMoves
  <2>5. QED
    BY <2>2, <2>3, <2>4
<1>2. CASE RefuseFlush(s)
  <2>1. Made(s) /\ Leaves(s, stream[s])
    BY <1>2 DEF RefuseFlush
  <2>2. IsRecord(stream[s]) /\ Same(stream[s], stream[s]) /\ stream[s].discarded \in Nat
    BY <2>1, StreamIsWritable, RecordIs DEF Same
  <2>3. QED
    BY <2>1, <2>2, LeavesMoves
<1>3. QED
  BY <1>1, <1>2

LEMMA StreamsMove ==
  ASSUME IInv, Filled, [Next]_vars
  PROVE  \A t \in StreamNames : Made(t)' => Moves(t, stream'[t])
<1>1. ASSUME NEW s \in StreamNames, StreamStep(s)
      PROVE  \A t \in StreamNames : Made(t)' => Moves(t, stream'[t])
  BY <1>1, StreamEditsMove, FlushMoves DEF StreamStep
<1>2. CASE UNCHANGED stream
  BY <1>2, StandingStill DEF Made
<1>3. ASSUME NEW e \in EventNames, EventStep(e) PROVE UNCHANGED stream
  BY <1>3 DEF EventStep, CreateEvent, PutEvent, SetValue, SetLength, SelectChoice, SetPayload, Edits
<1>4. ASSUME NEW s \in StreamNames, NEW e \in EventNames, AppendEvent(s, e)
      PROVE  \A t \in StreamNames : Made(t)' => Moves(t, stream'[t])
  <2> DEFINE b == [stream[s] EXCEPT !.pending = Append(@, e), !.appended = Append(@, e)]
  <2>1. Made(s) /\ stream' = [stream EXCEPT ![s] = b]
    BY <1>4 DEF AppendEvent
  <2>2. DOMAIN stream[s] = StreamParts /\ stream[s].discarded \in Nat
    BY <2>1, StreamIsWritable, RecordIs DEF IsRecord
  <2>3. b.file = stream[s].file /\ b.count = stream[s].count /\ b.discarded = stream[s].discarded
    BY <2>2 DEF StreamParts
  <2> HIDE DEF b
  <2>4. Moves(s, b)
    BY <2>1, <2>2, <2>3 DEF Moves, Keeps
  <2>5. QED
    BY <2>1, <2>4, OneMoves
<1>5. CASE SetTime \/ UNCHANGED vars
  BY <1>2, <1>5 DEF SetTime, vars
<1>6. QED
  BY <1>1, <1>2, <1>3, <1>4, <1>5 DEF Next

LEMMA SettingsStay == [Next]_vars => dev' = dev /\ layout' = layout
BY DEF Next, StreamStep, EventStep, CreateStream, AppendDiscarded, GiveContextMember,
       SetPacketContext, Flush, RefuseFlush, CreateEvent, PutEvent, SetValue, SetLength,
       SelectChoice, SetPayload, Edits, AppendEvent, SetTime, vars

(***************************************************************************)
(* Told stays.                                                             *)
(***************************************************************************)

LEMMA ToldBegins == Init => Told
BY UnmadeIs DEF Init, Told, Files, Made

LEMMA ToldStays == IInv /\ Filled /\ Told /\ [Next]_vars => Told'
<1> SUFFICES ASSUME IInv, Filled, Told, [Next]_vars, NEW s \in StreamNames, Made(s)'
             PROVE  IsTold(stream[s])'
  BY DEF Told, Files
<1> DEFINE b == stream'[s]
           st == stream[s]
<1>1. Filled' /\ IInv'
  BY FilledStays, StreamsKeep
<1>2. dev' = dev /\ layout' = layout /\ IsLayout(layout)
  BY SettingsStay, FilledIs
<1>3. IsContext(b.context) /\ b.discarded \in Nat
  <2>1. IsFilled(stream[s])'
    BY <1>1 DEF Filled, Files
  <2>2. QED
    BY <1>2, <2>1 DEF IsFilled, IsContext
<1>4. Moves(s, b)
  BY StreamsMove
<1>5. IsTold(b)
  <2>1. CASE b.file = <<>> /\ b.count = 0
    BY <2>1 DEF IsTold
  <2>2. CASE Made(s) /\ Keeps(st, b)
    <3>1. IsTold(st) /\ IsContext(st.context) /\ st.discarded \in Nat
      BY <2>2, StreamIsWritable, RecordIs DEF Told, Files
    <3> HIDE DEF b, st
    <3>2. QED
      BY <1>2, <1>3, <2>2, <3>1, TellsAgain DEF Keeps
  <2>3. CASE Made(s) /\ \E z, content, failed : Extends(s, b, z, content, failed)
    <3>1. PICK z, content, failed : Extends(s, b, z, content, failed)
      BY <2>3
    <3> HIDE DEF b
    <3>2. QED
      BY <2>3, <3>1, WritesTell DEF Extends
  <2>4. QED
    BY <1>4, <2>1, <2>2, <2>3 DEF Moves
<1>6. QED
  BY <1>2, <1>5 DEF IsTold, SaysSizes, SaysDiscarded

(***************************************************************************)
(* Told packets are readable.                                              *)
(***************************************************************************)

LEMMA UpToByteIs ==
  ASSUME NEW c \in Nat
  PROVE  /\ UpToByte(c) \in Nat /\ UpToByte(c) % 8 = 0 /\ UpToByte(c) \in c..(c + 7)
         /\ c % 8 = 0 => UpToByte(c) = c
<1> DEFINE d == (c + 7) \div 8
<1>1. d \in Nat /\ d * 8 <= c + 7 /\ c + 7 < d * 8 + 8
  OBVIOUS
<1>2. UpToByte(c) = d * 8
  BY DEF UpToByte
<1>3. c % 8 = 0 => c = d * 8
  <2>1. SUFFICES ASSUME c % 8 = 0 PROVE c = d * 8
    OBVIOUS
  <2> DEFINE e == c \div 8
  <2>2. e \in Nat /\ c = e * 8
    BY <2>1
  <2> HIDE DEF e, d
  <2>3. QED
    BY <1>1, <2>2
<1> HIDE DEF d
<1>4. (d * 8) % 8 = 0
  BY <1>1
<1>5. QED
  BY <1>1, <1>2, <1>3, <1>4

LEMMA SaidIs ==
  ASSUME IsLayout(layout), NEW f, IsContext(f), NEW name, NEW v \in Nat, Holds(f, name, v)
  PROVE  Said(f, name, v) = IF HasMember(f, name) THEN v ELSE -1
<1>1. CASE ~HasMember(f, name)
  BY <1>1 DEF Said
<1>2. CASE HasMember(f, name)
  <2> DEFINE p == Place(f, name)
             b == BitsAt(f, p)
  <2>1. p \in DOMAIN f
    BY <1>2, ContextHas
  <2>2. b \in Sizes
    <3>1. IsTree(f)
      BY ContextIsTree
    <3> HIDE DEF p
    <3>2. f[p].type \in DOMAIN Shape
      BY <2>1, <3>1, PartIs
    <3>3. QED
      BY <3>2, ShapeIs DEF BitsAt
  <2>3. v < 2 ^ b
    BY <1>2 DEF Holds
  <2> DEFINE m == 2 ^ b
  <2>4. m \in Nat \ {0} /\ v < m
    BY <2>2, <2>3, SizesAre
  <2>5. Said(f, name, v) = v % m
    BY <1>2 DEF Said
  <2> HIDE DEF p, m
  <2>6. v % m = v
    BY <2>4
  <2>7. QED
    BY <1>2, <2>5, <2>6
<1>3. QED
  BY <1>1, <1>2

\* The sizes that are said are those of the packet.
Reads(file, k) ==
  LET size == IF file[k].saidSize = -1 THEN file[k].content ELSE file[k].saidSize
      content == IF file[k].saidContent = -1 THEN size ELSE file[k].saidContent
  IN /\ file[k].saidSize = -1 => Len(file) = 1
     /\ content = file[k].content
     /\ size % 8 = 0 /\ size \in content..(content + 7)

LEMMA SizesAreRead ==
  ASSUME IsLayout(layout), NEW st, IsContext(st.context), IsTold(st),
         NEW k \in DOMAIN st.file, SizesAreHeld(st, st.file[k].content),
         Len(st.file) \in Nat, k \in 1..Len(st.file)
  PROVE  Reads(st.file, k)
<1> DEFINE f == st.context
           c == st.file[k].content
           ps == st.file[k].saidSize
           cs == st.file[k].saidContent
           hasPs == HasMember(f, "packet_size")
           hasCs == HasMember(f, "content_size")
           u == UpToByte(c)
<1>1. /\ c \in Nat /\ ps = Said(f, "packet_size", u) /\ cs = Said(f, "content_size", c)
      /\ (hasCs => hasPs) /\ (~hasCs => c % 8 = 0)
  BY DEF IsTold, SaysSizes
<1>2. Holds(f, "packet_size", u) /\ Holds(f, "content_size", c)
  BY DEF SizesAreHeld
<1>3. hasPs \/ st.count <= 1
  BY DEF IsTold, HasPacketSize
<1>4. st.count = Len(st.file)
  BY DEF IsTold
<1> HIDE DEF c, u, f, ps, cs
<1>5. u \in Nat /\ u % 8 = 0 /\ u \in c..(c + 7) /\ (c % 8 = 0 => u = c)
  BY <1>1, UpToByteIs DEF u
<1>6. ps = IF hasPs THEN u ELSE -1
  BY <1>1, <1>2, <1>5, SaidIs DEF f
<1>7. cs = IF hasCs THEN c ELSE -1
  BY <1>1, <1>2, SaidIs DEF f
<1> HIDE DEF hasPs, hasCs
<1>8. ps = -1 => Len(st.file) = 1
  <2> SUFFICES ASSUME ps = -1 PROVE Len(st.file) = 1
    OBVIOUS
  <2>1. u # -1
    BY <1>5
  <2>2. ~hasPs
    BY <1>6, <2>1
  <2>3. Len(st.file) <= 1
    BY <1>3, <1>4, <2>2
  <2> DEFINE n == Len(st.file)
  <2>4. n \in Nat /\ k \in 1..n /\ n <= 1
    BY <2>3
  <2> HIDE DEF n
  <2>5. n = 1
    BY <2>4
  <2>6. QED
    BY <2>5 DEF n
<1> DEFINE size == IF ps = -1 THEN c ELSE ps
           content == IF cs = -1 THEN size ELSE cs
<1>9. content = c /\ size % 8 = 0 /\ size \in content..(content + 7)
  <2>1. CASE hasPs
    BY <1>1, <1>5, <1>6, <1>7, <2>1
  <2>2. CASE ~hasPs
    <3>1. ~hasCs /\ c % 8 = 0
      BY <1>1, <2>2
    <3>2. QED
      BY <1>1, <1>6, <1>7, <2>2, <3>1
  <2>3. QED
    BY <2>1, <2>2
<1>10. QED
  BY <1>8, <1>9 DEF Reads, c, ps, cs

LEMMA DiscardedIsRead ==
  ASSUME IsLayout(layout), NEW st, IsContext(st.context), IsTold(st), ~dev,
         st.discarded \in Nat, Holds(st.context, "events_discarded", st.discarded),
         Len(st.file) \in Nat, DOMAIN st.file = 1..Len(st.file),
         NEW j \in DOMAIN st.file, NEW k \in DOMAIN st.file, j < k
  PROVE  st.file[j].saidDiscarded <= st.file[k].saidDiscarded
<1> DEFINE f == st.context
           name == "events_discarded"
           D(i) == st.file[i].discarded
<1>1. \A i \in DOMAIN st.file : D(i) \in 0..st.discarded /\ st.file[i].saidDiscarded = Said(f, name, D(i))
  BY DEF IsTold, SaysDiscarded
<1>2. D(j) <= D(k)
  <2>1. j \in 1..k
    OBVIOUS
  <2>2. QED
    BY <2>1 DEF IsTold, SaysDiscarded
<1> HIDE DEF D
<1>3. \A i \in DOMAIN st.file : D(i) \in Nat /\ D(i) <= st.discarded
  BY <1>1
<1>4. HasMember(f, name) => BitsAt(f, Place(f, name)) \in Sizes
  <2> SUFFICES ASSUME HasMember(f, name) PROVE BitsAt(f, Place(f, name)) \in Sizes
    OBVIOUS
  <2>1. Place(f, name) \in DOMAIN f /\ IsTree(f)
    BY ContextHas, ContextIsTree
  <2> HIDE DEF f, name
  <2>2. f[Place(f, name)].type \in DOMAIN Shape
    BY <2>1, PartIs
  <2>3. QED
    BY <2>2, ShapeIs DEF BitsAt
<1>5. \A i \in DOMAIN st.file : Holds(f, name, D(i))
  <2> SUFFICES ASSUME NEW i \in DOMAIN st.file, HasMember(f, name)
               PROVE  D(i) < 2 ^ BitsAt(f, Place(f, name))
    BY DEF Holds
  <2> DEFINE m == 2 ^ BitsAt(f, Place(f, name))
  <2>1. m \in Nat
    BY <1>4, SizesAre
  <2>2. st.discarded < m
    BY DEF Holds
  <2> HIDE DEF m
  <2>3. D(i) < m
    BY <1>3, <2>1, <2>2
  <2>4. QED
    BY <2>3 DEF m
<1>6. \A i \in DOMAIN st.file : st.file[i].saidDiscarded = IF HasMember(f, name) THEN D(i) ELSE -1
  <2> HIDE DEF name
  <2> QED
    BY <1>1, <1>3, <1>5, SaidIs
<1> HIDE DEF f, name
<1>7. QED
  BY <1>2, <1>3, <1>6

LEMMA ToldIsReadable ==
  ASSUME IInv, Filled, Told
  PROVE  PacketsAreReadable
<1> SUFFICES ASSUME NEW s \in Files
             PROVE  LET file == stream[s].file
                        whole == {k \in DOMAIN file : ~file[k].failed}
                    IN
                    /\ \A k \in whole : SizesAreHeld(stream[s], file[k].content) => Reads(file, k)
                    /\ ~dev /\ Holds(stream[s].context, "events_discarded", stream[s].discarded) =>
                           \A j, k \in whole : j < k => file[j].saidDiscarded <= file[k].saidDiscarded
  BY DEF PacketsAreReadable, Reads
<1> DEFINE st == stream[s]
<1>1. s \in StreamNames /\ Made(s)
  BY DEF Files
<1>2. IsContext(st.context) /\ st.discarded \in Nat /\ IsLayout(layout) /\ IsTold(st) /\ IsStream(st)
  BY <1>1, StreamIsWritable, RecordIs, FilledIs, PartsAreParts DEF Told
<1>3. Len(st.file) \in Nat /\ DOMAIN st.file = 1..Len(st.file)
  <2>1. st.file \in Seq({st.file[k] : k \in DOMAIN st.file})
    BY <1>2 DEF IsStream
  <2>2. QED
    BY <2>1, LenProperties
<1> HIDE DEF st
<1>4. \A k \in DOMAIN st.file : SizesAreHeld(st, st.file[k].content) => Reads(st.file, k)
  BY <1>2, <1>3, SizesAreRead
<1>5. ~dev /\ Holds(st.context, "events_discarded", st.discarded) =>
         \A j, k \in DOMAIN st.file : j < k => st.file[j].saidDiscarded <= st.file[k].saidDiscarded
  BY <1>2, <1>3, DiscardedIsRead
<1>6. QED
  BY <1>4, <1>5 DEF st

(***************************************************************************)
(* The parts that are met for sure.                                        *)
(***************************************************************************)

\* The part that the first n numbers lead to.
UpTo(q, n) == SubSeq(q, 1, n)

Path == Seq(Nat)

LEMMA UpToIs ==
  ASSUME NEW q \in Path, NEW n \in 0..Len(q)
  PROVE  /\ UpTo(q, n) \in Path /\ Len(UpTo(q, n)) = n /\ Len(q) \in Nat
         /\ \A i \in 1..n : UpTo(q, n)[i] = q[i]
         /\ n = Len(q) => UpTo(q, n) = q
<1>1. Len(q) \in Nat /\ DOMAIN q = 1..Len(q) /\ \A i \in 1..Len(q) : q[i] \in Nat
  BY DEF Path
<1>2. \A i \in 1..n : q[i] \in Nat
  BY <1>1
<1> DEFINE r == SubSeq(q, 1, n)
<1>3. r \in Seq(Nat) /\ Len(r) = (IF 1 <= n THEN n - 1 + 1 ELSE 0)
      /\ \A i \in 1..(n - 1 + 1) : r[i] = q[1 + i - 1]
  <2>1. n \in Int /\ 1 \in Int
    BY <1>1
  <2>2. QED
    BY <1>2, <2>1, SubSeqProperties
<1> HIDE DEF r
<1>4. Len(r) = n /\ \A i \in 1..n : r[i] = q[i]
  <2>1. Len(r) = n
    BY <1>1, <1>3
  <2>2. ASSUME NEW i \in 1..n PROVE r[i] = q[i]
    <3>1. i \in 1..(n - 1 + 1) /\ 1 + i - 1 = i
      BY <1>1
    <3>2. QED
      BY <1>3, <3>1
  <2>3. QED
    BY <2>1, <2>2
<1>5. n = Len(q) => r = q
  <2> SUFFICES ASSUME n = Len(q) PROVE r = q
    OBVIOUS
  <2>1. q \in Seq(Nat) /\ Len(r) = Len(q) /\ \A i \in 1..Len(r) : r[i] = q[i]
    BY <1>4 DEF Path
  <2>2. QED
    BY <1>3, <2>1, SeqEqual
<1>6. QED
  BY <1>1, <1>3, <1>4, <1>5 DEF UpTo, Path, r

LEMMA UpToUpTo ==
  ASSUME NEW q \in Path, NEW n \in 0..Len(q), NEW m \in 0..n
  PROVE  UpTo(UpTo(q, n), m) = UpTo(q, m)
<1> DEFINE p == UpTo(q, n)
<1>1. p \in Path /\ Len(p) = n /\ Len(q) \in Nat /\ \A i \in 1..n : p[i] = q[i]
  BY UpToIs
<1>2. m \in 0..Len(q) /\ m \in 0..Len(p)
  BY <1>1
<1> HIDE DEF p
<1> DEFINE a == UpTo(p, m)
           b == UpTo(q, m)
<1>3. a \in Path /\ Len(a) = m /\ \A i \in 1..m : a[i] = p[i]
  BY <1>1, <1>2, UpToIs
<1>4. b \in Path /\ Len(b) = m /\ \A i \in 1..m : b[i] = q[i]
  BY <1>2, UpToIs
<1> HIDE DEF a, b
<1>5. \A i \in 1..m : i \in 1..n
  BY <1>1
<1>6. a \in Seq(Nat) /\ b \in Seq(Nat) /\ Len(a) = Len(b) /\ \A i \in 1..Len(a) : a[i] = b[i]
  BY <1>1, <1>3, <1>4, <1>5 DEF Path
<1>7. a = b
  BY <1>6, SeqEqual
<1>8. QED
  BY <1>7 DEF a, b, p

\* p is q, or a part that q is in.
Leads(p, q) == \E n \in 0..Len(q) : p = UpTo(q, n)

\* What Sure says of the part that the first n numbers lead to.
SurePast(f, q, n) ==
  LET r == UpTo(q, n)
  IN r \in DOMAIN f => /\ ClassAt(f, r) = "sequence" => q[n + 1] <= f[r].length
                       /\ ClassAt(f, r) # "variant"

LEMMA SureIs ==
  ASSUME NEW f, NEW q \in Path
  PROVE  Sure(f, q) <=> \A n \in 0..(Len(q) - 1) : SurePast(f, q, n)
<1>1. Len(q) \in Nat
  BY DEF Path
<1>2. \A n \in 0..(Len(q) - 1) : n \in 0..Len(q)
  BY <1>1
<1>3. \A n \in 0..(Len(q) - 1) : Len(UpTo(q, n)) = n
  BY <1>2, UpToIs
<1>4. Above(f, q) = {UpTo(q, n) : n \in 0..(Len(q) - 1)} \cap DOMAIN f
  BY DEF Above, UpTo
<1>5. ASSUME Sure(f, q), NEW n \in 0..(Len(q) - 1) PROVE SurePast(f, q, n)
  <2> SUFFICES ASSUME UpTo(q, n) \in DOMAIN f
               PROVE  /\ ClassAt(f, UpTo(q, n)) = "sequence" => q[n + 1] <= f[UpTo(q, n)].length
                      /\ ClassAt(f, UpTo(q, n)) # "variant"
    BY DEF SurePast
  <2>1. UpTo(q, n) \in Above(f, q)
    BY <1>4
  <2>2. QED
    BY <1>3, <1>5, <2>1 DEF Sure, Inside
<1>6. ASSUME \A n \in 0..(Len(q) - 1) : SurePast(f, q, n), NEW r \in Above(f, q)
      PROVE  /\ ClassAt(f, r) = "sequence" => q[Len(r) + 1] <= f[r].length
             /\ ClassAt(f, r) # "variant"
  <2>1. PICK n \in 0..(Len(q) - 1) : r = UpTo(q, n) /\ r \in DOMAIN f
    BY <1>4
  <2>2. SurePast(f, q, n) /\ Len(r) = n
    BY <1>3, <1>6, <2>1
  <2>3. QED
    BY <2>1, <2>2 DEF SurePast
<1>7. QED
  BY <1>5, <1>6 DEF Sure, Inside

\* What is in a part that is met for sure is met for sure only if that is.
LEMMA SureAbove ==
  ASSUME NEW f, NEW q \in Path, NEW p, Leads(p, q), Sure(f, q)
  PROVE  Sure(f, p)
<1>1. PICK n \in 0..Len(q) : p = UpTo(q, n)
  BY DEF Leads
<1>2. p \in Path /\ Len(p) = n /\ Len(q) \in Nat /\ \A i \in 1..n : p[i] = q[i]
  BY <1>1, UpToIs
<1>3. ASSUME NEW m \in 0..(Len(p) - 1) PROVE SurePast(f, p, m)
  <2>1. m \in 0..(Len(q) - 1) /\ m \in 0..n /\ m + 1 \in 1..n
    BY <1>2
  <2>2. UpTo(p, m) = UpTo(q, m)
    BY <1>1, <2>1, UpToUpTo
  <2>3. SurePast(f, q, m)
    BY <2>1, SureIs
  <2>4. QED
    BY <1>2, <2>1, <2>2, <2>3 DEF SurePast
<1>4. QED
  BY <1>2, <1>3, SureIs

\* Whether q is met for sure is said by the parts that it is in.
LEMMA SureAgrees ==
  ASSUME NEW f, NEW g, NEW q \in Path,
         \A n \in 0..(Len(q) - 1) : LET r == UpTo(q, n) IN
            /\ r \in DOMAIN g <=> r \in DOMAIN f
            /\ r \in DOMAIN f => g[r].type = f[r].type /\ g[r].length = f[r].length
  PROVE  Sure(g, q) <=> Sure(f, q)
<1>1. \A n \in 0..(Len(q) - 1) : SurePast(g, q, n) <=> SurePast(f, q, n)
  BY DEF SurePast, ClassAt
<1>2. QED
  BY <1>1, SureIs

\* Beneath a part that is not met for sure, anything may change.
LEMMA SureElsewhere ==
  ASSUME NEW f, NEW g, NEW p \in Path, ~Sure(f, p), DOMAIN g \subseteq Path,
         \A q \in Path : ~Leads(p, q) =>
            /\ q \in DOMAIN g <=> q \in DOMAIN f
            /\ q \in DOMAIN f => g[q] = f[q],
         NEW q \in DOMAIN g, Sure(g, q)
  PROVE  q \in DOMAIN f /\ g[q] = f[q] /\ Sure(f, q)
<1>1. q \in Path /\ Len(q) \in Nat /\ Len(p) \in Nat
  BY DEF Path
<1>2. ~Leads(p, q)
  <2> SUFFICES ASSUME Leads(p, q) PROVE FALSE
    OBVIOUS
  <2>1. Sure(g, p)
    BY <1>1, SureAbove
  <2>2. ASSUME NEW n \in 0..(Len(p) - 1) PROVE ~Leads(p, UpTo(p, n)) /\ UpTo(p, n) \in Path
    <3>1. n \in 0..Len(p)
      BY <1>1
    <3>2. UpTo(p, n) \in Path /\ Len(UpTo(p, n)) = n
      BY <3>1, UpToIs
    <3> SUFFICES ASSUME Leads(p, UpTo(p, n)) PROVE FALSE
      BY <3>2
    <3>3. PICK k \in 0..Len(UpTo(p, n)) : p = UpTo(UpTo(p, n), k)
      BY DEF Leads
    <3>4. Len(p) = k
      BY <3>2, <3>3, UpToIs
    <3>5. QED
      BY <1>1, <3>2, <3>4
  <2>3. \A n \in 0..(Len(p) - 1) : LET r == UpTo(p, n) IN
            /\ r \in DOMAIN g <=> r \in DOMAIN f
            /\ r \in DOMAIN f => g[r].type = f[r].type /\ g[r].length = f[r].length
    BY <2>2
  <2>4. Sure(g, p) <=> Sure(f, p)
    BY <2>3, SureAgrees
  <2>5. QED
    BY <2>1, <2>4
<1>3. ASSUME NEW n \in 0..(Len(q) - 1) PROVE ~Leads(p, UpTo(q, n)) /\ UpTo(q, n) \in Path
  <2>1. n \in 0..Len(q)
    BY <1>1
  <2>2. UpTo(q, n) \in Path /\ Len(UpTo(q, n)) = n
    BY <1>1, <2>1, UpToIs
  <2> SUFFICES ASSUME Leads(p, UpTo(q, n)) PROVE FALSE
    BY <2>2
  <2>3. PICK k \in 0..n : p = UpTo(UpTo(q, n), k)
    BY <2>2 DEF Leads
  <2>4. p = UpTo(q, k) /\ k \in 0..Len(q)
    BY <1>1, <2>1, <2>3, UpToUpTo
  <2>5. QED
    BY <1>2, <2>4 DEF Leads
<1>4. \A n \in 0..(Len(q) - 1) : LET r == UpTo(q, n) IN
            /\ r \in DOMAIN g <=> r \in DOMAIN f
            /\ r \in DOMAIN f => g[r].type = f[r].type /\ g[r].length = f[r].length
  BY <1>3
<1>5. Sure(g, q) <=> Sure(f, q)
  BY <1>1, <1>4, SureAgrees
<1>6. QED
  BY <1>1, <1>2, <1>5

(***************************************************************************)
(* Settled stays.                                                          *)
(***************************************************************************)

LEMMA PlacesArePaths ==
  ASSUME NEW f, IsTree(f)
  PROVE  DOMAIN f \subseteq Path
<1>1. \A p \in Places : p \in Seq(Nat)
  <2>1. \A p \in Places : p \in Seq(Nat \ {0})
    BY OrderIs
  <2> SUFFICES ASSUME NEW p \in Places PROVE p \in Seq(Nat)
    OBVIOUS
  <2>2. p \in Seq(Nat \ {0})
    BY <2>1
  <2>3. QED
    BY <2>2
<1>2. QED
  BY <1>1 DEF IsTree, Path

\* What a valid field freezes into.
LEMMA FrozenIsSettled ==
  ASSUME NEW f, IsTree(f), IsValid(f)
  PROVE  IsSettled(Freeze(f))
<1> DEFINE g == Freeze(f)
<1>1. /\ DOMAIN g = DOMAIN f
      /\ \A p \in DOMAIN f :
              /\ g[p].type = f[p].type /\ g[p].set = f[p].set
              /\ g[p].length = f[p].length /\ g[p].current = f[p].current
              /\ Inside(f, p) => g[p].frozen
  BY FreezeIs
<1> HIDE DEF g
<1>2. ASSUME NEW p \in DOMAIN g, Sure(g, p)
      PROVE  /\ g[p].frozen
             /\ ClassAt(g, p) \in Scalars => g[p].set
             /\ ClassAt(g, p) = "variant" => g[p].current # 0
  <2>1. p \in Path
    BY <1>1, PlacesArePaths
  <2>2. Sure(f, p)
    BY <1>1, <1>2, <2>1, SureAgrees
  <2>3. Inside(f, p) /\ Chosen(f, p)
    BY <2>2 DEF Sure, Chosen
  <2>4. ClassAt(g, p) = ClassAt(f, p)
    BY <1>1 DEF ClassAt
  <2>5. QED
    BY <1>1, <2>3, <2>4 DEF IsValid
<1>3. QED
  BY <1>2 DEF IsSettled, g

\* A change of nothing but what is beneath a part that can still be set.
LEMMA SettledElsewhere ==
  ASSUME NEW f, IsTree(f), IsSettled(f), NEW p \in DOMAIN f, ~f[p].frozen,
         NEW g, IsTree(g),
         \A q \in Path : ~Leads(p, q) =>
            /\ q \in DOMAIN g <=> q \in DOMAIN f
            /\ q \in DOMAIN f => g[q] = f[q]
  PROVE  IsSettled(g)
<1>1. ~Sure(f, p)
  BY DEF IsSettled
<1>2. p \in Path /\ DOMAIN g \subseteq Path
  BY PlacesArePaths
<1>3. ASSUME NEW q \in DOMAIN g, Sure(g, q)
      PROVE  /\ g[q].frozen
             /\ ClassAt(g, q) \in Scalars => g[q].set
             /\ ClassAt(g, q) = "variant" => g[q].current # 0
  <2>1. q \in DOMAIN f /\ g[q] = f[q] /\ Sure(f, q)
    BY <1>1, <1>2, <1>3, SureElsewhere
  <2>2. QED
    BY <2>1 DEF IsSettled, ClassAt
<1>4. QED
  BY <1>3 DEF IsSettled

LEMMA LeadsToItself ==
  ASSUME NEW p \in Path
  PROVE  Leads(p, p)
<1>1. Len(p) \in 0..Len(p)
  BY DEF Path
<1>2. p = UpTo(p, Len(p))
  BY <1>1, UpToIs
<1>3. QED
  BY <1>1, <1>2 DEF Leads

LEMMA SetValueSettles ==
  ASSUME dev \in BOOLEAN, NEW f, IsTree(f), IsSettled(f), NEW p \in DOMAIN f, ~f[p].frozen,
         NEW part \in Part
  PROVE  IsSettled([f EXCEPT ![p] = part])
<1> DEFINE g == [f EXCEPT ![p] = part]
<1>1. IsTree(g) /\ DOMAIN g = DOMAIN f /\ \A q \in DOMAIN f : q # p => g[q] = f[q]
  BY PartChanges
<1> HIDE DEF g
<1>2. \A q : ~Leads(p, q) => q # p
  BY PlacesArePaths, LeadsToItself
<1>3. IsSettled(g)
  BY <1>1, <1>2, SettledElsewhere
<1>4. QED
  BY <1>3 DEF g

LEMMA SelectChoiceSettles ==
  ASSUME NEW f, IsTree(f), IsSettled(f), NEW p \in DOMAIN f, ClassAt(f, p) = "variant",
         NEW part \in Part, part.type = f[p].type, part.length = f[p].length,
         part.frozen = f[p].frozen, part.current # 0
  PROVE  IsSettled([f EXCEPT ![p] = part])
<1> DEFINE g == [f EXCEPT ![p] = part]
<1>1. IsTree(g) /\ DOMAIN g = DOMAIN f /\ g[p] = part /\ \A q \in DOMAIN f : q # p => g[q] = f[q]
  BY PartChanges
<1> HIDE DEF g
<1>2. \A q \in DOMAIN f : g[q].type = f[q].type /\ g[q].length = f[q].length
  BY <1>1
<1>3. ASSUME NEW q \in DOMAIN g, Sure(g, q)
      PROVE  /\ g[q].frozen
             /\ ClassAt(g, q) \in Scalars => g[q].set
             /\ ClassAt(g, q) = "variant" => g[q].current # 0
  <2>1. q \in Path /\ q \in DOMAIN f
    BY <1>1, PlacesArePaths
  <2>2. Sure(f, q)
    BY <1>1, <1>2, <1>3, <2>1, SureAgrees
  <2>3. f[q].frozen /\ (ClassAt(f, q) \in Scalars => f[q].set)
        /\ (ClassAt(f, q) = "variant" => f[q].current # 0)
    BY <2>1, <2>2 DEF IsSettled
  <2>4. ClassAt(g, q) = ClassAt(f, q)
    BY <1>2, <2>1 DEF ClassAt
  <2>5. CASE q = p
    <3>1. "variant" \notin Scalars
      BY DEF Scalars
    <3>2. QED
      BY <1>1, <2>3, <2>4, <2>5, <3>1
  <2>6. CASE q # p
    BY <1>1, <2>1, <2>3, <2>4, <2>6
  <2>7. QED
    BY <2>5, <2>6
<1>4. IsSettled(g)
  BY <1>3 DEF IsSettled
<1>5. QED
  BY <1>4 DEF g

\* What is planted is beneath.
LEMMA PlantedElsewhere ==
  ASSUME NEW f, NEW p \in Path, NEW numbers, NEW t, NEW q \in Path, ~Leads(p, q)
  PROVE  LET g == Planted(f, p, numbers, t)
         IN /\ q \in DOMAIN g <=> q \in DOMAIN f
            /\ q \in DOMAIN f => g[q] = f[q]
<1> DEFINE planted == {r \in Places : IsStrictPrefix(p, r) /\ r[Len(p) + 1] \in numbers}
           TypeIn(r) == TypeAt(t, SubSeq(r, Len(p) + 2, Len(r)))
           places == (DOMAIN f \ planted) \cup {r \in planted : TypeIn(r) \in DOMAIN Shape}
           g == [r \in places |-> IF r \in planted THEN New(TypeIn(r)) ELSE f[r]]
<1>1. Planted(f, p, numbers, t) = g
  BY DEF Planted
<1>2. ~IsStrictPrefix(p, q)
  <2> SUFFICES ASSUME IsStrictPrefix(p, q) PROVE FALSE
    OBVIOUS
  <2>1. Len(p) <= Len(q) /\ UpTo(p, Len(p)) = UpTo(q, Len(p))
    BY DEF IsStrictPrefix, IsPrefix, UpTo
  <2>2. Len(p) \in Nat /\ Len(q) \in Nat
    BY DEF Path
  <2>3. Len(p) \in 0..Len(q) /\ Len(p) \in 0..Len(p)
    BY <2>1, <2>2
  <2>4. UpTo(p, Len(p)) = p
    BY <2>3, UpToIs
  <2>5. p = UpTo(q, Len(p))
    BY <2>1, <2>4
  <2>6. Leads(p, q)
    BY <2>3, <2>5 DEF Leads
  <2>7. QED
    BY <2>6
<1>3. q \notin planted
  BY <1>2
<1> HIDE DEF planted, TypeIn
<1>4. (q \in places <=> q \in DOMAIN f) /\ (q \in DOMAIN f => g[q] = f[q]) /\ DOMAIN g = places
  BY <1>3
<1> HIDE DEF g, places
<1>5. QED
  BY <1>1, <1>4

LEMMA SetLengthSettles ==
  ASSUME NEW f, IsTree(f), IsSettled(f), NEW p \in DOMAIN f, ~f[p].frozen, NEW n \in Nat
  PROVE  IsSettled(WithLength(f, p, n))
<1> DEFINE part == [f[p] EXCEPT !.length = n]
           h == [f EXCEPT ![p] = part]
           numbers == {i \in 1..n : Append(p, i) \notin DOMAIN f}
           t == Shape[f[p].type].element
           g == Planted(h, p, numbers, t)
<1>1. f[p] \in Part
  BY PartIs
<1>2. part \in Part
  BY <1>1 DEF Part
<1>3. [f EXCEPT ![p].length = n] = h
  OBVIOUS
<1>4. WithLength(f, p, n) = g
  BY <1>3 DEF WithLength
<1> HIDE DEF part
<1>5. IsTree(h) /\ DOMAIN h = DOMAIN f /\ \A q \in DOMAIN f : q # p => h[q] = f[q]
  BY <1>2, PartChanges
<1> HIDE DEF h, numbers, t
<1>6. IsTree(g)
  BY <1>5, PlantedIsTree
<1>7. p \in Path
  BY PlacesArePaths
<1>8. ASSUME NEW q \in Path, ~Leads(p, q)
      PROVE  (q \in DOMAIN g <=> q \in DOMAIN f) /\ (q \in DOMAIN f => g[q] = f[q])
  <2>1. (q \in DOMAIN g <=> q \in DOMAIN h) /\ (q \in DOMAIN h => g[q] = h[q])
    BY <1>7, <1>8, PlantedElsewhere
  <2>2. q # p
    BY <1>7, <1>8, LeadsToItself
  <2>3. QED
    BY <1>5, <2>1, <2>2
<1> HIDE DEF g
<1>9. IsSettled(g)
  BY <1>6, <1>8, SettledElsewhere
<1>10. QED
  BY <1>4, <1>9

IsAtRest(ev) == ev.frozen /\ \A i \in DOMAIN Scopes : IsSettled(ev.fields[Scopes[i]])

LEMMA SettledIs ==
  Settled <=> (dev => \A e \in EventNames : Live(e) /\ event[e].stream # Nobody => IsAtRest(event[e]))
BY DEF Settled, IsAtRest

\* One event changes.
LEMMA OneSettles ==
  ASSUME IInv, Settled, dev' = dev, NEW e \in EventNames, NEW b, event' = [event EXCEPT ![e] = b],
         dev => b = Unmade \/ b.stream = Nobody \/ IsAtRest(b)
  PROVE  Settled'
<1>1. \A x \in EventNames : event'[x] = IF x = e THEN b ELSE event[x]
  BY PartsAreParts
<1>2. dev => \A x \in EventNames : Live(x)' /\ event'[x].stream # Nobody => IsAtRest(event'[x])
  BY <1>1, SettledIs, UnmadeIs DEF Live
<1>3. QED
  BY <1>2 DEF Settled, IsAtRest

(***************************************************************************)
(* What an event does in each step.                                        *)
(***************************************************************************)

LEMMA EditSettles ==
  ASSUME IInv, Filled, Settled, NEW e \in EventNames, Edits(e),
         NEW x \in DOMAIN Scopes, NEW g, Edit(e, Scopes[x], g),
         dev /\ event[e].stream # Nobody => IsSettled(g)
  PROVE  Settled'
<1>1. Live(e) /\ dev' = dev
  BY DEF Edits
<1>2. HasTrees(event[e])
  BY <1>1, FilledIs
<1>3. PICK b : /\ event' = [event EXCEPT ![e] = b]
               /\ b.stream = event[e].stream /\ b.frozen = event[e].frozen
               /\ \A i \in DOMAIN Scopes : b.fields[Scopes[i]] = IF i = x THEN g ELSE event[e].fields[Scopes[i]]
  BY <1>1, <1>2, EditIs
<1>4. ASSUME dev, b.stream # Nobody PROVE IsAtRest(b)
  <2>1. IsAtRest(event[e]) /\ IsSettled(g)
    BY <1>1, <1>3, <1>4, SettledIs
  <2>2. QED
    BY <1>3, <2>1 DEF IsAtRest
<1>5. QED
  BY <1>1, <1>3, <1>4, OneSettles

LEMMA EventEditsSettle ==
  ASSUME IInv, Filled, Settled, NEW e \in EventNames,
         SetValue(e) \/ SetLength(e) \/ SelectChoice(e) \/ SetPayload(e)
  PROVE  Settled'
<1>1. Edits(e) /\ Live(e)
  BY DEF SetValue, SetLength, SelectChoice, SetPayload, Edits
<1>2. HasTrees(event[e]) /\ dev \in BOOLEAN
  BY <1>1, FilledIs
<1> DEFINE F(i) == event[e].fields[Scopes[i]]
           away == dev /\ event[e].stream # Nobody
<1>3. \A i \in DOMAIN Scopes : IsTree(F(i)) /\ (away => IsSettled(F(i)))
  <2>1. away => IsAtRest(event[e])
    BY <1>1, SettledIs
  <2>2. QED
    BY <1>2, <2>1 DEF HasTrees, IsAtRest
<1> HIDE DEF F
<1>4. CASE SetValue(e)
  <2>1. PICK i \in DOMAIN Scopes : \E p \in Reached(F(i)), v \in Values :
                Hot(F(i), p) /\ Edit(e, Scopes[i], [F(i) EXCEPT ![p] = Given(dev, @, v)])
    BY <1>4 DEF SetValue, F
  <2>2. PICK p \in Reached(F(i)), v \in Values :
                Hot(F(i), p) /\ Edit(e, Scopes[i], [F(i) EXCEPT ![p] = Given(dev, @, v)])
    BY <2>1
  <2> DEFINE f == F(i)
             part == Given(dev, f[p], v)
  <2>3. p \in DOMAIN f /\ v \in Nat /\ IsTree(f)
    BY <1>3, InputsAreNumbers DEF Reached
  <2> HIDE DEF f
  <2>4. part \in Part
    BY <1>2, <2>3, PartIs, GivenIs
  <2>5. away => IsSettled(f) /\ ~f[p].frozen
    BY <1>3, <2>2 DEF Hot, f
  <2>6. Edit(e, Scopes[i], [f EXCEPT ![p] = part])
    BY <2>2 DEF f
  <2> HIDE DEF part
  <2>7. away => IsSettled([f EXCEPT ![p] = part])
    BY <1>2, <2>3, <2>4, <2>5, SetValueSettles
  <2>8. QED
    BY <1>1, <2>6, <2>7, EditSettles
<1>5. CASE SetLength(e)
  <2>1. PICK i \in DOMAIN Scopes : \E p \in Reached(F(i)), n \in Values :
                Hot(F(i), p) /\ Edit(e, Scopes[i], WithLength(F(i), p, n))
    BY <1>5 DEF SetLength, F
  <2>2. PICK p \in Reached(F(i)), n \in Values :
                Hot(F(i), p) /\ Edit(e, Scopes[i], WithLength(F(i), p, n))
    BY <2>1
  <2> DEFINE f == F(i)
  <2>3. p \in DOMAIN f /\ n \in Nat /\ IsTree(f) /\ Edit(e, Scopes[i], WithLength(f, p, n))
    BY <1>3, <2>2, InputsAreNumbers DEF Reached
  <2>4. away => IsSettled(f) /\ ~f[p].frozen
    BY <1>3, <2>2 DEF Hot
  <2> HIDE DEF f
  <2>5. away => IsSettled(WithLength(f, p, n))
    BY <2>3, <2>4, SetLengthSettles
  <2>6. QED
    BY <1>1, <2>3, <2>5, EditSettles
<1>6. CASE SelectChoice(e)
  <2>1. PICK i \in DOMAIN Scopes : \E p \in Reached(F(i)), c \in Values \ {0} :
                ClassAt(F(i), p) = "variant" /\ Edit(e, Scopes[i], [F(i) EXCEPT ![p] = WithChoice(dev, @, c)])
    BY <1>6 DEF SelectChoice, F
  <2>2. PICK p \in Reached(F(i)), c \in Values \ {0} :
                ClassAt(F(i), p) = "variant" /\ Edit(e, Scopes[i], [F(i) EXCEPT ![p] = WithChoice(dev, @, c)])
    BY <2>1
  <2> DEFINE f == F(i)
             part == WithChoice(dev, f[p], c)
  <2>3. p \in DOMAIN f /\ c \in Nat /\ c # 0 /\ IsTree(f) /\ ClassAt(f, p) = "variant"
        /\ Edit(e, Scopes[i], [f EXCEPT ![p] = part])
    BY <1>3, <2>2, InputsAreNumbers DEF Reached
  <2>4. away => IsSettled(f)
    BY <1>3
  <2> HIDE DEF f
  <2>5. f[p] \in Part
    BY <2>3, PartIs
  <2>6. /\ part \in Part /\ part.type = f[p].type /\ part.length = f[p].length
        /\ part.frozen = f[p].frozen /\ part.current # 0
    BY <1>2, <2>3, <2>5 DEF Part, WithChoice
  <2> HIDE DEF part
  <2>7. away => IsSettled([f EXCEPT ![p] = part])
    BY <2>3, <2>4, <2>6, SelectChoiceSettles
  <2>8. QED
    BY <1>1, <2>3, <2>7, EditSettles
<1>7. CASE SetPayload(e)
  <2>1. Scopes[4] = "payload" /\ 4 \in DOMAIN Scopes
    BY ScopesAre
  <2>2. PICK i : Edit(e, Scopes[4], Planted(F(4), <<>>, {i}, F(4)[<<i>>].type))
    BY <1>7, <2>1 DEF SetPayload, F
  <2>3. ~away
    <3>1. ~(dev /\ event[e].frozen)
      BY <1>7 DEF SetPayload
    <3>2. QED
      BY <1>1, <3>1, SettledIs DEF IsAtRest
  <2> DEFINE g == Planted(F(4), <<>>, {i}, F(4)[<<i>>].type)
  <2> HIDE DEF g
  <2>4. Edit(e, Scopes[4], g)
    BY <2>2 DEF g
  <2>5. QED
    BY <1>1, <2>1, <2>3, <2>4, EditSettles
<1>8. QED
  BY <1>4, <1>5, <1>6, <1>7

LEMMA AppendEventSettles ==
  ASSUME IInv, Filled, Settled, NEW s \in StreamNames, NEW e \in EventNames, AppendEvent(s, e)
  PROVE  Settled'
<1>1. Live(e) /\ dev' = dev /\ Takes(e)
  BY DEF AppendEvent, Takes
<1>2. PICK b : event' = [event EXCEPT ![e] = b] /\ IsAppended(s, e, b)
  BY AppendEventIs
<1>3. ASSUME dev PROVE IsAtRest(b)
  <2>1. DOMAIN event[e].fields = {Scopes[i] : i \in DOMAIN Scopes}
    BY <1>1, FilledIs DEF HasTrees
  <2>2. ASSUME NEW i \in DOMAIN Scopes PROVE IsSettled(b.fields[Scopes[i]])
    <3> DEFINE g == Appended(e)[Scopes[i]]
    <3>1. IsTree(g)
      BY <1>1, AppendedIs
    <3>2. IsValid(g)
      BY <1>1, <1>3, <2>1 DEF Takes
    <3>3. b.fields[Scopes[i]] = Freeze(g)
      BY <1>2, <1>3 DEF IsAppended
    <3> HIDE DEF g
    <3>4. QED
      BY <3>1, <3>2, <3>3, FrozenIsSettled
  <2>3. b.frozen
    BY <1>2, <1>3 DEF IsAppended
  <2>4. QED
    BY <2>2, <2>3 DEF IsAtRest
<1>4. QED
  BY <1>1, <1>2, <1>3, OneSettles

LEMMA CreateAndPutSettle ==
  ASSUME IInv, Filled, Settled, NEW e \in EventNames, CreateEvent(e) \/ PutEvent(e)
  PROVE  Settled'
<1>1. dev' = dev
  BY DEF CreateEvent, PutEvent
<1>2. CASE CreateEvent(e)
  <2> DEFINE Begun(c) ==
             [made |-> TRUE, class |-> c, frozen |-> FALSE, stream |-> Nobody, held |-> TRUE,
              fields |-> [header |-> Create(layout.eventHeader),
                          streamContext |-> Create(layout.streamContext),
                          context |-> Create(layout.eventContext),
                          payload |-> Create(layout.payloads[c])]]
  <2>1. PICK c \in DOMAIN layout.payloads : event' = [event EXCEPT ![e] = Begun(c)]
    BY <1>2 DEF CreateEvent
  <2>2. Begun(c).stream = Nobody
    OBVIOUS
  <2> HIDE DEF Begun
  <2>3. QED
    BY <1>1, <2>1, <2>2, OneSettles
<1>3. CASE PutEvent(e)
  <2> DEFINE b == [event[e] EXCEPT !.held = FALSE]
  <2>1. Live(e)
    BY <1>3 DEF PutEvent
  <2>2. b.stream = event[e].stream /\ b.frozen = event[e].frozen /\ b.fields = event[e].fields
    BY <2>1, PartsAreParts DEF IsEvent, EventParts
  <2>3. event' = [event EXCEPT ![e] = b] \/ event' = [event EXCEPT ![e] = Unmade]
    BY <1>3 DEF PutEvent
  <2> HIDE DEF b
  <2>4. dev => b.stream = Nobody \/ IsAtRest(b)
    BY <2>1, <2>2, SettledIs DEF IsAtRest
  <2>5. QED
    BY <1>1, <2>3, <2>4, OneSettles
<1>4. QED
  BY <1>2, <1>3

LEMMA SettledAgain ==
  ASSUME Settled, dev' = dev,
         \A e \in EventNames : Live(e)' /\ event'[e].stream # Nobody => Live(e) /\ event'[e] = event[e]
  PROVE  Settled'
<1>1. dev => \A e \in EventNames : Live(e)' /\ event'[e].stream # Nobody => IsAtRest(event'[e])
  BY SettledIs
<1>2. QED
  BY <1>1 DEF Settled, IsAtRest

LEMMA StreamStepSettles ==
  ASSUME IInv, Filled, Settled, NEW s \in StreamNames, StreamStep(s)
  PROVE  Settled'
<1>1. dev' = dev
  BY DEF StreamStep, CreateStream, AppendDiscarded, GiveContextMember, SetPacketContext, Flush, RefuseFlush
<1>2. CASE Flush(s)
  <2>1. PICK z, content, failed : Leaves(s, z) \/ Writes(s, z, content, failed)
    BY <1>2, FlushIs
  <2>2. CASE Leaves(s, z)
    BY <1>1, <2>2, SettledAgain DEF Leaves, Live
  <2>3. CASE Writes(s, z, content, failed)
    <3>1. event' = Released(Pending(s))
      BY <2>3 DEF Writes
    <3>2. \A e \in EventNames : Live(e)' /\ event'[e].stream # Nobody => Live(e) /\ event'[e] = event[e]
      BY <3>1, ReleasedIs
    <3>3. QED
      BY <1>1, <3>2, SettledAgain
  <2>4. QED
    BY <2>1, <2>2, <2>3
<1>3. CASE ~Flush(s)
  <2>1. UNCHANGED event
    BY <1>3 DEF StreamStep, CreateStream, AppendDiscarded, GiveContextMember, SetPacketContext,
                RefuseFlush, Leaves
  <2>2. QED
    BY <1>1, <2>1, SettledAgain DEF Live
<1>4. QED
  BY <1>2, <1>3

LEMMA SettledBegins == Init => Settled
BY UnmadeIs DEF Init, Settled, Live

LEMMA SettledStays == IInv /\ Filled /\ Settled /\ [Next]_vars => Settled'
<1> SUFFICES ASSUME IInv, Filled, Settled, [Next]_vars PROVE Settled'
  OBVIOUS
<1>1. ASSUME NEW s \in StreamNames, StreamStep(s) PROVE Settled'
  BY <1>1, StreamStepSettles
<1>2. ASSUME NEW e \in EventNames, EventStep(e) PROVE Settled'
  BY <1>2, CreateAndPutSettle, EventEditsSettle DEF EventStep
<1>3. ASSUME NEW s \in StreamNames, NEW e \in EventNames, AppendEvent(s, e) PROVE Settled'
  BY <1>3, AppendEventSettles
<1>4. CASE SetTime \/ UNCHANGED vars
  <2>1. dev' = dev /\ event' = event
    BY <1>4 DEF SetTime, vars
  <2>2. QED
    BY <2>1, SettledAgain DEF Live
<1>5. QED
  BY <1>1, <1>2, <1>3, <1>4 DEF Next

LEMMA SettledCanBeWritten ==
  ASSUME IInv, Settled
  PROVE  PendingCanBeWritten
<1> SUFFICES ASSUME dev, NEW s \in Files, NEW i \in DOMAIN stream[s].pending, NEW x \in DOMAIN Scopes,
                    NEW p \in DOMAIN event[stream[s].pending[i]].fields[Scopes[x]],
                    Sure(event[stream[s].pending[i]].fields[Scopes[x]], p)
             PROVE  LET f == event[stream[s].pending[i]].fields[Scopes[x]]
                    IN /\ ClassAt(f, p) \in Scalars => f[p].set
                       /\ ClassAt(f, p) = "variant" => f[p].current # 0
  BY DEF PendingCanBeWritten
<1> DEFINE e == stream[s].pending[i]
           f == event[e].fields[Scopes[x]]
<1>1. s \in StreamNames /\ Made(s)
  BY DEF Files
<1>2. e \in EventNames
  <2>1. stream[s].pending \in Seq(EventNames)
    BY <1>1, PartsAreParts DEF IsStream
  <2>2. QED
    BY <2>1
<1>3. Live(e) /\ event[e].stream = s /\ s # Nobody
  BY <1>1, <1>2, HomeOf, StreamsAssumption DEF Housed
<1>4. IsSettled(f)
  BY <1>2, <1>3, SettledIs DEF IsAtRest
<1>5. p \in DOMAIN f /\ Sure(f, p)
  OBVIOUS
<1> HIDE DEF f
<1>6. (ClassAt(f, p) \in Scalars => f[p].set) /\ (ClassAt(f, p) = "variant" => f[p].current # 0)
  BY <1>4, <1>5 DEF IsSettled
<1>7. QED
  BY <1>6 DEF f

(***************************************************************************)
(* The times of one packet.                                                *)
(***************************************************************************)

\* The times that are told of a packet, from B to E, where the rest is where it
\* begins if nothing else is said.
Sums(T, B, E, rest) ==
  /\ T \in Seq(Stamp)
  /\ T = <<>> => E = B /\ B = rest
  /\ T # <<>> => /\ (E - Last(T).value) % 2 ^ Last(T).bits = 0
                 /\ Last(T).bits = WordBits => E = Last(T).value
                 /\ B = T[1].value \/ B = rest

LEMMA LastOf ==
  ASSUME NEW S, NEW a \in Seq(S), NEW b \in Seq(S)
  PROVE  /\ b # <<>> => Last(a \o b) = Last(b) /\ a \o b # <<>>
         /\ a # <<>> => (a \o b)[1] = a[1] /\ a \o b # <<>>
         /\ b = <<>> => a \o b = a
         /\ a = <<>> => a \o b = b
<1> DEFINE n == Len(a)
           m == Len(b)
           c == a \o b
<1>1. /\ n \in Nat /\ m \in Nat /\ (a # <<>> => n \in Nat \ {0}) /\ (b # <<>> => m \in Nat \ {0})
  BY EmptySeq, LenProperties
<1>2. /\ c \in Seq(S) /\ Len(c) = n + m
      /\ \A i \in 1..(n + m) : c[i] = IF i <= n THEN a[i] ELSE b[i - n]
  BY ConcatProperties
<1>3. Last(c) = c[Len(c)] /\ Last(b) = b[m]
  BY DEF Last
<1> HIDE DEF c, n, m
<1>4. c = <<>> => Len(c) = 0
  BY EmptySeq
<1>5. b # <<>> => Last(c) = Last(b) /\ c # <<>>
  <2> SUFFICES ASSUME b # <<>> PROVE Last(c) = Last(b) /\ c # <<>>
    OBVIOUS
  <2>1. n + m \in 1..(n + m) /\ ~(n + m <= n) /\ (n + m) - n = m /\ n + m # 0
    BY <1>1
  <2>2. c[n + m] = b[m]
    BY <1>2, <2>1
  <2>3. QED
    BY <1>2, <1>3, <1>4, <2>1, <2>2
<1>6. a # <<>> => c[1] = a[1] /\ c # <<>>
  <2> SUFFICES ASSUME a # <<>> PROVE c[1] = a[1] /\ c # <<>>
    OBVIOUS
  <2>1. 1 \in 1..(n + m) /\ 1 <= n /\ n + m # 0
    BY <1>1
  <2>2. QED
    BY <1>2, <1>4, <2>1
<1>7. (b = <<>> => a \o b = a) /\ (a = <<>> => a \o b = b)
  BY ConcatEmptySeq
<1>8. QED
  BY <1>5, <1>6, <1>7 DEF c

LEMMA NoneIsTold == <<>> \in Seq(Stamp)
BY EmptySeq

LEMMA TimesAre ==
  ASSUME NEW B \in Nat, NEW E \in Nat, NEW V \in Seq(Stamp), NEW begins \in BOOLEAN,
         NEW ends \in BOOLEAN, NEW rest, ~begins => B = rest, ~ends => E = VisitedClock(B, V),
         NEW gb, gb = IF begins THEN <<[bits |-> WordBits, value |-> B]>> ELSE <<>>,
         NEW ge, ge = IF ends THEN <<[bits |-> WordBits, value |-> E]>> ELSE <<>>
  PROVE  Sums(gb \o V \o ge, B, E, rest)
<1> DEFINE sb == [bits |-> WordBits, value |-> B]
           se == [bits |-> WordBits, value |-> E]
           a == gb \o V
           T == a \o ge
<1>1. sb \in Stamp /\ se \in Stamp /\ sb.value = B /\ se.value = E /\ se.bits = WordBits /\ sb.bits = WordBits
  BY SizesAre DEF Stamp
<1>2. 2 ^ WordBits \in Nat \ {0}
  BY SizesAre
<1> DEFINE w == 2 ^ WordBits
<1> HIDE DEF sb, se, w
<1>3. (E - E) % w = 0
  BY <1>2 DEF w
<1>4. gb = IF begins THEN <<sb>> ELSE <<>>
  BY DEF sb
<1>5. ge = IF ends THEN <<se>> ELSE <<>>
  BY DEF se
<1>6. /\ <<sb>> \in Seq(Stamp) /\ <<sb>> # <<>> /\ <<sb>>[1] = sb /\ Last(<<sb>>) = sb
      /\ <<se>> \in Seq(Stamp) /\ <<se>> # <<>> /\ Last(<<se>>) = se
  BY <1>1 DEF Last
<1>7. gb \in Seq(Stamp) /\ ge \in Seq(Stamp)
  BY <1>4, <1>5, <1>6, NoneIsTold
<1>8. a \in Seq(Stamp)
  BY <1>7, ConcatProperties
<1>9. /\ V # <<>> => Last(a) = Last(V) /\ a # <<>>
      /\ gb # <<>> => a[1] = gb[1] /\ a # <<>>
      /\ V = <<>> => a = gb
  BY <1>7, LastOf
<1> HIDE DEF a
<1>10. T \in Seq(Stamp)
  BY <1>7, <1>8, ConcatProperties
<1>11. /\ ge # <<>> => Last(T) = Last(ge) /\ T # <<>>
       /\ a # <<>> => T[1] = a[1] /\ T # <<>>
       /\ ge = <<>> => T = a
  BY <1>7, <1>8, LastOf
<1>12. T = a \o ge
  OBVIOUS
<1> HIDE DEF T
<1>13. begins => T[1] = sb /\ T # <<>>
  BY <1>4, <1>6, <1>9, <1>11
<1>14. CASE ends
  <2>1. Last(T) = se /\ T # <<>>
    BY <1>5, <1>6, <1>11, <1>14
  <2>2. (E - Last(T).value) % 2 ^ Last(T).bits = 0 /\ Last(T).value = E
    BY <1>1, <1>3, <2>1 DEF w
  <2>3. B = T[1].value \/ B = rest
    BY <1>1, <1>13
  <2>4. QED
    BY <1>10, <2>1, <2>2, <2>3 DEF Sums, T, a
<1>15. CASE ~ends
  <2>1. T = a /\ E = VisitedClock(B, V)
    BY <1>5, <1>11, <1>15
  <2>2. CASE V # <<>>
    <3>1. Last(T) = Last(V) /\ T # <<>>
      BY <1>9, <2>1, <2>2
    <3>2. (E - Last(V).value) % 2 ^ Last(V).bits = 0
          /\ (Last(V).bits = WordBits => E = Last(V).value)
      BY <2>1, <2>2, VisitedClockIs
    <3>3. B = T[1].value \/ B = rest
      BY <1>1, <1>13
    <3>4. QED
      BY <1>10, <3>1, <3>2, <3>3 DEF Sums, T, a
  <2>3. CASE V = <<>>
    <3>1. E = B /\ T = gb
      BY <1>9, <2>1, <2>3, VisitedClockIs
    <3>2. CASE begins
      <4>1. T = <<sb>> /\ T # <<>> /\ Last(T) = sb /\ T[1] = sb
        BY <1>4, <1>6, <3>1, <3>2
      <4>2. (E - Last(T).value) % 2 ^ Last(T).bits = 0 /\ Last(T).value = E /\ B = T[1].value
        BY <1>1, <1>3, <3>1, <4>1 DEF w
      <4>3. QED
        BY <1>10, <4>1, <4>2 DEF Sums, T, a
    <3>3. CASE ~begins
      <4>1. T = <<>> /\ B = rest
        BY <1>4, <3>1, <3>3
      <4>2. QED
        BY <1>10, <3>1, <4>1 DEF Sums, T, a
    <3>4. QED
      BY <3>2, <3>3
  <2>4. QED
    BY <2>2, <2>3
<1>16. QED
  BY <1>14, <1>15

\* Times of all bits that never decrease are enclosed.
LEMMA TimesAreEnclosed ==
  ASSUME NEW P \in Seq(Stamp), NEW T, NEW B \in Nat, NEW E \in Nat, NEW rest, Sums(T, B, E, rest),
         NeverDecreases(P \o T), \A i \in DOMAIN (P \o T) : (P \o T)[i].bits = WordBits,
         rest = IF P = <<>> THEN 0 ELSE Last(P).value
  PROVE  /\ B <= E /\ \A i \in DOMAIN T : T[i].value \in B..E
         /\ E = IF P \o T = <<>> THEN 0 ELSE Last(P \o T).value
<1> DEFINE A == P \o T
           n == Len(P)
           m == Len(T)
<1>0. T \in Seq(Stamp)
  BY DEF Sums
<1>1. /\ n \in Nat /\ m \in Nat /\ DOMAIN T = 1..m /\ DOMAIN P = 1..n
      /\ (P # <<>> => n \in Nat \ {0}) /\ (T # <<>> => m \in Nat \ {0})
  BY <1>0, EmptySeq, LenProperties
<1>2. /\ A \in Seq(Stamp) /\ Len(A) = n + m
      /\ \A i \in 1..(n + m) : A[i] = IF i <= n THEN P[i] ELSE T[i - n]
  BY <1>0, ConcatProperties
<1>3. DOMAIN A = 1..(n + m)
  BY <1>2, LenProperties
<1>4. Last(T) = T[m] /\ Last(P) = P[n]
  BY DEF Last
<1>5. /\ T # <<>> => Last(A) = Last(T) /\ A # <<>>
      /\ T = <<>> => A = P
  BY <1>0, LastOf
<1>6. /\ \A i, j \in DOMAIN A : i < j => A[i].value <= A[j].value
      /\ \A i \in DOMAIN A : A[i].bits = WordBits
  BY DEF NeverDecreases
<1> HIDE DEF A, n, m
<1>7. \A i \in 1..m : T[i].value \in Nat
  <2>1. \A i \in 1..m : T[i] \in Stamp
    BY <1>0, <1>1, LenProperties DEF m
  <2>2. QED
    BY <2>1 DEF Stamp
<1>8. \A i \in 1..m : n + i \in DOMAIN A /\ A[n + i] = T[i]
  <2> SUFFICES ASSUME NEW i \in 1..m PROVE n + i \in DOMAIN A /\ A[n + i] = T[i]
    OBVIOUS
  <2>1. n + i \in 1..(n + m) /\ ~(n + i <= n) /\ (n + i) - n = i
    BY <1>1
  <2>2. QED
    BY <1>2, <1>3, <2>1
<1>9. CASE T = <<>>
  <2>1. E = B /\ B = rest /\ A = P
    BY <1>5, <1>9 DEF Sums
  <2>2. m = 0
    BY <1>9 DEF m
  <2>3. \A i \in DOMAIN T : FALSE
    BY <1>1, <2>2
  <2>4. QED
    BY <2>1, <2>3 DEF A
<1>10. CASE T # <<>>
  <2>1. m \in 1..m
    BY <1>1, <1>10
  <2>2. T[m].bits = WordBits
    BY <1>6, <1>8, <2>1
  <2>3. E = T[m].value /\ (B = T[1].value \/ B = rest)
    BY <1>4, <1>10, <2>2 DEF Sums
  <2>4. ASSUME NEW i \in 1..m, NEW j \in 1..m, i <= j PROVE T[i].value <= T[j].value
    <3>1. CASE i = j
      BY <1>7, <3>1
    <3>2. CASE i # j
      <4>1. n + i < n + j
        BY <1>1, <2>4, <3>2
      <4>2. QED
        BY <1>6, <1>8, <4>1
    <3>3. QED
      BY <3>1, <3>2
  <2>5. ASSUME NEW i \in 1..m PROVE B <= T[i].value
    <3>1. CASE B = T[1].value
      <4>1. 1 \in 1..m /\ 1 <= i
        BY <1>1
      <4>2. QED
        BY <2>4, <3>1, <4>1
    <3>2. CASE B = rest /\ P = <<>>
      BY <1>7, <3>2
    <3>3. CASE B = rest /\ P # <<>>
      <4>1. n \in DOMAIN A /\ A[n] = P[n] /\ n < n + i
        BY <1>1, <1>2, <1>3, <3>3
      <4>2. A[n].value <= A[n + i].value
        BY <1>6, <1>8, <4>1
      <4>3. QED
        BY <1>4, <1>8, <3>3, <4>1, <4>2
    <3>4. QED
      BY <2>3, <3>1, <3>2, <3>3
  <2>6. ASSUME NEW i \in 1..m PROVE T[i].value \in B..E
    <3>1. i <= m
      BY <1>1
    <3>2. T[i].value <= E
      BY <2>1, <2>3, <2>4, <3>1
    <3>3. QED
      BY <1>7, <2>5, <3>2
  <2>7. B <= E
    BY <2>1, <2>3, <2>5
  <2>8. E = Last(A).value /\ A # <<>>
    BY <1>4, <1>5, <1>10, <2>3
  <2>9. QED
    BY <1>1, <2>6, <2>7, <2>8 DEF A
<1>11. QED
  BY <1>9, <1>10

(***************************************************************************)
(* Timed stays.                                                            *)
(***************************************************************************)

LEMMA EnclosesAgain ==
  ASSUME NEW a, NEW b, NEW k \in Nat \ {0}, \A j \in 1..k : b[j] = a[j], Encloses(a, k)
  PROVE  Encloses(b, k)
<1>1. [j \in 1..k |-> b[j].told] = [j \in 1..k |-> a[j].told]
  OBVIOUS
<1>2. ToldUpTo(b, k) = ToldUpTo(a, k)
  BY <1>1 DEF ToldUpTo
<1>3. b[k] = a[k] /\ (k > 1 => b[k - 1] = a[k - 1])
  OBVIOUS
<1>4. TimesAreTold(b, k) <=> TimesAreTold(a, k)
  BY <1>2 DEF TimesAreTold
<1>5. LastTold(b, k) = LastTold(a, k)
  BY <1>2 DEF LastTold
<1>6. QED
  BY <1>3, <1>4, <1>5 DEF Encloses

LEMMA ToldAre ==
  ASSUME NEW file, NEW n \in Nat, \A j \in 1..n : file[j].told \in Seq(Stamp)
  PROVE  ToldUpTo(file, n) \in Seq(Stamp)
<1> DEFINE q == [j \in 1..n |-> file[j].told]
<1>1. q = [j \in 1..n |-> q[j]] /\ \A j \in 1..n : q[j] \in Seq(Stamp)
  OBVIOUS
<1>2. ToldUpTo(file, n) = FlattenSeq(q)
  BY DEF ToldUpTo
<1> HIDE DEF q
<1>3. QED
  BY <1>1, <1>2, FlattenOf

\* The times up to a packet are those before it, and its own.
LEMMA ToldMore ==
  ASSUME NEW a, NEW b, NEW n \in Nat, \A j \in 1..n : b[j] = a[j] /\ a[j].told \in Seq(Stamp),
         b[n + 1].told \in Seq(Stamp)
  PROVE  ToldUpTo(b, n + 1) = ToldUpTo(a, n) \o b[n + 1].told
<1> DEFINE q == [j \in 1..n |-> a[j].told]
           r == [j \in 1..(n + 1) |-> b[j].told]
<1>1. q = [j \in 1..n |-> q[j]] /\ \A j \in 1..n : q[j] \in Seq(Stamp)
  OBVIOUS
<1>2. r = [j \in 1..(n + 1) |-> r[j]] /\ r[n + 1] = b[n + 1].told
  OBVIOUS
<1>3. \A j \in 1..n : r[j] = q[j]
  OBVIOUS
<1>4. ToldUpTo(a, n) = FlattenSeq(q) /\ ToldUpTo(b, n + 1) = FlattenSeq(r)
  BY DEF ToldUpTo
<1> HIDE DEF q, r
<1>5. Len(q) = n /\ Len(r) = n + 1 /\ q \in Seq({q[i] : i \in DOMAIN q})
  <2>1. n + 1 \in Nat
    OBVIOUS
  <2>2. Len(q) = n /\ q \in Seq({q[i] : i \in DOMAIN q})
    BY <1>1, SequenceOf
  <2> DEFINE m == n + 1
  <2>3. m \in Nat /\ r = [j \in 1..m |-> r[j]]
    BY <1>2, <2>1
  <2> HIDE DEF m
  <2>4. Len(r) = m
    BY ONLY <2>3, SequenceOf
  <2>5. QED
    BY <2>2, <2>4 DEF m
<1>6. n = 0 => q = <<>>
  BY <1>5, EmptySeq
<1>7. FlattenSeq(q) \in Seq(Stamp) /\ r[n + 1] \in Seq(Stamp)
  BY <1>1, <1>2, FlattenOf
<1>8. n \in Nat
  OBVIOUS
<1>9. FlattenSeq(r) = FlattenSeq(q) \o r[n + 1]
  <2>1. n \in Nat /\ \A i \in 1..n : r[i] = q[i]
    BY <1>3, <1>8
  <2>2. Len(q) = n /\ Len(r) = n + 1
    BY <1>5
  <2>3. QED
    BY ONLY <1>6, <1>7, <2>1, <2>2, FlattenMore
<1>10. QED
  BY <1>2, <1>4, <1>9

\* The packet after the others.
LEMMA EnclosesMore ==
  ASSUME NEW a, NEW b, NEW n \in Nat, \A j \in 1..n : b[j] = a[j],
         \A j \in 1..n : IsTimed(a[j]) /\ Encloses(a, j),
         NEW L, NEW p, b[n + 1] = p, p.begin \in Nat, p.end \in Nat,
         Sums(p.told, p.begin, p.end, IF L # NoTime THEN L ELSE 0),
         L # NoTime => p.begin >= L,
         p.again <=> L # (IF n = 0 THEN NoTime ELSE a[n].end)
  PROVE  Encloses(b, n + 1)
<1> DEFINE P == ToldUpTo(a, n)
           T == p.told
           rest == IF L # NoTime THEN L ELSE 0
           k == n + 1
<1>1. T \in Seq(Stamp)
  BY DEF Sums
<1>2. \A j \in 1..n : a[j].told \in Seq(Stamp)
  BY DEF IsTimed, Stamp
<1>3. P \in Seq(Stamp)
  BY <1>2, ToldAre
<1>4. ToldUpTo(b, k) = P \o T
  BY <1>1, <1>2, ToldMore
<1> HIDE DEF P
<1>5. ASSUME TimesAreTold(b, k)
      PROVE  rest = (IF P = <<>> THEN 0 ELSE Last(P).value)
             /\ (n > 0 => L # NoTime /\ L = a[n].end)
  <2>1. /\ NeverDecreases(P \o T)
        /\ \A i \in DOMAIN (P \o T) : (P \o T)[i].bits = WordBits /\ (P \o T)[i].value # NoTime
        /\ \A j \in 1..k : ~b[j].again
    BY <1>4, <1>5 DEF TimesAreTold
  <2>2. L = IF n = 0 THEN NoTime ELSE a[n].end
    <3>1. k \in 1..k
      OBVIOUS
    <3>2. QED
      BY <2>1, <3>1
  <2>3. CASE n = 0
    <3>1. P = <<>>
      <4> DEFINE q == [j \in 1..0 |-> a[j].told]
      <4>1. P = FlattenSeq(q)
        BY <2>3 DEF P, ToldUpTo
      <4>2. q = <<>>
        OBVIOUS
      <4>3. FlattenSeq(<<>>) = <<>>
        <5>1. Len(<<>>) = 0
          OBVIOUS
        <5>2. QED
          BY <5>1 DEF FlattenSeq
      <4>4. QED
        BY <4>1, <4>2, <4>3
    <3>2. QED
      BY <2>2, <2>3, <3>1
  <2>4. CASE n # 0
    <3>1. n \in 1..n /\ n \in 1..k
      BY <2>4
    <3>2. \A i \in DOMAIN P : i \in DOMAIN (P \o T) /\ (P \o T)[i] = P[i]
      <4> DEFINE A == P \o T
      <4>1. /\ A \in Seq(Stamp) /\ Len(A) = Len(P) + Len(T)
            /\ \A i \in 1..(Len(P) + Len(T)) : A[i] = IF i <= Len(P) THEN P[i] ELSE T[i - Len(P)]
        BY <1>1, <1>3, ConcatProperties
      <4>2. Len(P) \in Nat /\ DOMAIN P = 1..Len(P) /\ Len(T) \in Nat
        BY <1>1, <1>3
      <4>3. DOMAIN A = 1..Len(A)
        BY <4>1, LenProperties
      <4> HIDE DEF A, T
      <4>4. QED
        BY <4>1, <4>2, <4>3 DEF A
    <3>3. TimesAreTold(a, n)
      <4>1. NeverDecreases(P)
        BY <2>1, <3>2 DEF NeverDecreases
      <4>2. \A i \in DOMAIN P : P[i].bits = WordBits /\ P[i].value # NoTime
        BY <2>1, <3>2
      <4>3. \A j \in 1..n : ~a[j].again
        <5>1. \A j \in 1..n : j \in 1..k
          OBVIOUS
        <5>2. QED
          BY <2>1, <5>1
      <4>4. QED
        BY <4>1, <4>2, <4>3 DEF TimesAreTold, P
    <3>4. a[n].end = LastTold(a, n)
      BY <3>1, <3>3 DEF Encloses
    <3>5. a[n].end = IF P = <<>> THEN 0 ELSE Last(P).value
      BY <3>4 DEF LastTold, P
    <3>6. NoTime # 0
      BY SizesAre DEF NoTime
    <3>7. P # <<>> => Last(P).value # NoTime
      <4> SUFFICES ASSUME P # <<>> PROVE Last(P).value # NoTime
        OBVIOUS
      <4>1. Len(P) \in DOMAIN P /\ Last(P) = P[Len(P)]
        <5>1. Len(P) \in Nat \ {0} /\ DOMAIN P = 1..Len(P)
          BY <1>3, EmptySeq, LenProperties
        <5>2. QED
          BY <5>1 DEF Last
      <4>2. QED
        BY <2>1, <3>2, <4>1
    <3>8. L = a[n].end /\ L # NoTime
      BY <2>2, <2>4, <3>5, <3>6, <3>7
    <3>9. QED
      BY <3>5, <3>8
  <2>5. QED
    BY <2>3, <2>4
<1> HIDE DEF T
<1>6. ASSUME TimesAreTold(b, k)
      PROVE  /\ p.begin <= p.end
             /\ k > 1 => b[k - 1].end <= p.begin
             /\ \A i \in DOMAIN T : T[i].value \in p.begin..p.end
             /\ p.end = LastTold(b, k)
  <2>1. NeverDecreases(P \o T) /\ \A i \in DOMAIN (P \o T) : (P \o T)[i].bits = WordBits
    BY <1>4, <1>6 DEF TimesAreTold
  <2>2. Sums(T, p.begin, p.end, rest)
    BY DEF T
  <2> HIDE DEF rest
  <2>3. /\ p.begin <= p.end /\ \A i \in DOMAIN T : T[i].value \in p.begin..p.end
        /\ p.end = IF P \o T = <<>> THEN 0 ELSE Last(P \o T).value
    BY <1>3, <1>5, <1>6, <2>1, <2>2, TimesAreEnclosed
  <2>4. p.end = LastTold(b, k)
    BY <1>4, <2>3 DEF LastTold
  <2>5. k > 1 => b[k - 1].end <= p.begin
    <3> SUFFICES ASSUME k > 1 PROVE b[k - 1].end <= p.begin
      OBVIOUS
    <3>1. n > 0 /\ k - 1 = n /\ n \in 1..n
      OBVIOUS
    <3>2. b[n].end = a[n].end /\ L # NoTime /\ L = a[n].end /\ a[n].end \in Nat
      BY <1>5, <1>6, <3>1 DEF IsTimed
    <3>3. QED
      BY <3>1, <3>2
  <2>6. QED
    BY <2>3, <2>4, <2>5
<1>7. T # <<>> => (p.end - Last(T).value) % 2 ^ Last(T).bits = 0
  BY DEF Sums, T
<1>8. b[k] = p /\ b[k].told = T
  BY DEF T
<1>9. QED
  BY <1>6, <1>7, <1>8 DEF Encloses

\* What a packet of a stream with a context tells.
LEMMA PacketSums ==
  ASSUME IInv, Filled, NEW s \in StreamNames, Made(s), IsField(stream[s].context),
         NEW b, NEW z, NEW content, NEW failed, Extends(s, b, z, content, failed)
  PROVE  LET p == Packet(stream[s], z, content, failed)
             L == stream[s].lastEnd
         IN /\ p.begin \in Nat /\ p.end \in Nat
            /\ Sums(p.told, p.begin, p.end, IF L # NoTime THEN L ELSE 0)
            /\ L # NoTime => p.begin >= L
            /\ p.again <=> L # EndOf(stream[s].file)
<1> DEFINE st == stream[s]
           p == Packet(st, z, content, failed)
           L == st.lastEnd
           bl == Blank(st)
           B == BeginOf(bl)
           E == EndOfVisit(bl)
           V == ContextStamps(bl.context) \o PendingStamps(bl)
           begins == GivenMember(bl.context, "timestamp_begin")
           ends == GivenMember(bl.context, "timestamp_end")
           gb == GivenTime(st.context, "timestamp_begin")
           ge == GivenTime(st.context, "timestamp_end")
           rest == IF L # NoTime THEN L ELSE 0
<1>1. IsRecord(st) /\ Writable(st) /\ dev \in BOOLEAN /\ IsLayout(layout)
  BY StreamIsWritable, FilledIs
<1>2. /\ p.begin = z.begin /\ p.end = z.lastEnd /\ p.again = (L # EndOf(st.file))
      /\ p.told = gb \o Visited(st) \o ge
  BY DEF Packet
<1> HIDE DEF p
<1>3. z.begin = B /\ z.lastEnd = E /\ InOrder(bl)
  BY DEF Extends, IsWritten
<1>4. /\ IsRecord(bl) /\ Same(st, bl) /\ bl.lastEnd = L
      /\ \A x : x \notin {"packet_size", "content_size"} /\ HasMember(st.context, x) =>
            Member(bl.context, x) = Member(st.context, x)
  BY <1>1, BlankIs
<1> HIDE DEF bl
<1>5. Writable(bl)
  BY <1>1, <1>4 DEF Writable, Same
<1>6. IsContext(st.context) /\ IsContext(bl.context)
  BY <1>1, <1>4, RecordIs
<1>7. B \in Nat /\ E \in Nat
  BY <1>1, <1>4, <1>5, TimesAreNumbers
<1>8. V \in Seq(Stamp)
  BY <1>5, <1>6, StampsOfAll, StampsOfContext, ConcatProperties
<1>9. Visited(st) = V
  <2>1. PendingStamps(bl) = PendingStamps(st)
    BY <1>4 DEF Same, PendingStamps
  <2>2. QED
    BY <2>1 DEF Visited, bl
<1>10. \A x : HasMember(bl.context, x) <=> HasMember(st.context, x)
  BY <1>6, ContextsAgree
<1>11. /\ begins <=> GivenMember(st.context, "timestamp_begin")
       /\ ends <=> GivenMember(st.context, "timestamp_end")
       /\ begins => Member(bl.context, "timestamp_begin") = Member(st.context, "timestamp_begin")
       /\ ends => Member(bl.context, "timestamp_end") = Member(st.context, "timestamp_end")
  BY <1>4, <1>10 DEF GivenMember
<1>12. gb = IF begins THEN <<[bits |-> WordBits, value |-> B]>> ELSE <<>>
  BY <1>11 DEF GivenTime, BeginOf
<1>13. ge = IF ends THEN <<[bits |-> WordBits, value |-> E]>> ELSE <<>>
  BY <1>11 DEF GivenTime, EndOfVisit
<1>14. ~begins => B = rest
  BY <1>4 DEF BeginOf
<1>15. ~ends => E = VisitedClock(B, V)
  BY DEF EndOfVisit, SeenBy
<1>16. begins \in BOOLEAN /\ ends \in BOOLEAN
  <2>1. dev \in BOOLEAN
    BY <1>1
  <2>2. ASSUME NEW f, IsContext(f), NEW name PROVE GivenMember(f, name) \in BOOLEAN
    <3>1. HasMember(f, name) \in BOOLEAN
      BY DEF HasMember, IsField
    <3>2. HasMember(f, name) => Member(f, name).set \in BOOLEAN
      <4> SUFFICES ASSUME HasMember(f, name) PROVE Member(f, name).set \in BOOLEAN
        OBVIOUS
      <4>1. Place(f, name) \in DOMAIN f /\ IsTree(f)
        BY <1>1, <2>2, ContextHas, ContextIsTree
      <4>2. QED
        BY <4>1, PartIs DEF Member
    <3>3. QED
      BY DEF GivenMember
  <2>3. QED
    BY <1>6, <2>2
<1>17. L # NoTime => B >= L
  BY <1>3, <1>4 DEF InOrder
<1> HIDE DEF B, E, V, begins, ends, gb, ge, rest
<1>18. Sums(gb \o V \o ge, B, E, rest)
  BY <1>7, <1>8, <1>12, <1>13, <1>14, <1>15, <1>16, TimesAre
<1>19. Sums(p.told, p.begin, p.end, rest)
  BY <1>2, <1>3, <1>9, <1>18
<1>20. QED
  BY <1>2, <1>3, <1>7, <1>17, <1>19 DEF p, rest

\* The packets of a stream that are timed.
FileIsTimed(file) == \A k \in DOMAIN file : IsTimed(file[k]) /\ Encloses(file, k)

LEMMA ExtendsTimes ==
  ASSUME IInv, Filled, NEW s \in StreamNames, Made(s), IsField(stream[s].context),
         FileIsTimed(stream[s].file),
         NEW b, NEW z, NEW content, NEW failed, Extends(s, b, z, content, failed)
  PROVE  FileIsTimed(b.file)
<1> DEFINE st == stream[s]
           p == Packet(st, z, content, failed)
           a == st.file
           c == b.file
           n == Len(a)
           L == st.lastEnd
<1>1. /\ p.begin \in Nat /\ p.end \in Nat
      /\ Sums(p.told, p.begin, p.end, IF L # NoTime THEN L ELSE 0)
      /\ L # NoTime => p.begin >= L
      /\ p.again <=> L # EndOf(a)
  BY PacketSums
<1>2. c = Append(a, p)
  <2>1. HasPacket(z, Wrote(s, z, content, failed), p)
    BY WrittenIs DEF Extends
  <2> HIDE DEF p
  <2>2. b.file = Append(z.file, p) /\ z.file = a
    BY <2>1 DEF HasPacket, Extends, Same
  <2>3. QED
    BY <2>2
<1> HIDE DEF p
<1>3. a \in Seq({a[k] : k \in DOMAIN a})
  BY PartsAreParts DEF IsStream
<1> HIDE DEF c
<1>4. /\ n \in Nat /\ DOMAIN a = 1..n
      /\ Len(c) = n + 1 /\ DOMAIN c = 1..(n + 1) /\ c[n + 1] = p
      /\ \A i \in 1..n : c[i] = a[i]
  BY <1>2, <1>3, AppendIs
<1>5. EndOf(a) = IF n = 0 THEN NoTime ELSE a[n].end
  <2>1. a = <<>> <=> n = 0
    BY <1>3, EmptySeq
  <2>2. QED
    BY <2>1 DEF EndOf, Last
<1> HIDE DEF n, a
<1>6. \A k \in 1..n : IsTimed(a[k]) /\ Encloses(a, k)
  BY <1>4 DEF FileIsTimed, a
<1>7. ASSUME NEW k \in 1..n PROVE IsTimed(c[k]) /\ Encloses(c, k)
  <2>1. k \in Nat \ {0} /\ \A j \in 1..k : j \in 1..n
    BY <1>4
  <2>2. \A j \in 1..k : c[j] = a[j]
    BY <1>4, <2>1
  <2>3. Encloses(c, k)
    BY <1>6, <2>1, <2>2, EnclosesAgain
  <2>4. QED
    BY <1>4, <1>6, <2>3
<1>8. IsTimed(p)
  BY <1>1 DEF IsTimed, Sums, Stamp
<1> HIDE DEF L
<1>9. Encloses(c, n + 1)
  <2>1. p.again <=> L # (IF n = 0 THEN NoTime ELSE a[n].end)
    BY <1>1, <1>5
  <2>2. QED
    BY <1>1, <1>4, <1>6, <2>1, EnclosesMore
<1>10. ASSUME NEW k \in DOMAIN c PROVE IsTimed(c[k]) /\ Encloses(c, k)
  <2>1. k \in 1..n \/ k = n + 1
    BY <1>4
  <2>2. QED
    BY <1>4, <1>7, <1>8, <1>9, <2>1
<1>11. QED
  BY <1>10 DEF FileIsTimed, c

LEMMA TimedIs ==
  Timed <=> \A s \in Files : IsField(stream[s].context) => FileIsTimed(stream[s].file)
BY DEF Timed, FileIsTimed

LEMMA TimedBegins == Init => Timed
BY UnmadeIs DEF Init, Timed, Files, Made

LEMMA TimedStays == IInv /\ Filled /\ Timed /\ [Next]_vars => Timed'
<1> SUFFICES ASSUME IInv, Filled, Timed, [Next]_vars, NEW s \in StreamNames, Made(s)',
                    IsField(stream'[s].context)
             PROVE  FileIsTimed(stream'[s].file)
  BY TimedIs DEF Timed, FileIsTimed, Files
<1> DEFINE b == stream'[s]
           st == stream[s]
<1>1. layout' = layout /\ IsLayout(layout)
  BY SettingsStay, FilledIs
<1>2. IsContext(b.context)
  <2>1. Filled'
    BY FilledStays
  <2>2. IsFilled(stream[s])'
    BY <2>1 DEF Filled, Files
  <2>3. QED
    BY <1>1, <2>2 DEF IsFilled, IsContext
<1>3. Moves(s, b)
  BY StreamsMove
<1>4. ASSUME Made(s) PROVE IsField(st.context) /\ FileIsTimed(st.file)
  <2>1. IsContext(st.context)
    BY <1>4, StreamIsWritable, RecordIs
  <2>2. IsField(st.context)
    BY <1>2, <2>1, ContextsAgree
  <2>3. QED
    BY <1>4, <2>2, TimedIs DEF Files
<1>5. CASE b.file = <<>> /\ b.count = 0
  BY <1>5 DEF FileIsTimed
<1>6. CASE Made(s) /\ Keeps(st, b)
  BY <1>4, <1>6 DEF Keeps
<1>7. CASE Made(s) /\ \E z, content, failed : Extends(s, b, z, content, failed)
  <2>1. PICK z, content, failed : Extends(s, b, z, content, failed)
    BY <1>7
  <2> HIDE DEF b
  <2>2. FileIsTimed(b.file)
    BY <1>4, <1>7, <2>1, ExtendsTimes
  <2>3. QED
    BY <2>2 DEF b
<1>8. QED
  BY <1>3, <1>5, <1>6, <1>7 DEF Moves

LEMMA TimedEncloses ==
  ASSUME Timed
  PROVE  TimesEnclose
<1> SUFFICES ASSUME NEW s \in Files, IsField(stream[s].context), NEW k \in DOMAIN stream[s].file
             PROVE  LET file == stream[s].file
                        told == ToldUpTo(file, k)
                    IN
                    /\ ( /\ NeverDecreases(told)
                         /\ \A i \in DOMAIN told : told[i].bits = WordBits /\ told[i].value # NoTime
                         /\ \A j \in 1..k : ~file[j].again )
                       => /\ file[k].begin <= file[k].end
                          /\ k > 1 => file[k - 1].end <= file[k].begin
                          /\ \A i \in DOMAIN file[k].told :
                               file[k].told[i].value \in file[k].begin..file[k].end
                    /\ file[k].told # <<>> =>
                         LET last == Last(file[k].told)
                         IN (file[k].end - last.value) % 2 ^ last.bits = 0
  BY DEF TimesEnclose
<1> DEFINE file == stream[s].file
<1>1. Encloses(file, k)
  BY TimedIs DEF FileIsTimed
<1> HIDE DEF file
<1>2. /\ TimesAreTold(file, k) =>
           /\ file[k].begin <= file[k].end
           /\ k > 1 => file[k - 1].end <= file[k].begin
           /\ \A i \in DOMAIN file[k].told : file[k].told[i].value \in file[k].begin..file[k].end
      /\ file[k].told # <<>> =>
           (file[k].end - Last(file[k].told).value) % 2 ^ Last(file[k].told).bits = 0
  BY <1>1 DEF Encloses
<1>3. QED
  BY <1>2 DEF TimesAreTold, file

(***************************************************************************)
(* The theorems.                                                           *)
(***************************************************************************)

\* The invariant that streams and events keep, whatever the fields hold and
\* whichever calls of the serializer fail.
THEOREM Invariance == Spec => []IInv
  BY StreamsBegin, StreamsKeep, PTL DEF Spec

\* An event that was appended is neither lost nor written twice, in whatever order
\* flushes fail and are tried again, and it is pending just in its parent
\* (stream_append_event, stream_flush, release_event).
THEOREM OneHome == Spec => []EventsHaveOneHome
<1>1. IInv => EventsHaveOneHome
  BY DEF IInv
<1>2. QED
  BY <1>1, Invariance, PTL

\* The references on the event classes are those of the events without a stream,
\* so that none is put twice or kept for ever (event_create, stream_append_event,
\* release_event, event_common_finalize).
THEOREM ClassesHeldByOrphans == Spec => []OrphansHoldTheirClass
<1>1. IInv => OrphansHoldTheirClass
  BY DEF IInv
<1>2. QED
  BY <1>1, Invariance, PTL

\* The fields are what their types say, and the packet context keeps its
\* members, whatever the clients and the flushes do with their values.
THEOREM FieldsStayTrees == Spec => []Filled
<1>1. IInv /\ Filled /\ [Next]_vars => Filled'
  BY FilledStays
<1>2. QED
  BY FilledBegins, <1>1, Invariance, PTL DEF Spec

\* What every step keeps: with the trees, what packets say, their times, and
\* what was frozen.
THEOREM WholeInvariance == Spec => [](IInv /\ Filled /\ Told /\ Timed /\ Settled)
<1> DEFINE Inv == IInv /\ Filled /\ Told /\ Timed /\ Settled
<1>1. Init => Inv
  BY StreamsBegin, FilledBegins, ToldBegins, TimedBegins, SettledBegins
<1>2. Inv /\ [Next]_vars => Inv'
  BY StreamsKeep, FilledStays, ToldStays, TimedStays, SettledStays
<1>3. QED
  BY <1>1, <1>2, PTL DEF Spec

\* Every packet that was written without a failure says sizes that a reader can
\* use, and the counts of discarded events never decrease where only the stream
\* gives them (stream_flush, auto_populate_packet_context).
THEOREM Readable == Spec => []PacketsAreReadable
<1>1. IInv /\ Filled /\ Told => PacketsAreReadable
  BY ToldIsReadable
<1>2. QED
  BY <1>1, WholeInvariance, PTL

\* The times of a packet enclose those that were told in it, and the packets
\* follow each other; the last time told gives the low bits of the packet's end
\* (set_packet_context_timestamps, visit_field_update_clock_value).
THEOREM TimesInOrder == Spec => []TimesEnclose
<1>1. Timed => TimesEnclose
  BY TimedEncloses
<1>2. QED
  BY <1>1, WholeInvariance, PTL

\* With BT_DEV_MODE a pending event can be written: the freeze of
\* stream_append_event keeps what its validation found.
THEOREM PendingIsWritable == Spec => []PendingCanBeWritten
<1>1. IInv /\ Settled => PendingCanBeWritten
  BY SettledCanBeWritten
<1>2. QED
  BY <1>1, WholeInvariance, PTL
=============================================================================
