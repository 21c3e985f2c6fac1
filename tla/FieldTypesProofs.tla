-------------------------- MODULE FieldTypesProofs --------------------------
(***************************************************************************)
(* Theorems about the field types of the CTF writer, for every set of      *)
(* trees a client starts from: freezing and validity go all the way down,  *)
(* what is frozen keeps its layout, the caches of frozen types are true,   *)
(* and a copy is equal to its original.                                    *)
(***************************************************************************)
EXTENDS FieldTypes, TLAPS, WellFoundedInduction, SequenceTheorems, FiniteSetTheorems

(***************************************************************************)
(* Numbers.                                                                *)
(***************************************************************************)

\* Induction over the natural numbers, for a set instead of a predicate.
LEMMA SetInduction ==
  ASSUME NEW S, 0 \in S, \A k \in Nat : k \in S => k + 1 \in S
  PROVE  Nat \subseteq S
<1> DEFINE R == {p \in Nat \X Nat : p[1] < p[2]}
<1>1. IsWellFoundedOn(R, Nat)
  BY NatLessThanWellFounded DEF OpToRel
<1>2. SUFFICES ASSUME Nat \ S # {} PROVE FALSE
  OBVIOUS
<1>3. PICK k \in Nat \ S : \A j \in Nat \ S : <<j, k>> \notin R
  <2> HIDE DEF R
  <2> QED
    BY <1>1, <1>2, WFMin, Nat \ S \subseteq Nat
<1>4. k - 1 \in Nat
  BY <1>3
<1>5. <<k - 1, k>> \in R
  BY <1>4, <1>3
<1>6. k - 1 \in S
  BY <1>3, <1>4, <1>5
<1>7. QED
  BY <1>3, <1>4, <1>6

\* A finite set of natural numbers that is not empty has a maximum.
LEMMA HasMax ==
  ASSUME NEW S, S \subseteq Nat, IsFiniteSet(S), S # {}
  PROVE  Max(S) \in S /\ \A x \in S : x <= Max(S)
<1> DEFINE Bounded(T) == \E m \in T : \A x \in T : x <= m
           K == {k \in Nat : \A T \in SUBSET Nat :
                   IsFiniteSet(T) /\ Cardinality(T) = k + 1 => Bounded(T)}
<1>1. 0 \in K
  <2> SUFFICES ASSUME NEW T \in SUBSET Nat, IsFiniteSet(T), Cardinality(T) = 1 PROVE Bounded(T)
    OBVIOUS
  <2>1. PICK m : T = {m}
    BY FS_Singleton
  <2>2. QED
    BY <2>1
<1>2. ASSUME NEW k \in Nat, k \in K PROVE k + 1 \in K
  <2> SUFFICES ASSUME NEW T \in SUBSET Nat, IsFiniteSet(T), Cardinality(T) = (k + 1) + 1 PROVE Bounded(T)
    OBVIOUS
  <2> Cardinality(T) # 0
    BY k \in Nat
  <2> T # {}
    BY FS_EmptySet
  <2>1. PICK t \in T : TRUE
    OBVIOUS
  <2>2. IsFiniteSet(T \ {t}) /\ Cardinality(T \ {t}) = k + 1
    BY FS_RemoveElement
  <2>3. PICK m \in T \ {t} : \A x \in T \ {t} : x <= m
    BY <1>2, <2>2
  <2>4. t \in Nat /\ m \in Nat
    BY <2>1, <2>3
  <2>5. CASE t <= m
    BY <2>3, <2>5
  <2>6. CASE m <= t
    <3>1. \A x \in T : x <= t
      BY <2>3, <2>4, <2>6
    <3>2. QED
      BY <3>1
  <2>7. QED
    BY <2>4, <2>5, <2>6
<1>3. Nat \subseteq K
  <2> HIDE DEF K
  <2> QED
    BY <1>1, <1>2, SetInduction
<1>4. Cardinality(S) \in Nat /\ Cardinality(S) # 0
  BY FS_CardinalityType, FS_EmptySet
<1>5. Cardinality(S) - 1 \in K
  BY <1>3, <1>4
<1>6. Bounded(S)
  BY <1>4, <1>5
<1>7. \E m \in S : \A x \in S : m >= x
  BY <1>6
<1>8. QED
  BY <1>7 DEF Max

(***************************************************************************)
(* What is reached.                                                        *)
(***************************************************************************)

LEMMA HullHas ==
  ASSUME NEW next, NEW n \in DOMAIN next
  PROVE  n \in Hull(next, n) /\ Hull(next, n) \subseteq DOMAIN next
BY DEF Hull

\* What is reached is closed.
LEMMA HullNext ==
  ASSUME NEW next, NEW n, NEW m \in Hull(next, n), NEW k \in next[m], k \in DOMAIN next
  PROVE  k \in Hull(next, n)
BY DEF Hull

\* It is part of every closed set.
LEMMA HullIn ==
  ASSUME NEW next, NEW S \in SUBSET DOMAIN next, NEW n \in S, \A k \in S : next[k] \subseteq S
  PROVE  Hull(next, n) \subseteq S
BY DEF Hull

\* What is reached from a part is reached.
LEMMA HullFrom ==
  ASSUME NEW next, NEW n, NEW m \in Hull(next, n)
  PROVE  Hull(next, m) \subseteq Hull(next, n)
BY DEF Hull

\* What is reached is reached by one of the parts, or is where one starts.
LEMMA HullSplit ==
  ASSUME NEW next, NEW n \in DOMAIN next, \A m \in DOMAIN next : next[m] \subseteq DOMAIN next
  PROVE  Hull(next, n) = {n} \cup UNION {Hull(next, k) : k \in next[n]}
<1> DEFINE S == {n} \cup UNION {Hull(next, k) : k \in next[n]}
<1>1. S \subseteq DOMAIN next
  BY HullHas
<1>2. \A m \in S : next[m] \subseteq S
  <2> SUFFICES ASSUME NEW m \in S, NEW j \in next[m] PROVE j \in S
    OBVIOUS
  <2>1. CASE m = n
    BY <2>1, HullHas
  <2>2. CASE \E k \in next[n] : m \in Hull(next, k)
    <3>1. PICK k \in next[n] : m \in Hull(next, k)
      BY <2>2
    <3>2. j \in Hull(next, k)
      BY <3>1, <1>1, HullNext
    <3>3. QED
      BY <3>1, <3>2
  <2>3. QED
    BY <2>1, <2>2
<1>3. Hull(next, n) \subseteq S
  <2> HIDE DEF S
  <2>1. n \in S
    BY DEF S
  <2> QED
    BY <1>1, <1>2, <2>1, HullIn
<1>4. \A k \in next[n] : k \in Hull(next, n)
  BY HullHas, HullNext
<1>5. \A k \in next[n] : Hull(next, k) \subseteq Hull(next, n)
  BY <1>4, HullFrom
<1>6. QED
  BY <1>3, <1>5, HullHas

(***************************************************************************)
(* The invariant of the field types h; what was mapped is exempt.          *)
(***************************************************************************)

Formed(h) ==
  /\ h \in Seq(FieldType)
  /\ \A n \in DOMAIN h : Refs(h, n) \subseteq DOMAIN h
  /\ \A n \in DOMAIN h : h[n].kind \in {"enum", "array", "sequence"} => Len(h[n].kids) = 1

FrozenDown(h) == \A n \in DOMAIN h : h[n].frozen => \A m \in Settled(h, n) : h[m].frozen

ValidDown(h) ==
  \A n \in DOMAIN h :
    h[n].valid => h[n].frozen /\ \A m \in Validated(h, n) \cap Settled(h, n) : h[m].valid

\* What a frozen type has cached, against types as they are.
Cached(h) ==
  \A n \in DOMAIN h : h[n].frozen =>
    /\ h[n].kind = "struct" => \A m \in Settled(h, n) : h[n].align >= h[m].align
    /\ h[n].kind \in {"array", "sequence"} => \A m \in KidsOf(h, n) : h[n].align = h[m].align
    /\ h[n].kind = "enum" => (Overlaps(h, n) => h[n].overlap)
    /\ h[n].valid /\ h[n].kind # "variant" => IsSound(h, n)

LEMMA SettledIs ==
  ASSUME NEW h, NEW n
  PROVE  /\ Settled(h, n) \subseteq KidsOf(h, n)
         /\ h[n].kind # "struct" => Settled(h, n) = KidsOf(h, n)
BY DEF Settled

LEMMA OneType ==
  ASSUME NEW t \in FieldType
  PROVE  /\ t.kind \in Kinds /\ t.kids \in Seq(Member) /\ t.tag \in Nat /\ t.data \in Data
         /\ t.align \in Nat /\ t.order \in ByteOrders \cup {"none"}
         /\ t.signed \in BOOLEAN /\ t.clock \in BOOLEAN
         /\ t.maps \in Seq(Mapping) /\ t.overlap \in BOOLEAN
         /\ t.ranges \in Seq(SUBSET (Nat \X Values \X Values)) /\ t.fresh \in BOOLEAN
         /\ t.lender \in Nat /\ t.frozen \in BOOLEAN /\ t.valid \in BOOLEAN
BY DEF FieldType

LEMMA FormedTypes ==
  ASSUME NEW h, Formed(h)
  PROVE  /\ Len(h) \in Nat /\ DOMAIN h = 1..Len(h) /\ h \in [DOMAIN h -> FieldType]
         /\ \A n \in DOMAIN h : h[n] \in FieldType /\ KidsOf(h, n) \subseteq DOMAIN h
BY DEF Formed, Refs

(***************************************************************************)
(* Alignments.                                                             *)
(***************************************************************************)

\* The alignments that that of n is the maximum of.
AlignsOf(h, n) ==
  {0} \cup {h[m].align : m \in {k \in AlignReach(h, n) :
                                  h[k].frozen \/ h[k].kind \notin {"array", "sequence"}}}

LEMMA AlignReaches ==
  ASSUME NEW h, Formed(h), NEW n \in DOMAIN h
  PROVE  /\ n \in AlignReach(h, n) /\ AlignReach(h, n) \subseteq DOMAIN h
         /\ \A m \in AlignReach(h, n) : AlignReach(h, m) \subseteq AlignReach(h, n)
         /\ AlignReach(h, n) = {n} \cup UNION {AlignReach(h, k) : k \in AlignsWith(h, n)}
         /\ \A k \in AlignsWith(h, n) : k \in AlignReach(h, n)
<1> DEFINE next == [m \in DOMAIN h |-> AlignsWith(h, m)]
<1>1. DOMAIN next = DOMAIN h /\ \A m \in DOMAIN h : next[m] = AlignsWith(h, m)
  OBVIOUS
<1>2. \A m \in DOMAIN next : next[m] \subseteq DOMAIN next
  BY FormedTypes DEF AlignsWith
<1>3. \A m : AlignReach(h, m) = Hull(next, m)
  BY DEF AlignReach
<1> HIDE DEF next
<1>4. Hull(next, n) = {n} \cup UNION {Hull(next, k) : k \in next[n]}
  BY <1>1, <1>2, HullSplit
<1>5. AlignReach(h, n) = {n} \cup UNION {AlignReach(h, k) : k \in AlignsWith(h, n)}
  BY <1>1, <1>3, <1>4
<1>6. \A k \in AlignsWith(h, n) : k \in AlignReach(h, n)
  <2>1. \A k \in next[n] : k \in Hull(next, k)
    BY <1>1, <1>2, HullHas
  <2>2. QED
    BY <2>1, <1>1, <1>3, <1>5
<1>7. QED
  BY <1>1, <1>3, <1>5, <1>6, HullHas, HullFrom

LEMMA AlignIsMax ==
  ASSUME NEW h, Formed(h), NEW n \in DOMAIN h
  PROVE  /\ AlignmentOf(h, n) \in Nat /\ AlignmentOf(h, n) \in AlignsOf(h, n)
         /\ \A a \in AlignsOf(h, n) : a <= AlignmentOf(h, n)
<1> DEFINE R == {k \in AlignReach(h, n) : h[k].frozen \/ h[k].kind \notin {"array", "sequence"}}
           A == {h[m].align : m \in R}
           f == [m \in R |-> h[m].align]
<1>1. R \subseteq 1..Len(h) /\ Len(h) \in Nat
  BY FormedTypes, AlignReaches
<1>2. IsFiniteSet(R)
  <2>1. IsFiniteSet(1..Len(h))
    BY <1>1, FS_Interval
  <2>2. QED
    BY <1>1, <2>1, FS_Subset
<1>3. f \in Surjection(R, A)
  BY DEF Surjection
<1>4. IsFiniteSet(A)
  BY <1>2, <1>3, FS_Surjection
<1>5. A \subseteq Nat
  BY <1>1, FormedTypes, OneType
<1>6. IsFiniteSet({0} \cup A)
  BY <1>4, FS_AddElement
<1>7. AlignsOf(h, n) = {0} \cup A /\ AlignmentOf(h, n) = Max({0} \cup A)
  BY DEF AlignsOf, AlignmentOf
<1> HIDE DEF A
<1>8. {0} \cup A \subseteq Nat /\ {0} \cup A # {}
  BY <1>5
<1>9. Max({0} \cup A) \in {0} \cup A /\ \A x \in {0} \cup A : x <= Max({0} \cup A)
  BY <1>6, <1>8, HasMax
<1>10. QED
  BY <1>7, <1>8, <1>9

\* A frozen type, and one without members, has its own alignment.
LEMMA AlignOfOne ==
  ASSUME NEW h, Formed(h), NEW n \in DOMAIN h,
         h[n].frozen \/ h[n].kind \notin {"struct", "array", "sequence"}
  PROVE  AlignmentOf(h, n) = h[n].align
<1>1. AlignsWith(h, n) = {}
  BY DEF AlignsWith
<1>2. AlignReach(h, n) = {n}
  BY <1>1, AlignReaches
<1>3. AlignsOf(h, n) = {0, h[n].align}
  BY <1>2 DEF AlignsOf
<1>4. h[n].align \in Nat
  BY FormedTypes, OneType
<1>5. QED
  BY <1>3, <1>4, AlignIsMax

\* That of a structure covers that of its fields,
LEMMA AlignCovers ==
  ASSUME NEW h, Formed(h), NEW n \in DOMAIN h, NEW m \in AlignsWith(h, n)
  PROVE  AlignmentOf(h, m) <= AlignmentOf(h, n)
<1>1. m \in AlignReach(h, n) /\ m \in DOMAIN h
  BY AlignReaches
<1>2. AlignReach(h, m) \subseteq AlignReach(h, n)
  BY <1>1, AlignReaches
<1>3. AlignsOf(h, m) \subseteq AlignsOf(h, n)
  BY <1>2 DEF AlignsOf
<1>4. QED
  BY <1>1, <1>3, AlignIsMax

\* that of an array is that of its element.
LEMMA AlignOfElement ==
  ASSUME NEW h, Formed(h), NEW n \in DOMAIN h,
         ~h[n].frozen, h[n].kind \in {"array", "sequence"}, NEW m \in KidsOf(h, n)
  PROVE  AlignmentOf(h, n) = AlignmentOf(h, m)
<1>1. KidsOf(h, n) = {m}
  <2>1. h[n].kids \in Seq(Member) /\ Len(h[n].kids) = 1
    BY FormedTypes, OneType DEF Formed
  <2>2. DOMAIN h[n].kids = {1}
    BY <2>1
  <2>3. QED
    BY <2>2 DEF KidsOf
<1>2. AlignsWith(h, n) = {m}
  BY <1>1 DEF AlignsWith
<1>3. AlignReach(h, n) = {n} \cup AlignReach(h, m)
  BY <1>2, AlignReaches
<1>4. AlignsOf(h, n) = AlignsOf(h, m)
  BY <1>3 DEF AlignsOf
<1>5. QED
  BY <1>4, FormedTypes, AlignIsMax

(***************************************************************************)
(* What a call does to the field types, by kinds of calls.                 *)
(***************************************************************************)

Good(h) == Formed(h) /\ FrozenDown(h) /\ ValidDown(h) /\ Cached(h)

\* What FrozenUnchanged asks of a call.
Keeps(h, g) ==
  \A m \in DOMAIN h : h[m].frozen =>
    /\ g[m].frozen /\ Layout(g[m]) = Layout(h[m])
    /\ g[m].kids = h[m].kids /\ g[m].tag = h[m].tag
    /\ h[m].kind # "string" => g[m].data = h[m].data

LEMMA SameLayout ==
  ASSUME NEW s, NEW t
  PROVE  Layout(s) = Layout(t) <=>
           /\ s.kind = t.kind /\ s.align = t.align
           /\ s.order = t.order /\ s.signed = t.signed /\ s.clock = t.clock /\ s.maps = t.maps
BY DEF Layout

\* A call that keeps what the types refer to.
LEMMA SameRefs ==
  ASSUME NEW h, Formed(h), NEW g, g = [m \in DOMAIN h |-> g[m]],
         \A m \in DOMAIN h : /\ g[m] \in FieldType /\ g[m].kind = h[m].kind
                             /\ g[m].kids = h[m].kids /\ g[m].tag = h[m].tag
  PROVE  /\ Formed(g) /\ DOMAIN g = DOMAIN h
         /\ \A m \in DOMAIN h : /\ KidsOf(g, m) = KidsOf(h, m) /\ Validated(g, m) = Validated(h, m)
                               /\ Settled(g, m) = Settled(h, m)
<1>1. DOMAIN g = 1..Len(h) /\ Len(h) \in Nat /\ DOMAIN h = 1..Len(h)
  BY FormedTypes
<1>2. g \in [1..Len(h) -> FieldType]
  BY <1>1
<1>3. g \in Seq(FieldType)
  BY <1>1, <1>2, SeqDef
<1>4. ASSUME NEW m \in DOMAIN h
      PROVE  /\ KidsOf(g, m) = KidsOf(h, m) /\ Refs(g, m) = Refs(h, m)
             /\ Validated(g, m) = Validated(h, m) /\ Settled(g, m) = Settled(h, m)
  <2>1. g[m].kids = h[m].kids /\ g[m].tag = h[m].tag /\ g[m].kind = h[m].kind
    OBVIOUS
  <2>2. KidsOf(g, m) = KidsOf(h, m)
    BY <2>1 DEF KidsOf
  <2>3. QED
    BY <2>1, <2>2 DEF Refs, Validated, Settled
<1>5. QED
  BY <1>1, <1>3, <1>4 DEF Formed

\* The container of an enumeration is its kid.
LEMMA ContainerIsKid ==
  ASSUME NEW h, Formed(h), NEW n \in DOMAIN h, h[n].kind = "enum"
  PROVE  h[n].kids[1].type \in KidsOf(h, n)
<1>1. h[n].kids \in Seq(Member) /\ Len(h[n].kids) = 1
  BY FormedTypes, OneType DEF Formed
<1>2. 1 \in DOMAIN h[n].kids
  BY <1>1
<1>3. QED
  BY <1>2 DEF KidsOf

\* A call that leaves the layout and the flags of frozen types alone.
LEMMA LayoutsKept ==
  ASSUME NEW h, NEW g, Good(h), Formed(g), DOMAIN g = DOMAIN h,
         \A m \in DOMAIN h : g[m].frozen = h[m].frozen /\ g[m].valid = h[m].valid,
         \A m \in DOMAIN h : h[m].frozen =>
           /\ g[m].kind = h[m].kind /\ g[m].kids = h[m].kids
           /\ g[m].align = h[m].align /\ g[m].signed = h[m].signed /\ g[m].clock = h[m].clock
           /\ g[m].maps = h[m].maps /\ (h[m].overlap => g[m].overlap)
  PROVE  Good(g)
<1>1. \A n \in DOMAIN h : h[n].frozen =>
        /\ KidsOf(g, n) = KidsOf(h, n) /\ Validated(g, n) = Validated(h, n)
        /\ Settled(g, n) = Settled(h, n)
  <2> SUFFICES ASSUME NEW n \in DOMAIN h, h[n].frozen
               PROVE  /\ KidsOf(g, n) = KidsOf(h, n) /\ Validated(g, n) = Validated(h, n)
                      /\ Settled(g, n) = Settled(h, n)
    OBVIOUS
  <2>1. g[n].kids = h[n].kids /\ g[n].kind = h[n].kind
    OBVIOUS
  <2>2. KidsOf(g, n) = KidsOf(h, n)
    BY <2>1 DEF KidsOf
  <2>3. QED
    BY <2>1, <2>2 DEF Validated, Settled
<1>2. \A n \in DOMAIN h : KidsOf(h, n) \subseteq DOMAIN h /\ Settled(h, n) \subseteq DOMAIN h
  BY FormedTypes, SettledIs DEF Good
<1>3. FrozenDown(g)
  BY <1>1, <1>2 DEF Good, FrozenDown
<1>4. ValidDown(g)
  BY <1>1, <1>2 DEF Good, ValidDown
<1>5. ASSUME NEW n \in DOMAIN h, h[n].frozen
      PROVE  /\ g[n].kind = "struct" => \A m \in Settled(g, n) : g[n].align >= g[m].align
             /\ g[n].kind \in {"array", "sequence"} => \A m \in KidsOf(g, n) : g[n].align = g[m].align
  <2>1. g[n].kind = h[n].kind /\ g[n].align = h[n].align
    BY <1>5
  <2>2. \A m \in Settled(h, n) : m \in DOMAIN h /\ h[m].frozen /\ g[m].align = h[m].align
    BY <1>2, <1>5 DEF Good, FrozenDown
  <2>3. h[n].kind \in {"array", "sequence"} => Settled(h, n) = KidsOf(h, n)
    BY SettledIs
  <2>4. QED
    BY <1>1, <1>5, <2>1, <2>2, <2>3 DEF Good, Cached
<1>6. ASSUME NEW n \in DOMAIN h, h[n].frozen, h[n].kind = "enum"
      PROVE  /\ Overlaps(g, n) <=> Overlaps(h, n)
             /\ EnumerationIsValid(g, n) <=> EnumerationIsValid(h, n)
  <2>1. h[n].kids[1].type \in KidsOf(h, n)
    BY <1>6, ContainerIsKid DEF Good
  <2>2. h[h[n].kids[1].type].frozen /\ h[n].kids[1].type \in DOMAIN h
    BY <1>2, <1>6, <2>1, SettledIs DEF Good, FrozenDown
  <2>3. /\ ContainerOf(g, n).signed = ContainerOf(h, n).signed
        /\ ContainerOf(g, n).clock = ContainerOf(h, n).clock
        /\ g[n].maps = h[n].maps
    BY <1>6, <2>2 DEF ContainerOf
  <2>4. QED
    BY <2>3 DEF Overlaps, EnumerationIsValid, IntegerIsValid
<1>7. ASSUME NEW n \in DOMAIN h, h[n].frozen, h[n].valid, h[n].kind # "variant"
      PROVE  IsSound(g, n)
  <2>1. IsSound(h, n)
    BY <1>7 DEF Good, Cached
  <2>2. g[n].kind = h[n].kind /\ (IntegerIsValid(g[n]) <=> IntegerIsValid(h[n]))
    BY <1>7 DEF IntegerIsValid
  <2>3. QED
    BY <1>6, <1>7, <2>1, <2>2 DEF IsSound
<1>8. Cached(g)
  <2> SUFFICES ASSUME NEW n \in DOMAIN h, h[n].frozen
               PROVE  /\ g[n].kind = "struct" => \A m \in Settled(g, n) : g[n].align >= g[m].align
                      /\ g[n].kind \in {"array", "sequence"} =>
                           \A m \in KidsOf(g, n) : g[n].align = g[m].align
                      /\ g[n].kind = "enum" => (Overlaps(g, n) => g[n].overlap)
                      /\ g[n].valid /\ g[n].kind # "variant" => IsSound(g, n)
    BY DEF Cached
  <2>1. g[n].kind = "enum" => (Overlaps(g, n) => g[n].overlap)
    BY <1>6 DEF Good, Cached
  <2>2. QED
    BY <1>5, <1>7, <2>1
<1>9. QED
  BY <1>3, <1>4, <1>8 DEF Good

\* A call that adds types, none of them frozen.
LEMMA OnlyAdded ==
  ASSUME NEW h, NEW g, Good(h), Formed(g), DOMAIN h \subseteq DOMAIN g,
         \A m \in DOMAIN h : g[m] = h[m],
         \A m \in DOMAIN g \ DOMAIN h : ~g[m].frozen /\ ~g[m].valid
  PROVE  Good(g)
<1>1. \A n \in DOMAIN h : /\ KidsOf(g, n) = KidsOf(h, n) /\ Validated(g, n) = Validated(h, n)
                          /\ Settled(g, n) = Settled(h, n)
  BY DEF KidsOf, Validated, Settled
<1>2. \A n \in DOMAIN h : KidsOf(h, n) \subseteq DOMAIN h /\ Settled(h, n) \subseteq DOMAIN h
  BY FormedTypes, SettledIs DEF Good
<1>3. FrozenDown(g) /\ ValidDown(g)
  BY <1>1, <1>2 DEF Good, FrozenDown, ValidDown
<1>4. ASSUME NEW n \in DOMAIN h, h[n].kind = "enum"
      PROVE  ContainerOf(g, n) = ContainerOf(h, n)
  BY <1>2, <1>4, ContainerIsKid DEF Good, ContainerOf
<1>5. ASSUME NEW n \in DOMAIN g, g[n].frozen
      PROVE  /\ g[n].kind = "struct" => \A m \in Settled(g, n) : g[n].align >= g[m].align
             /\ g[n].kind \in {"array", "sequence"} => \A m \in KidsOf(g, n) : g[n].align = g[m].align
             /\ g[n].kind = "enum" => (Overlaps(g, n) => g[n].overlap)
             /\ g[n].valid /\ g[n].kind # "variant" => IsSound(g, n)
  <2>1. n \in DOMAIN h /\ g[n] = h[n]
    BY <1>5
  <2>2. /\ g[n].kind = "struct" => \A m \in Settled(g, n) : g[n].align >= g[m].align
        /\ g[n].kind \in {"array", "sequence"} => \A m \in KidsOf(g, n) : g[n].align = g[m].align
    BY <1>1, <1>2, <1>5, <2>1 DEF Good, Cached
  <2>3. g[n].kind = "enum" => (Overlaps(g, n) => g[n].overlap)
    BY <1>4, <1>5, <2>1 DEF Good, Cached, Overlaps
  <2>4. ASSUME g[n].valid, g[n].kind # "variant" PROVE IsSound(g, n)
    <3>1. IsSound(h, n)
      BY <1>5, <2>1, <2>4 DEF Good, Cached
    <3>2. QED
      BY <1>4, <2>1, <2>4, <3>1 DEF IsSound, EnumerationIsValid
  <2>5. QED
    BY <2>2, <2>3, <2>4
<1>6. QED
  BY <1>3, <1>5 DEF Good, Cached

\* What Freeze makes of the types.
AfterFreeze(h, n) ==
  [m \in DOMAIN h |-> IF m \in FreezeReach(h, n) /\ ~h[m].frozen THEN FrozenForm(h, m) ELSE h[m]]

LEMMA FreezeReaches ==
  ASSUME NEW h, Formed(h), NEW n \in DOMAIN h
  PROVE  /\ n \in FreezeReach(h, n) /\ FreezeReach(h, n) \subseteq DOMAIN h
         /\ \A m \in FreezeReach(h, n) :
              ~h[m].frozen => KidsOf(h, m) \subseteq FreezeReach(h, n)
<1> DEFINE next == [m \in DOMAIN h |-> IF h[m].frozen THEN {} ELSE KidsOf(h, m)]
<1>1. DOMAIN next = DOMAIN h /\ \A m \in DOMAIN h : ~h[m].frozen => next[m] = KidsOf(h, m)
  OBVIOUS
<1>2. FreezeReach(h, n) = Hull(next, n)
  BY DEF FreezeReach
<1>3. \A m \in DOMAIN h : KidsOf(h, m) \subseteq DOMAIN h
  BY FormedTypes
<1> HIDE DEF next
<1>4. n \in Hull(next, n) /\ Hull(next, n) \subseteq DOMAIN h
  BY <1>1, HullHas
<1>5. ASSUME NEW m \in Hull(next, n), ~h[m].frozen, NEW k \in KidsOf(h, m) PROVE k \in Hull(next, n)
  BY <1>1, <1>3, <1>4, <1>5, HullNext
<1>6. QED
  BY <1>2, <1>4, <1>5

\* How one type looks afterwards.
LEMMA FreezeOne ==
  ASSUME NEW h, Formed(h), NEW n \in DOMAIN h, NEW g, g = AfterFreeze(h, n), NEW m \in DOMAIN h
  PROVE  /\ g[m] \in FieldType
         /\ g[m].kind = h[m].kind /\ g[m].kids = h[m].kids /\ g[m].tag = h[m].tag
         /\ g[m].signed = h[m].signed /\ g[m].clock = h[m].clock /\ g[m].maps = h[m].maps
         /\ g[m].valid = h[m].valid
         /\ g[m].frozen <=> h[m].frozen \/ m \in FreezeReach(h, n)
         /\ h[m].frozen => g[m] = h[m]
         /\ m \in FreezeReach(h, n) => g[m].align = AlignmentOf(h, m)
         /\ m \in FreezeReach(h, n) /\ ~h[m].frozen /\ h[m].kind = "enum" /\ Overlaps(h, m) =>
              g[m].overlap
<1>1. h[m] \in FieldType
  BY FormedTypes
<1>2. AlignmentOf(h, m) \in Nat
  BY AlignIsMax
<1>3. CASE m \in FreezeReach(h, n) /\ ~h[m].frozen
  <2>1. g[m] = FrozenForm(h, m)
    BY <1>3 DEF AfterFreeze
  <2>2. FrozenForm(h, m) \in FieldType
    BY <1>1, <1>2 DEF FrozenForm, FieldType
  <2>3. /\ g[m].kind = h[m].kind /\ g[m].kids = h[m].kids /\ g[m].tag = h[m].tag
        /\ g[m].signed = h[m].signed /\ g[m].clock = h[m].clock /\ g[m].maps = h[m].maps
        /\ g[m].valid = h[m].valid /\ g[m].frozen
        /\ g[m].align = IF h[m].kind \in {"struct", "array", "sequence"} THEN AlignmentOf(h, m)
                        ELSE h[m].align
        /\ h[m].kind = "enum" /\ Overlaps(h, m) => g[m].overlap
    BY <1>1, <2>1 DEF FrozenForm, FieldType
  <2>4. h[m].kind \notin {"struct", "array", "sequence"} => AlignmentOf(h, m) = h[m].align
    BY AlignOfOne
  <2>5. QED
    BY <1>3, <2>1, <2>2, <2>3, <2>4
<1>4. CASE ~(m \in FreezeReach(h, n) /\ ~h[m].frozen)
  <2>1. g[m] = h[m]
    BY <1>4 DEF AfterFreeze
  <2>2. m \in FreezeReach(h, n) => AlignmentOf(h, m) = h[m].align
    BY <1>4, AlignOfOne
  <2>3. h[m].frozen \in BOOLEAN
    BY <1>1, OneType
  <2>4. QED
    BY <1>1, <1>4, <2>1, <2>2, <2>3
<1>5. QED
  BY <1>3, <1>4

LEMMA FreezeForms ==
  ASSUME NEW h, Formed(h), NEW n \in DOMAIN h, NEW g, g = AfterFreeze(h, n)
  PROVE  Formed(g) /\ DOMAIN g = DOMAIN h
<1>1. g = [m \in DOMAIN h |-> g[m]]
  BY DEF AfterFreeze
<1>2. \A m \in DOMAIN h : /\ g[m] \in FieldType /\ g[m].kind = h[m].kind
                          /\ g[m].kids = h[m].kids /\ g[m].tag = h[m].tag
  BY FreezeOne
<1>3. QED
  BY <1>1, <1>2, SameRefs

LEMMA FreezeGood ==
  ASSUME NEW h, Good(h), NEW n \in DOMAIN h, NEW g, g = AfterFreeze(h, n)
  PROVE  Good(g)
<1> DEFINE R == FreezeReach(h, n)
<1>1. Formed(h) /\ Formed(g) /\ DOMAIN g = DOMAIN h
  BY FreezeForms DEF Good
<1>2. \A m \in DOMAIN h : /\ KidsOf(g, m) = KidsOf(h, m) /\ Validated(g, m) = Validated(h, m)
                          /\ Settled(g, m) = Settled(h, m)
  <2> SUFFICES ASSUME NEW m \in DOMAIN h
               PROVE  /\ KidsOf(g, m) = KidsOf(h, m) /\ Validated(g, m) = Validated(h, m)
                      /\ Settled(g, m) = Settled(h, m)
    OBVIOUS
  <2>1. g[m].kids = h[m].kids /\ g[m].kind = h[m].kind
    BY <1>1, FreezeOne
  <2>2. QED
    BY <2>1 DEF Validated, KidsOf, Settled
<1>3. \A m \in DOMAIN h : /\ KidsOf(h, m) \subseteq DOMAIN h /\ Settled(h, m) \subseteq KidsOf(h, m)
                          /\ h[m].kind # "struct" => Settled(h, m) = KidsOf(h, m)
  BY <1>1, FormedTypes, SettledIs
<1>4. \A m \in DOMAIN h : g[m].frozen <=> h[m].frozen \/ m \in R
  BY <1>1, FreezeOne
<1>5. \A m \in DOMAIN h : m \in R /\ ~h[m].frozen => KidsOf(h, m) \subseteq R
  BY <1>1, FreezeReaches
<1>6. FrozenDown(g)
  BY <1>1, <1>2, <1>3, <1>4, <1>5 DEF FrozenDown, Good
<1>7. \A m \in DOMAIN h : g[m].valid = h[m].valid
  BY <1>1, FreezeOne
<1>8. ValidDown(g)
  BY <1>1, <1>2, <1>3, <1>4, <1>7 DEF ValidDown, Good
<1>9. ASSUME NEW m \in DOMAIN h, h[m].kind = "enum"
      PROVE  /\ Overlaps(g, m) <=> Overlaps(h, m)
             /\ EnumerationIsValid(g, m) <=> EnumerationIsValid(h, m)
  <2>1. h[m].kids[1].type \in DOMAIN h
    BY <1>1, <1>3, <1>9, ContainerIsKid
  <2>2. /\ ContainerOf(g, m).signed = ContainerOf(h, m).signed
        /\ ContainerOf(g, m).clock = ContainerOf(h, m).clock
        /\ g[m].maps = h[m].maps
    BY <1>1, <2>1, FreezeOne DEF ContainerOf
  <2>3. QED
    BY <2>2 DEF Overlaps, EnumerationIsValid, IntegerIsValid
<1>10. ASSUME NEW m \in DOMAIN h, g[m].frozen
       PROVE  /\ g[m].kind = "struct" => \A k \in Settled(g, m) : g[m].align >= g[k].align
              /\ g[m].kind \in {"array", "sequence"} => \A k \in KidsOf(g, m) : g[m].align = g[k].align
              /\ g[m].kind = "enum" => (Overlaps(g, m) => g[m].overlap)
              /\ g[m].valid /\ g[m].kind # "variant" => IsSound(g, m)
  <2>1. g[m].kind = h[m].kind
    BY <1>1, FreezeOne
  <2>2. CASE h[m].frozen
    <3>1. g[m] = h[m] /\ \A k \in Settled(h, m) : g[k] = h[k]
      BY <1>1, <1>3, <2>2, FreezeOne DEF Good, FrozenDown
    <3>2. /\ g[m].kind = "struct" => \A k \in Settled(g, m) : g[m].align >= g[k].align
          /\ g[m].kind \in {"array", "sequence"} => \A k \in KidsOf(g, m) : g[m].align = g[k].align
      BY <1>2, <1>3, <2>2, <3>1 DEF Good, Cached
    <3>3. g[m].kind = "enum" => (Overlaps(g, m) => g[m].overlap)
      BY <1>9, <2>2, <3>1 DEF Good, Cached
    <3>4. ASSUME g[m].valid, g[m].kind # "variant" PROVE IsSound(g, m)
      <4>1. IsSound(h, m)
        BY <2>2, <3>1, <3>4 DEF Good, Cached
      <4>2. QED
        BY <1>9, <3>1, <3>4, <4>1 DEF IsSound
    <3>5. QED
      BY <3>2, <3>3, <3>4
  <2>3. CASE ~h[m].frozen
    <3>1. m \in R /\ ~h[m].valid /\ KidsOf(h, m) \subseteq R
      BY <1>4, <1>5, <1>10, <2>3 DEF Good, ValidDown
    <3>2. g[m].align = AlignmentOf(h, m) /\ \A k \in KidsOf(h, m) : g[k].align = AlignmentOf(h, k)
      BY <1>1, <1>3, <3>1, FreezeOne
    <3>3. ASSUME g[m].kind = "struct", NEW k \in Settled(g, m) PROVE g[m].align >= g[k].align
      <4>1. k \in AlignsWith(h, m) /\ k \in DOMAIN h
        BY <1>2, <1>3, <2>1, <2>3, <3>3 DEF AlignsWith
      <4>2. AlignmentOf(h, k) <= AlignmentOf(h, m)
        BY <1>1, <4>1, AlignCovers
      <4>3. AlignmentOf(h, k) \in Nat /\ AlignmentOf(h, m) \in Nat
        BY <1>1, <4>1, AlignIsMax
      <4>4. QED
        BY <1>2, <1>3, <3>2, <3>3, <4>2, <4>3
    <3>4. ASSUME g[m].kind \in {"array", "sequence"}, NEW k \in KidsOf(g, m)
          PROVE  g[m].align = g[k].align
      BY <1>1, <1>2, <2>1, <2>3, <3>2, <3>4, AlignOfElement
    <3>5. g[m].kind = "enum" => (Overlaps(g, m) => g[m].overlap)
      BY <1>1, <1>9, <2>1, <2>3, <3>1, FreezeOne
    <3>6. ~g[m].valid
      BY <1>7, <3>1
    <3>7. QED
      BY <3>3, <3>4, <3>5, <3>6
  <2>4. QED
    BY <2>2, <2>3
<1>11. QED
  BY <1>1, <1>6, <1>8, <1>10 DEF Good, Cached

\* What Validate visits and makes of the types.
Visited(h, n) == Hull([m \in DOMAIN h |-> Visits(h, m)], n)

Asked(h, n) == {h[m].tag : m \in {k \in Visited(h, n) : h[k].kind = "variant" /\ ~h[k].valid}}

AfterValidate(h, n) ==
  [m \in DOMAIN h |->
     [h[m] EXCEPT !.valid = @ \/ (m \in Visited(h, n) /\ h[m].frozen /\ IsValid(h, m)),
                  !.overlap = @ \/ (m \in Asked(h, n) /\ HasOverlap(h, m))]]

\* What is valid is sound, and all that it validates is valid.
LEMMA ValidityGoesDown ==
  ASSUME NEW h, Formed(h), NEW m \in DOMAIN h, IsValid(h, m), ~h[m].valid
  PROVE  IsSound(h, m) /\ \A k \in Validated(h, m) : k \in DOMAIN h /\ IsValid(h, k)
<1> DEFINE next == [k \in DOMAIN h |-> IF h[k].valid THEN {} ELSE Validated(h, k)]
<1>1. DOMAIN next = DOMAIN h /\ next[m] = Validated(h, m)
  OBVIOUS
<1>2. Validated(h, m) \subseteq DOMAIN h
  BY FormedTypes DEF Validated
<1>3. \A k : IsValid(h, k) <=> \A j \in Hull(next, k) : h[j].valid \/ IsSound(h, j)
  BY DEF IsValid
<1> HIDE DEF next
<1>4. m \in Hull(next, m)
  BY <1>1, HullHas
<1>5. ASSUME NEW k \in Validated(h, m) PROVE Hull(next, k) \subseteq Hull(next, m)
  <2>1. k \in Hull(next, m)
    BY <1>1, <1>2, <1>4, HullNext
  <2>2. QED
    BY <2>1, HullFrom
<1>6. QED
  BY <1>2, <1>3, <1>4, <1>5

\* Then validation visits all of it.
LEMMA ValidIsVisited ==
  ASSUME NEW h, Formed(h), NEW n \in DOMAIN h, NEW m \in Visited(h, n), IsValid(h, m), ~h[m].valid
  PROVE  m \in DOMAIN h /\ Validated(h, m) \subseteq Visited(h, n)
<1> DEFINE next == [k \in DOMAIN h |-> Visits(h, k)]
<1>1. DOMAIN next = DOMAIN h /\ \A k \in DOMAIN h : next[k] = Visits(h, k)
  OBVIOUS
<1>2. Visited(h, n) = Hull(next, n)
  BY DEF Visited
<1> HIDE DEF next
<1>3. m \in DOMAIN h
  BY <1>1, <1>2, HullHas
<1>4. IsSound(h, m) /\ \A k \in Validated(h, m) : k \in DOMAIN h /\ IsValid(h, k)
  BY <1>3, ValidityGoesDown
<1>5. CASE h[m].kind = "enum"
  BY <1>3, <1>5 DEF Validated
<1>6. CASE h[m].kind # "enum"
  <2>1. Validated(h, m) = KidsOf(h, m)
    BY <1>6 DEF Validated
  <2>2. h[m].kids \in Seq(Member)
    BY <1>3, FormedTypes, OneType
  <2>3. \A j \in DOMAIN h[m].kids : \A i \in 1..(j - 1) : i \in DOMAIN h[m].kids
    BY <2>2
  <2>4. \A i \in DOMAIN h[m].kids : IsValid(h, h[m].kids[i].type)
    BY <1>4, <2>1 DEF KidsOf
  <2>5. \A j \in DOMAIN h[m].kids : \A i \in 1..(j - 1) : IsValid(h, h[m].kids[i].type)
    BY <2>3, <2>4
  <2>6. Visits(h, m) = {h[m].kids[i].type : i \in {j \in DOMAIN h[m].kids :
                          \A k \in 1..(j - 1) : IsValid(h, h[m].kids[k].type)}}
    BY <1>4, <1>6 DEF Visits
  <2>7. KidsOf(h, m) \subseteq Visits(h, m)
    BY <2>5, <2>6 DEF KidsOf
  <2>8. \A k \in KidsOf(h, m) : k \in Hull(next, n)
    BY <1>1, <1>2, <1>3, <1>4, <2>1, <2>7, HullNext
  <2>9. QED
    BY <1>2, <1>3, <2>1, <2>8
<1>7. QED
  BY <1>5, <1>6

\* How one type looks after validation.
LEMMA ValidateOne ==
  ASSUME NEW h, Formed(h), NEW n \in DOMAIN h, NEW g, g = AfterValidate(h, n), NEW m \in DOMAIN h
  PROVE  /\ g[m] \in FieldType
         /\ g[m].kind = h[m].kind /\ g[m].kids = h[m].kids /\ g[m].tag = h[m].tag
         /\ g[m].signed = h[m].signed /\ g[m].clock = h[m].clock /\ g[m].maps = h[m].maps
         /\ g[m].frozen = h[m].frozen /\ g[m].align = h[m].align
         /\ g[m].order = h[m].order /\ g[m].data = h[m].data
         /\ g[m].valid <=> h[m].valid \/ (m \in Visited(h, n) /\ h[m].frozen /\ IsValid(h, m))
         /\ h[m].overlap => g[m].overlap
<1> DEFINE v == h[m].valid \/ (m \in Visited(h, n) /\ h[m].frozen /\ IsValid(h, m))
           o == h[m].overlap \/ (m \in Asked(h, n) /\ HasOverlap(h, m))
<1>1. h[m] \in FieldType
  BY FormedTypes
<1>2. g[m] = [h[m] EXCEPT !.valid = v, !.overlap = o]
  BY DEF AfterValidate
<1>3. v \in BOOLEAN /\ o \in BOOLEAN
  BY <1>1, OneType
<1> HIDE DEF v, o
<1>4. /\ g[m] \in FieldType
      /\ g[m].kind = h[m].kind /\ g[m].kids = h[m].kids /\ g[m].tag = h[m].tag
      /\ g[m].signed = h[m].signed /\ g[m].clock = h[m].clock /\ g[m].maps = h[m].maps
      /\ g[m].frozen = h[m].frozen /\ g[m].align = h[m].align
      /\ g[m].order = h[m].order /\ g[m].data = h[m].data
      /\ g[m].valid = v /\ g[m].overlap = o
  BY <1>1, <1>2, <1>3 DEF FieldType
<1>5. QED
  BY <1>4 DEF v, o

LEMMA ValidateKeeps ==
  ASSUME NEW h, Formed(h), NEW n \in DOMAIN h, NEW g, g = AfterValidate(h, n)
  PROVE  Keeps(h, g)
<1>1. ASSUME NEW m \in DOMAIN h
      PROVE  /\ g[m].kind = h[m].kind /\ g[m].kids = h[m].kids /\ g[m].tag = h[m].tag
             /\ g[m].signed = h[m].signed /\ g[m].clock = h[m].clock /\ g[m].maps = h[m].maps
             /\ g[m].frozen = h[m].frozen /\ g[m].align = h[m].align
             /\ g[m].order = h[m].order /\ g[m].data = h[m].data
  BY ValidateOne
<1>2. \A m \in DOMAIN h : Layout(g[m]) = Layout(h[m])
  BY <1>1, SameLayout
<1>3. QED
  BY <1>1, <1>2 DEF Keeps

LEMMA ValidateForms ==
  ASSUME NEW h, Formed(h), NEW n \in DOMAIN h, NEW g, g = AfterValidate(h, n)
  PROVE  /\ Formed(g) /\ DOMAIN g = DOMAIN h
         /\ \A m \in DOMAIN h : /\ KidsOf(g, m) = KidsOf(h, m) /\ Validated(g, m) = Validated(h, m)
                               /\ Settled(g, m) = Settled(h, m)
<1>1. g = [m \in DOMAIN h |-> g[m]]
  BY DEF AfterValidate
<1>2. \A m \in DOMAIN h : /\ g[m] \in FieldType /\ g[m].kind = h[m].kind
                          /\ g[m].kids = h[m].kids /\ g[m].tag = h[m].tag
  BY ValidateOne
<1>3. QED
  BY <1>1, <1>2, SameRefs

LEMMA ValidateGood ==
  ASSUME NEW h, Good(h), NEW n \in DOMAIN h, NEW g, g = AfterValidate(h, n)
  PROVE  Good(g)
<1>1. Formed(h) /\ Formed(g) /\ DOMAIN g = DOMAIN h
  BY ValidateForms DEF Good
<1>2. \A m \in DOMAIN h : /\ KidsOf(g, m) = KidsOf(h, m) /\ Validated(g, m) = Validated(h, m)
                          /\ Settled(g, m) = Settled(h, m)
  BY <1>1, ValidateForms
<1>3. \A m \in DOMAIN h : /\ KidsOf(h, m) \subseteq DOMAIN h /\ Validated(h, m) \subseteq KidsOf(h, m)
                          /\ Settled(h, m) \subseteq KidsOf(h, m)
                          /\ h[m].kind # "struct" => Settled(h, m) = KidsOf(h, m)
  BY <1>1, FormedTypes, SettledIs DEF Validated
<1>4. \A m \in DOMAIN h :
        /\ g[m].frozen = h[m].frozen /\ g[m].align = h[m].align /\ g[m].kind = h[m].kind
        /\ g[m].valid <=> h[m].valid \/ (m \in Visited(h, n) /\ h[m].frozen /\ IsValid(h, m))
  BY <1>1, ValidateOne
<1>5. FrozenDown(g)
  BY <1>1, <1>2, <1>3, <1>4 DEF FrozenDown, Good
<1>6. ASSUME NEW m \in DOMAIN h, g[m].valid
      PROVE  g[m].frozen /\ \A k \in Validated(g, m) \cap Settled(g, m) : g[k].valid
  <2>1. CASE h[m].valid
    BY <1>2, <1>3, <1>4, <2>1 DEF Good, ValidDown
  <2>2. CASE ~h[m].valid
    <3>1. m \in Visited(h, n) /\ h[m].frozen /\ IsValid(h, m)
      BY <1>4, <1>6, <2>2
    <3>2. \A k \in Validated(h, m) : k \in Visited(h, n) /\ k \in DOMAIN h /\ IsValid(h, k)
      BY <1>1, <2>2, <3>1, ValidIsVisited, ValidityGoesDown
    <3>3. \A k \in Settled(h, m) : h[k].frozen
      BY <1>3, <3>1 DEF Good, FrozenDown
    <3>4. QED
      BY <1>2, <1>4, <3>1, <3>2, <3>3
  <2>3. QED
    BY <2>1, <2>2
<1>7. ValidDown(g)
  BY <1>1, <1>6 DEF ValidDown
<1>8. ASSUME NEW m \in DOMAIN h, h[m].kind = "enum"
      PROVE  /\ Overlaps(g, m) <=> Overlaps(h, m)
             /\ EnumerationIsValid(g, m) <=> EnumerationIsValid(h, m)
  <2>1. h[m].kids[1].type \in DOMAIN h
    BY <1>1, <1>3, <1>8, ContainerIsKid
  <2>2. /\ ContainerOf(g, m).signed = ContainerOf(h, m).signed
        /\ ContainerOf(g, m).clock = ContainerOf(h, m).clock
        /\ g[m].maps = h[m].maps
    BY <1>1, <2>1, ValidateOne DEF ContainerOf
  <2>3. QED
    BY <2>2 DEF Overlaps, EnumerationIsValid, IntegerIsValid
<1>9. ASSUME NEW m \in DOMAIN h, g[m].frozen
      PROVE  /\ g[m].kind = "struct" => \A k \in Settled(g, m) : g[m].align >= g[k].align
             /\ g[m].kind \in {"array", "sequence"} => \A k \in KidsOf(g, m) : g[m].align = g[k].align
             /\ g[m].kind = "enum" => (Overlaps(g, m) => g[m].overlap)
             /\ g[m].valid /\ g[m].kind # "variant" => IsSound(g, m)
  <2>1. h[m].frozen
    BY <1>4, <1>9
  <2>2. /\ g[m].kind = "struct" => \A k \in Settled(g, m) : g[m].align >= g[k].align
        /\ g[m].kind \in {"array", "sequence"} => \A k \in KidsOf(g, m) : g[m].align = g[k].align
    BY <1>2, <1>3, <1>4, <2>1 DEF Good, Cached
  <2>3. ASSUME g[m].kind = "enum", Overlaps(g, m) PROVE g[m].overlap
    <3>1. h[m].overlap
      BY <1>4, <1>8, <2>1, <2>3 DEF Good, Cached
    <3>2. QED
      BY <1>1, <3>1, ValidateOne
  <2>4. ASSUME g[m].valid, g[m].kind # "variant" PROVE IsSound(g, m)
    <3>1. IsSound(h, m)
      <4>1. CASE h[m].valid
        BY <1>4, <2>1, <2>4, <4>1 DEF Good, Cached
      <4>2. CASE ~h[m].valid
        BY <1>1, <1>4, <2>4, <4>2, ValidityGoesDown
      <4>3. QED
        BY <4>1, <4>2
    <3>2. IntegerIsValid(g[m]) <=> IntegerIsValid(h[m])
      <4>1. g[m].clock = h[m].clock /\ g[m].signed = h[m].signed
        BY <1>1, ValidateOne
      <4>2. QED
        BY <4>1 DEF IntegerIsValid
    <3>3. QED
      BY <1>4, <1>8, <2>4, <3>1, <3>2 DEF IsSound
  <2>5. QED
    BY <2>2, <2>3, <2>4
<1>10. QED
  BY <1>1, <1>5, <1>7, <1>9 DEF Good, Cached

(***************************************************************************)
(* The calls that set one type or create one.                              *)
(***************************************************************************)

\* A type that may be in a set of types with these numbers.
WellMade(t, D) ==
  /\ t \in FieldType
  /\ \A i \in DOMAIN t.kids : t.kids[i].type \in D
  /\ t.tag = None \/ t.tag \in D
  /\ t.kind \in {"enum", "array", "sequence"} => Len(t.kids) = 1

LEMMA FormedIsWellMade ==
  ASSUME NEW h
  PROVE  Formed(h) <=> h \in Seq(FieldType) /\ \A n \in DOMAIN h : WellMade(h[n], DOMAIN h)
<1>1. ASSUME h \in Seq(FieldType), NEW n \in DOMAIN h
      PROVE  /\ h[n] \in FieldType
             /\ Refs(h, n) \subseteq DOMAIN h <=>
                  /\ \A i \in DOMAIN h[n].kids : h[n].kids[i].type \in DOMAIN h
                  /\ h[n].tag = None \/ h[n].tag \in DOMAIN h
  BY <1>1 DEF Refs, KidsOf
<1>2. QED
  BY <1>1 DEF Formed, WellMade

LEMMA UpdateGood ==
  ASSUME NEW h, Good(h), NEW n \in DOMAIN h, NEW t, WellMade(t, DOMAIN h),
         t.frozen = h[n].frozen, t.valid = h[n].valid,
         h[n].frozen => /\ Layout(t) = Layout(h[n]) /\ t.overlap = h[n].overlap
                        /\ t.kids = h[n].kids /\ t.tag = h[n].tag
                        /\ h[n].kind # "string" => t.data = h[n].data,
         NEW g, g = [h EXCEPT ![n] = t]
  PROVE  Good(g) /\ Keeps(h, g) /\ Len(g) = Len(h)
<1>1. Formed(h) /\ h \in Seq(FieldType) /\ t \in FieldType /\ DOMAIN h = 1..Len(h)
  BY FormedTypes DEF Good, WellMade, Formed
<1>2. /\ g \in Seq(FieldType) /\ Len(g) = Len(h) /\ DOMAIN g = DOMAIN h
      /\ \A m \in DOMAIN h : g[m] = IF m = n THEN t ELSE h[m]
  BY <1>1
<1>3. \A m \in DOMAIN h : WellMade(g[m], DOMAIN h)
  BY <1>1, <1>2, FormedIsWellMade
<1>4. Formed(g)
  BY <1>2, <1>3, FormedIsWellMade
<1>5. \A m \in DOMAIN h : g[m].frozen = h[m].frozen /\ g[m].valid = h[m].valid
  BY <1>2
<1>6. \A m \in DOMAIN h : h[m].frozen =>
        /\ Layout(g[m]) = Layout(h[m]) /\ g[m].overlap = h[m].overlap
        /\ g[m].kids = h[m].kids /\ g[m].tag = h[m].tag
        /\ h[m].kind # "string" => g[m].data = h[m].data
  BY <1>2
<1>7. \A m \in DOMAIN h : h[m].frozen =>
        /\ g[m].kind = h[m].kind /\ g[m].kids = h[m].kids
        /\ g[m].align = h[m].align /\ g[m].signed = h[m].signed /\ g[m].clock = h[m].clock
        /\ g[m].maps = h[m].maps /\ (h[m].overlap => g[m].overlap)
  BY <1>6, SameLayout
<1>8. Good(g)
  BY <1>2, <1>4, <1>5, <1>7, LayoutsKept
<1>9. QED
  BY <1>2, <1>5, <1>6, <1>8 DEF Keeps

LEMMA CreateGood ==
  ASSUME NEW h, Good(h), NEW t, WellMade(t, DOMAIN h), ~t.frozen, ~t.valid,
         NEW g, g = Append(h, t)
  PROVE  Good(g) /\ Keeps(h, g) /\ Len(g) = Len(h) + 1
<1>1. Formed(h) /\ h \in Seq(FieldType) /\ t \in FieldType /\ DOMAIN h = 1..Len(h) /\ Len(h) \in Nat
  BY FormedTypes DEF Good, WellMade, Formed
<1>2. /\ g \in Seq(FieldType) /\ Len(g) = Len(h) + 1
      /\ DOMAIN g = 1..(Len(h) + 1)
      /\ \A m \in DOMAIN g : g[m] = IF m = Len(h) + 1 THEN t ELSE h[m]
  BY <1>1
<1>3. /\ DOMAIN h \subseteq DOMAIN g /\ \A m \in DOMAIN h : g[m] = h[m]
      /\ \A m \in DOMAIN g \ DOMAIN h : g[m] = t
  BY <1>1, <1>2
<1>4. \A m \in DOMAIN g : WellMade(g[m], DOMAIN h)
  BY <1>1, <1>3, FormedIsWellMade
<1>5. \A m \in DOMAIN g : WellMade(g[m], DOMAIN g)
  BY <1>3, <1>4 DEF WellMade
<1>6. Formed(g)
  BY <1>2, <1>5, FormedIsWellMade
<1>7. Good(g)
  BY <1>3, <1>6, OnlyAdded
<1>8. QED
  BY <1>2, <1>3, <1>7 DEF Keeps

LEMMA BlankIsMade ==
  /\ Blank \in FieldType /\ Blank.kids = <<>> /\ Blank.tag = None
  /\ ~Blank.frozen /\ ~Blank.valid
<1>1. (CHOOSE d \in Data : TRUE) \in Data
  BY FieldTypesAssumption
<1>2. QED
  BY <1>1 DEF Blank, FieldType, Kinds, None

\* The calls that leave alone what the types refer to.
KeepsParts(h, g) ==
  DOMAIN g = DOMAIN h /\ \A m \in DOMAIN h : g[m].kids = h[m].kids /\ g[m].tag = h[m].tag

\* What a call leaves behind.
Leaves == Good(ft') /\ Keeps(ft, ft') /\ Len(ft') <= MaxTypes
Clears == copied' = <<>> /\ mapped' = mapped

\* What is created is well made.
LEMMA CreationMakes ==
  ASSUME Good(ft), Creation
  PROVE  \E t : Create(t) /\ WellMade(t, Types) /\ ~t.frozen /\ ~t.valid
<1> USE FieldTypesAssumption
<1> DEFINE Made == \E t : Create(t) /\ WellMade(t, Types) /\ ~t.frozen /\ ~t.valid
<1> SUFFICES Made
  OBVIOUS
<1>1. ft \in Seq(FieldType) /\ Types = 1..Len(ft) /\ Len(ft) \in Nat
  BY DEF Good, Formed, Types
<1>2. ASSUME NEW t, Create(t), WellMade(t, Types), ~t.frozen, ~t.valid
      PROVE  Made
  BY <1>2
<1> DEFINE Plain(t) == t \in FieldType /\ t.kids = <<>> /\ t.tag = None /\ ~t.frozen /\ ~t.valid
                        /\ t.kind \notin {"enum", "array", "sequence"}
<1>3. ASSUME NEW t, Create(t), Plain(t) PROVE Made
  <2>1. WellMade(t, Types)
    BY <1>3 DEF WellMade
  <2>2. QED
    BY <1>2, <1>3, <2>1
<1> HIDE DEF Made
<1>4. CASE CreateInteger
  <2>1. PICK d \in Data : Create([Blank EXCEPT !.order = "native", !.data = d])
    BY <1>4 DEF CreateInteger
  <2>2. Plain([Blank EXCEPT !.order = "native", !.data = d])
    BY BlankIsMade DEF Blank, FieldType, Kinds
  <2>3. QED
    BY <1>3, <2>1, <2>2
<1>5. CASE CreateFloat
  <2>1. Plain([Blank EXCEPT !.kind = "float", !.order = "native"])
    BY BlankIsMade DEF FieldType, Kinds
  <2>2. QED
    BY <1>3, <1>5, <2>1 DEF CreateFloat
<1>6. CASE CreateString
  <2>1. Plain([Blank EXCEPT !.kind = "string", !.align = 8])
    BY BlankIsMade DEF FieldType, Kinds
  <2>2. QED
    BY <1>3, <1>6, <2>1 DEF CreateString
<1>7. CASE CreateStructure
  <2>1. Plain([Blank EXCEPT !.kind = "struct"])
    BY BlankIsMade DEF FieldType, Kinds
  <2>2. QED
    BY <1>3, <1>7, <2>1 DEF CreateStructure
<1>8. ASSUME NEW n \in Types, NEW k \in {"enum", "array", "sequence"}, NEW d \in Data
      PROVE  LET t == [Blank EXCEPT !.kind = k, !.kids = Anonymous(n), !.data = d]
             IN WellMade(t, Types) /\ ~t.frozen /\ ~t.valid
  <2> DEFINE t == [Blank EXCEPT !.kind = k, !.kids = Anonymous(n), !.data = d]
  <2> DEFINE a == [name |-> "", type |-> n]
  <2>1. a \in Member /\ a.type = n
    BY <1>1 DEF Member
  <2>2. Anonymous(n) = <<a>>
    BY DEF Anonymous
  <2> HIDE DEF a
  <2>3. /\ <<a>> \in Seq(Member) /\ Len(<<a>>) = 1 /\ DOMAIN <<a>> = {1} /\ <<a>>[1] = a
    BY <2>1
  <2>4. /\ Anonymous(n) \in Seq(Member) /\ Len(Anonymous(n)) = 1 /\ DOMAIN Anonymous(n) = {1}
        /\ Anonymous(n)[1].type = n
    BY <2>1, <2>2, <2>3
  <2>5. /\ t \in FieldType /\ t.kids = Anonymous(n) /\ t.tag = None /\ t.kind = k
        /\ ~t.frozen /\ ~t.valid
    BY <2>4, BlankIsMade DEF FieldType, Kinds
  <2>6. QED
    BY <2>4, <2>5 DEF WellMade
<1>9. CASE CreateEnumeration
  <2>1. PICK n \in Types : Create([Blank EXCEPT !.kind = "enum", !.kids = Anonymous(n)])
    BY <1>9 DEF CreateEnumeration
  <2>2. Blank.data \in Data
    BY BlankIsMade, OneType
  <2>3. [Blank EXCEPT !.kind = "enum", !.kids = Anonymous(n), !.data = Blank.data]
          = [Blank EXCEPT !.kind = "enum", !.kids = Anonymous(n)]
    BY BlankIsMade DEF FieldType
  <2>4. QED
    BY <1>2, <1>8, <2>1, <2>2, <2>3
<1>10. CASE CreateArray
  BY <1>2, <1>8, <1>10 DEF CreateArray
<1>11. CASE CreateSequence
  BY <1>2, <1>8, <1>11 DEF CreateSequence
<1>12. CASE CreateVariant
  <2>1. PICK n \in Types \cup {None} :
          \E d \in Data : Create([Blank EXCEPT !.kind = "variant", !.tag = n, !.data = d, !.align = 0])
    BY <1>12 DEF CreateVariant
  <2> PICK d \in Data : Create([Blank EXCEPT !.kind = "variant", !.tag = n, !.data = d, !.align = 0])
    BY <2>1
  <2> DEFINE t == [Blank EXCEPT !.kind = "variant", !.tag = n, !.data = d, !.align = 0]
  <2>2. n \in Nat
    BY <1>1 DEF None
  <2>3. /\ t \in FieldType /\ t.kids = <<>> /\ t.tag = n /\ t.kind = "variant"
        /\ ~t.frozen /\ ~t.valid
    BY <2>2, BlankIsMade DEF FieldType, Kinds
  <2>4. WellMade(t, Types)
    BY <2>3 DEF WellMade
  <2>5. QED
    BY <1>2, <2>3, <2>4
<1>13. QED
  BY <1>4, <1>5, <1>6, <1>7, <1>9, <1>10, <1>11, <1>12 DEF Creation

LEMMA CreationLeaves ==
  ASSUME Good(ft), Creation
  PROVE  Leaves /\ Clears
<1>1. PICK t : Create(t) /\ WellMade(t, Types) /\ ~t.frozen /\ ~t.valid
  BY CreationMakes
<1>2. Len(ft) < MaxTypes /\ ft' = Append(ft, t) /\ Clears /\ Len(ft) \in Nat
  BY <1>1, FormedTypes DEF Create, Good, Clears
<1>3. Good(ft') /\ Keeps(ft, ft') /\ Len(ft') = Len(ft) + 1
  BY <1>1, <1>2, CreateGood DEF Types
<1>4. QED
  BY <1>2, <1>3, FieldTypesAssumption DEF Leaves

\* An update of a type that is not frozen, or of a string's encoding.
LEMMA UpdateLeaves ==
  ASSUME Good(ft), Len(ft) <= MaxTypes, NEW n \in Types, NEW t, Update(n, t), WellMade(t, Types),
         t.frozen = ft[n].frozen, t.valid = ft[n].valid,
         ft[n].frozen => /\ Layout(t) = Layout(ft[n]) /\ t.overlap = ft[n].overlap
                         /\ t.kids = ft[n].kids /\ t.tag = ft[n].tag
                         /\ ft[n].kind # "string" => t.data = ft[n].data
  PROVE  Leaves /\ Clears
<1>1. ft' = [ft EXCEPT ![n] = t] /\ Clears
  BY DEF Update, Clears
<1>2. Good(ft') /\ Keeps(ft, ft') /\ Len(ft') = Len(ft)
  BY <1>1, UpdateGood DEF Types
<1>3. QED
  BY <1>1, <1>2 DEF Leaves

\* Each setter changes a type that is not frozen, but for a string's encoding.
LEMMA SettersOfData ==
  ASSUME Good(ft), Len(ft) <= MaxTypes, NEW n \in Types, NEW d \in Data,
         SetIntegerData(n, d) \/ SetFloatData(n, d) \/ SetStringEncoding(n, d) \/ SetTagName(n, d)
  PROVE  Leaves /\ Clears
<1> DEFINE t == [ft[n] EXCEPT !.data = d]
<1>1. WellMade(ft[n], Types)
  BY FormedIsWellMade DEF Good, Types
<1>2. Update(n, t) /\ (ft[n].frozen => ft[n].kind = "string")
  BY DEF SetIntegerData, SetFloatData, SetStringEncoding, SetTagName
<1>3. /\ t \in FieldType /\ Layout(t) = Layout(ft[n]) /\ t.overlap = ft[n].overlap
      /\ t.frozen = ft[n].frozen /\ t.valid = ft[n].valid
      /\ t.kids = ft[n].kids /\ t.tag = ft[n].tag /\ t.kind = ft[n].kind
  BY <1>1, SameLayout DEF WellMade, FieldType
<1>4. WellMade(t, Types)
  BY <1>1, <1>3 DEF WellMade
<1> HIDE DEF t
<1>5. QED
  BY <1>2, <1>3, <1>4, UpdateLeaves

LEMMA SettersOfIntegers ==
  ASSUME Good(ft), Len(ft) <= MaxTypes, NEW n \in Types,
         (\E s \in BOOLEAN : SetSigned(n, s)) \/ SetMappedClockClass(n)
  PROVE  Leaves /\ Clears
<1>1. WellMade(ft[n], Types)
  BY FormedIsWellMade DEF Good, Types
<1>2. ASSUME NEW t, Update(n, t), ~ft[n].frozen, t \in FieldType, t.frozen = ft[n].frozen,
             t.valid = ft[n].valid, t.kids = ft[n].kids, t.tag = ft[n].tag, t.kind = ft[n].kind
      PROVE  Leaves /\ Clears
  <2>1. WellMade(t, Types)
    BY <1>1, <1>2 DEF WellMade
  <2>2. QED
    BY <1>2, <2>1, UpdateLeaves
<1>3. ASSUME NEW s \in BOOLEAN, SetSigned(n, s) PROVE Leaves /\ Clears
  <2>1. Update(n, [ft[n] EXCEPT !.signed = s]) /\ ~ft[n].frozen
    BY <1>3 DEF SetSigned
  <2>2. QED
    BY <1>1, <1>2, <2>1 DEF WellMade, FieldType
<1>4. CASE SetMappedClockClass(n)
  <2>1. Update(n, [ft[n] EXCEPT !.clock = TRUE]) /\ ~ft[n].frozen
    BY <1>4 DEF SetMappedClockClass
  <2>2. QED
    BY <1>1, <1>2, <2>1 DEF WellMade, FieldType
<1>5. QED
  BY <1>3, <1>4

LEMMA SetterOfAlignment ==
  ASSUME Good(ft), Len(ft) <= MaxTypes, NEW n \in Types, NEW a \in Alignments, SetAlignment(n, a)
  PROVE  Leaves /\ Clears
<1> DEFINE t == [ft[n] EXCEPT !.align = a]
<1>1. WellMade(ft[n], Types) /\ a \in Nat
  BY FormedIsWellMade, FieldTypesAssumption DEF Good, Types
<1>2. Update(n, t) /\ ~ft[n].frozen
  BY DEF SetAlignment
<1>3. /\ t \in FieldType /\ t.frozen = ft[n].frozen /\ t.valid = ft[n].valid
      /\ t.kids = ft[n].kids /\ t.tag = ft[n].tag /\ t.kind = ft[n].kind
  BY <1>1 DEF WellMade, FieldType
<1>4. WellMade(t, Types)
  BY <1>1, <1>3 DEF WellMade
<1> HIDE DEF t
<1>5. QED
  BY <1>2, <1>3, <1>4, UpdateLeaves

LEMMA AdderOfMappings ==
  ASSUME Good(ft), Len(ft) <= MaxTypes, NEW n \in Types, NEW s \in BOOLEAN, NEW l \in Names,
         NEW lo \in Values, NEW hi \in Values, AddMapping(n, s, l, lo, hi)
  PROVE  Leaves /\ Clears
<1> DEFINE all == Append(ft[n].maps, [label |-> l, lo |-> lo, hi |-> hi])
<1>1. WellMade(ft[n], Types)
  BY FormedIsWellMade DEF Good, Types
<1>2. all \in Seq(Mapping)
  <2>1. [label |-> l, lo |-> lo, hi |-> hi] \in Mapping /\ ft[n].maps \in Seq(Mapping)
    BY <1>1, OneType DEF Mapping, WellMade
  <2>2. QED
    BY <2>1
<1>3. ~ft[n].frozen
  BY DEF AddMapping
<1>4. PICK p \in Bijection(DOMAIN all, DOMAIN all) :
        Update(n, [ft[n] EXCEPT !.maps = [i \in DOMAIN all |-> all[p[i]]]])
  BY DEF AddMapping
<1> DEFINE maps == [i \in DOMAIN all |-> all[p[i]]]
           t == [ft[n] EXCEPT !.maps = maps]
<1> HIDE DEF all
<1>5. p \in [DOMAIN all -> DOMAIN all] /\ DOMAIN all = 1..Len(all) /\ Len(all) \in Nat
  BY <1>2, <1>4 DEF Bijection, Injection
<1>6. maps \in Seq(Mapping)
  <2>1. \A i \in DOMAIN all : all[p[i]] \in Mapping
    BY <1>2, <1>5
  <2>2. maps \in [1..Len(all) -> Mapping]
    BY <1>5, <2>1
  <2>3. QED
    BY <1>5, <2>2, SeqDef
<1> HIDE DEF maps
<1>7. /\ t \in FieldType /\ t.frozen = ft[n].frozen /\ t.valid = ft[n].valid
      /\ t.kids = ft[n].kids /\ t.tag = ft[n].tag /\ t.kind = ft[n].kind
  BY <1>1, <1>6 DEF WellMade, FieldType
<1>8. WellMade(t, Types)
  BY <1>1, <1>7 DEF WellMade
<1>9. Update(n, t)
  BY <1>4 DEF maps
<1> HIDE DEF t
<1>10. QED
  BY <1>3, <1>7, <1>8, <1>9, UpdateLeaves

LEMMA AdderOfMembers ==
  ASSUME Good(ft), Len(ft) <= MaxTypes, NEW n \in Types, NEW name \in Names, NEW m \in Types,
         AddField(n, name, m) \/ AddChoice(n, name, m)
  PROVE  Leaves /\ Clears
<1>1. WellMade(ft[n], Types) /\ m \in Nat
  BY FormedIsWellMade, FormedTypes DEF Good, Types
<1>2. ASSUME NEW u, AddMember(n, name, m, u), ft[n].kind \notin {"enum", "array", "sequence"},
             u \in FieldType, u.frozen = ft[n].frozen, u.valid = ft[n].valid,
             u.kids = ft[n].kids, u.tag = ft[n].tag, u.kind = ft[n].kind
      PROVE  Leaves /\ Clears
  <2> DEFINE k == [name |-> name, type |-> m]
             kids == Append(u.kids, k)
             t == [u EXCEPT !.kids = kids]
  <2>1. Update(n, t) /\ ~ft[n].frozen
    BY <1>2 DEF AddMember
  <2>2. k \in Member /\ k.type = m
    BY <1>1 DEF Member
  <2>3. u.kids \in Seq(Member) /\ \A i \in DOMAIN u.kids : u.kids[i].type \in Types
    BY <1>1, <1>2, OneType DEF WellMade
  <2> HIDE DEF k
  <2>4. kids \in Seq(Member) /\ \A i \in DOMAIN kids : kids[i] = k \/ (i \in DOMAIN u.kids /\ kids[i] = u.kids[i])
    BY <2>2, <2>3
  <2>5. \A i \in DOMAIN kids : kids[i].type \in Types
    BY <2>2, <2>3, <2>4
  <2> HIDE DEF kids
  <2>6. /\ t \in FieldType /\ t.frozen = ft[n].frozen /\ t.valid = ft[n].valid
        /\ t.kids = kids /\ t.tag = ft[n].tag /\ t.kind = ft[n].kind
    BY <1>2, <2>4 DEF FieldType
  <2>7. WellMade(t, Types)
    BY <1>1, <1>2, <2>5, <2>6 DEF WellMade
  <2> HIDE DEF t
  <2>8. QED
    BY <2>1, <2>6, <2>7, UpdateLeaves
<1>3. CASE AddField(n, name, m)
  BY <1>1, <1>2, <1>3 DEF AddField, WellMade
<1>4. CASE AddChoice(n, name, m)
  <2> DEFINE u == [ft[n] EXCEPT !.ranges = Append(@, {})]
  <2>1. AddMember(n, name, m, u) /\ ft[n].kind = "variant"
    BY <1>4 DEF AddChoice
  <2>2. Append(ft[n].ranges, {}) \in Seq(SUBSET (Nat \X Values \X Values))
    <3>1. ft[n].ranges \in Seq(SUBSET (Nat \X Values \X Values))
      BY <1>1, OneType DEF WellMade
    <3>2. {} \in SUBSET (Nat \X Values \X Values)
      OBVIOUS
    <3> DEFINE Z == SUBSET (Nat \X Values \X Values)
    <3> HIDE DEF Z
    <3>3. ft[n].ranges \in Seq(Z) /\ {} \in Z
      BY <3>1, <3>2 DEF Z
    <3>4. Append(ft[n].ranges, {}) \in Seq(Z)
      BY <3>3
    <3>5. QED
      BY <3>4 DEF Z
  <2>3. /\ u \in FieldType /\ u.frozen = ft[n].frozen /\ u.valid = ft[n].valid
        /\ u.kids = ft[n].kids /\ u.tag = ft[n].tag /\ u.kind = ft[n].kind
    BY <1>1, <2>2 DEF WellMade, FieldType
  <2> HIDE DEF u
  <2>4. QED
    BY <1>2, <2>1, <2>3
<1>5. QED
  BY <1>3, <1>4

\* A call that changes many types but nothing that frozen ones look like.
LEMMA ManyLeave ==
  ASSUME Good(ft), Len(ft) <= MaxTypes,
         ft' = [m \in Types |-> ft'[m]],
         \A m \in Types :
           /\ ft'[m] \in FieldType /\ ft'[m].kind = ft[m].kind
           /\ ft'[m].kids = ft[m].kids /\ ft'[m].tag = ft[m].tag
           /\ ft'[m].frozen = ft[m].frozen /\ ft'[m].valid = ft[m].valid,
         \A m \in Types : ft[m].frozen =>
           /\ Layout(ft'[m]) = Layout(ft[m]) /\ ft'[m].data = ft[m].data
           /\ ft'[m].overlap = ft[m].overlap
  PROVE  Leaves
<1>1. Formed(ft') /\ DOMAIN ft' = Types
  BY SameRefs DEF Good, Types
<1>2. Good(ft')
  <2>1. \A m \in Types : ft[m].frozen =>
          /\ ft'[m].kind = ft[m].kind /\ ft'[m].kids = ft[m].kids /\ ft'[m].align = ft[m].align
          /\ ft'[m].signed = ft[m].signed /\ ft'[m].clock = ft[m].clock
          /\ ft'[m].maps = ft[m].maps /\ (ft[m].overlap => ft'[m].overlap)
    BY SameLayout
  <2>2. QED
    BY <1>1, <2>1, LayoutsKept DEF Types
<1>3. Len(ft') = Len(ft)
  BY <1>1, FormedTypes DEF Good, Types
<1>4. Keeps(ft, ft')
  BY DEF Keeps, Types
<1>5. QED
  BY <1>2, <1>3, <1>4 DEF Leaves

LEMMA SetterOfByteOrder ==
  ASSUME Good(ft), Len(ft) <= MaxTypes, NEW n \in Types, NEW o \in ByteOrders, SetByteOrder(n, o)
  PROVE  Leaves /\ Clears
<1> DEFINE reached == Hull([m \in Types |-> IF ft[m].frozen THEN {} ELSE KidsOf(ft, m)], n)
           new(m) == IF m \in reached /\ ~ft[m].frozen /\ ft[m].kind \in {"integer", "float"}
                     THEN [ft[m] EXCEPT !.order = o] ELSE ft[m]
<1>1. ft' = [m \in Types |-> new(m)] /\ Clears
  BY DEF SetByteOrder, Clears
<1>2. \A m \in Types : ft'[m] = new(m)
  BY <1>1
<1> HIDE DEF reached
<1>3. \A m \in Types : ft[m] \in FieldType
  BY FormedTypes DEF Good, Types
<1>4. ASSUME NEW m \in Types
      PROVE  /\ ft'[m] \in FieldType /\ ft'[m].kind = ft[m].kind
             /\ ft'[m].kids = ft[m].kids /\ ft'[m].tag = ft[m].tag
             /\ ft'[m].frozen = ft[m].frozen /\ ft'[m].valid = ft[m].valid
             /\ ft[m].frozen => ft'[m] = ft[m]
  BY <1>2, <1>3 DEF FieldType
<1>5. ft' = [m \in Types |-> ft'[m]]
  BY <1>1
<1>6. QED
  BY <1>1, <1>4, <1>5, ManyLeave

LEMMA GetterOfAlignment ==
  ASSUME Good(ft), Len(ft) <= MaxTypes, NEW n \in Types, GetAlignment(n)
  PROVE  Leaves /\ Clears
<1> DEFINE new(m) == IF m \in AlignReach(ft, n) /\ ~ft[m].frozen /\ ft[m].kind = "struct"
                     THEN [ft[m] EXCEPT !.align = AlignmentOf(ft, m)] ELSE ft[m]
<1>1. ft' = [m \in Types |-> new(m)] /\ Clears
  BY DEF GetAlignment, Clears
<1>2. \A m \in Types : ft'[m] = new(m)
  BY <1>1
<1>3. \A m \in Types : ft[m] \in FieldType /\ AlignmentOf(ft, m) \in Nat
  BY FormedTypes, AlignIsMax DEF Good, Types
<1>4. ASSUME NEW m \in Types
      PROVE  /\ ft'[m] \in FieldType /\ ft'[m].kind = ft[m].kind
             /\ ft'[m].kids = ft[m].kids /\ ft'[m].tag = ft[m].tag
             /\ ft'[m].frozen = ft[m].frozen /\ ft'[m].valid = ft[m].valid
             /\ ft[m].frozen => ft'[m] = ft[m]
  BY <1>2, <1>3 DEF FieldType
<1>5. ft' = [m \in Types |-> ft'[m]]
  BY <1>1
<1>6. QED
  BY <1>1, <1>4, <1>5, ManyLeave

\* The ranges that are found for a variant's choices.
LEMMA RangesFound ==
  ASSUME Good(ft), NEW n \in Types, ft[n].tag # None
  PROVE  [i \in DOMAIN ft[n].kids |-> RangesOf(ft, ft[n].tag, ft[n].kids[i].name)]
           \in Seq(SUBSET (Nat \X Values \X Values))
<1> DEFINE ranges == [i \in DOMAIN ft[n].kids |-> RangesOf(ft, ft[n].tag, ft[n].kids[i].name)]
           Z == SUBSET (Nat \X Values \X Values)
<1>1. WellMade(ft[n], Types)
  BY FormedIsWellMade DEF Good, Types
<1>2. ft[n].tag \in Types /\ ft[ft[n].tag] \in FieldType
  BY <1>1, FormedTypes DEF WellMade, Good, Types
<1>3. ASSUME NEW label PROVE RangesOf(ft, ft[n].tag, label) \in Z
  <2>1. ft[ft[n].tag].maps \in Seq(Mapping)
    BY <1>2, OneType
  <2>2. \A i \in DOMAIN ft[ft[n].tag].maps :
          <<i, ft[ft[n].tag].maps[i].lo, ft[ft[n].tag].maps[i].hi>> \in Nat \X Values \X Values
    <3> SUFFICES ASSUME NEW i \in DOMAIN ft[ft[n].tag].maps
                 PROVE  <<i, ft[ft[n].tag].maps[i].lo, ft[ft[n].tag].maps[i].hi>> \in Nat \X Values \X Values
      OBVIOUS
    <3>1. i \in Nat /\ ft[ft[n].tag].maps[i] \in Mapping
      BY <2>1
    <3>2. ft[ft[n].tag].maps[i].lo \in Values /\ ft[ft[n].tag].maps[i].hi \in Values
      BY <3>1 DEF Mapping
    <3>3. QED
      BY <3>1, <3>2
  <2>3. QED
    BY <2>2 DEF RangesOf
<1> HIDE DEF Z
<1>4. ranges \in Seq(Z)
  <2>1. DOMAIN ft[n].kids = 1..Len(ft[n].kids) /\ Len(ft[n].kids) \in Nat
    BY <1>1, OneType DEF WellMade
  <2>2. ranges \in [1..Len(ft[n].kids) -> Z]
    BY <1>3, <2>1
  <2>3. QED
    BY <2>1, <2>2, SeqDef
<1>5. QED
  BY <1>4 DEF Z

\* Of a sequence of ranges, some entries may give way to those of another.
Mixed(s, t) == [i \in DOMAIN s |-> IF s[i] = {} \/ i \notin DOMAIN t THEN s[i] ELSE t[i]]

LEMMA RangesMix ==
  ASSUME NEW Z, NEW s \in Seq(Z), NEW t \in Seq(Z)
  PROVE  Mixed(s, t) \in Seq(Z)
<1> DEFINE u == Mixed(s, t)
<1>1. DOMAIN s = 1..Len(s) /\ Len(s) \in Nat
  OBVIOUS
<1>2. \A i \in DOMAIN s : u[i] \in Z
  BY DEF Mixed
<1>3. u \in [1..Len(s) -> Z]
  BY <1>1, <1>2 DEF Mixed
<1>4. QED
  BY <1>1, <1>3, SeqDef

LEMMA FinderOfChoices ==
  ASSUME Good(ft), Len(ft) <= MaxTypes, NEW n \in Types, FindChoice(n)
  PROVE  Leaves /\ Clears /\ KeepsParts(ft, ft')
<1> DEFINE found == [i \in DOMAIN ft[n].kids |-> RangesOf(ft, ft[n].tag, ft[n].kids[i].name)]
           Z == SUBSET (Nat \X Values \X Values)
<1>1. found \in Seq(Z)
  BY RangesFound DEF FindChoice
<1>2. PICK hit :
        ft' = [m \in Types |-> IF m = n THEN [ft[m] EXCEPT !.fresh = TRUE, !.ranges = found]
                                 ELSE IF m \in hit THEN [ft[m] EXCEPT !.ranges = Mixed(@, found)]
                                 ELSE ft[m]]
  BY DEF FindChoice, Mixed
<1>3. Clears
  BY DEF FindChoice, Clears
<1> HIDE DEF found
<1>4. ASSUME NEW m \in Types
      PROVE  /\ ft'[m] \in FieldType /\ ft'[m].kind = ft[m].kind
             /\ ft'[m].kids = ft[m].kids /\ ft'[m].tag = ft[m].tag
             /\ ft'[m].frozen = ft[m].frozen /\ ft'[m].valid = ft[m].valid
             /\ Layout(ft'[m]) = Layout(ft[m]) /\ ft'[m].data = ft[m].data
             /\ ft'[m].overlap = ft[m].overlap
  <2>1. ft[m] \in FieldType /\ ft[m].ranges \in Seq(Z)
    BY FormedTypes, OneType DEF Good, Types
  <2>2. Mixed(ft[m].ranges, found) \in Seq(Z)
    BY <1>1, <2>1, RangesMix
  <2> DEFINE mine == Mixed(ft[m].ranges, found)
  <2>3. mine \in Seq(Z)
    BY <2>2
  <2>4. \/ ft'[m] = [ft[m] EXCEPT !.fresh = TRUE, !.ranges = found]
        \/ ft'[m] = [ft[m] EXCEPT !.ranges = mine]
        \/ ft'[m] = ft[m]
    BY <1>2
  <2> HIDE DEF mine
  <2>5. /\ ft'[m] \in FieldType /\ ft'[m].kind = ft[m].kind
        /\ ft'[m].kids = ft[m].kids /\ ft'[m].tag = ft[m].tag
        /\ ft'[m].frozen = ft[m].frozen /\ ft'[m].valid = ft[m].valid
        /\ ft'[m].align = ft[m].align /\ ft'[m].order = ft[m].order
        /\ ft'[m].signed = ft[m].signed /\ ft'[m].clock = ft[m].clock
        /\ ft'[m].maps = ft[m].maps /\ ft'[m].data = ft[m].data
        /\ ft'[m].overlap = ft[m].overlap
    BY <1>1, <2>1, <2>3, <2>4 DEF FieldType
  <2>6. QED
    BY <2>5, SameLayout
<1>5. ft' = [m \in Types |-> ft'[m]]
  BY <1>2
<1>6. Leaves
  BY <1>4, <1>5, ManyLeave
<1>7. KeepsParts(ft, ft')
  BY <1>4, <1>5 DEF KeepsParts, Types
<1>8. QED
  BY <1>3, <1>6, <1>7

LEMMA FreezeLeaves ==
  ASSUME Good(ft), Len(ft) <= MaxTypes, NEW n \in Types, Freeze(n)
  PROVE  Leaves /\ Clears
<1>1. ft' = AfterFreeze(ft, n) /\ Clears
  BY DEF Freeze, AfterFreeze, Types, Clears
<1>2. Good(ft')
  BY <1>1, FreezeGood DEF Types
<1>3. DOMAIN ft' = DOMAIN ft
  BY <1>1 DEF AfterFreeze
<1>4. Len(ft') = Len(ft)
  BY <1>2, <1>3, FormedTypes DEF Good
<1>5. \A m \in Types : ft[m].frozen => ft'[m] = ft[m]
  BY <1>1, FreezeOne DEF Good, Types
<1>6. Keeps(ft, ft')
  BY <1>5 DEF Keeps, Types
<1>7. QED
  BY <1>1, <1>2, <1>4, <1>6 DEF Leaves

LEMMA ValidateLeaves ==
  ASSUME Good(ft), Len(ft) <= MaxTypes, NEW n \in Types, Validate(n)
  PROVE  Leaves /\ Clears
<1>1. ft' = AfterValidate(ft, n) /\ Clears
  BY DEF Validate, AfterValidate, Types, Visited, Asked, Clears
<1>2. Good(ft')
  BY <1>1, ValidateGood DEF Types
<1>3. DOMAIN ft' = DOMAIN ft
  BY <1>1 DEF AfterValidate
<1>4. Len(ft') = Len(ft)
  BY <1>2, <1>3, FormedTypes DEF Good
<1>5. Keeps(ft, ft')
  BY <1>1, ValidateKeeps DEF Good, Types
<1>6. QED
  BY <1>1, <1>2, <1>4, <1>5 DEF Leaves

(***************************************************************************)
(* Copies.                                                                 *)
(***************************************************************************)

\* One step of the queue of a copy.
Longer(h, before, k) == IF k <= Len(before) THEN before \o Parts(h, before[k]) ELSE before

\* The queues are what their recursive definition says.
LEMMA QueuesAre ==
  ASSUME NEW h, NEW n
  PROVE  /\ Queues(h, n)[0] = <<n>>
         /\ \A k \in 1..MaxTypes : Queues(h, n)[k] = Longer(h, Queues(h, n)[k - 1], k)
<1> DEFINE Def(q, k) == IF k = 0 THEN <<n>> ELSE Longer(h, q[k - 1], k)
           T == {j \in Nat : \E q : q = [k \in 0..j |-> Def(q, k)]}
<1>1. 0 \in T
  <2> DEFINE q == [k \in 0..0 |-> <<n>>]
  <2>1. \A k \in 0..0 : k = 0
    OBVIOUS
  <2>2. q = [k \in 0..0 |-> Def(q, k)]
    BY <2>1
  <2>3. QED
    BY <2>2
<1>2. ASSUME NEW j \in Nat, j \in T PROVE j + 1 \in T
  <2>1. PICK q : q = [k \in 0..j |-> Def(q, k)]
    BY <1>2
  <2> DEFINE r == [k \in 0..(j + 1) |-> IF k = j + 1 THEN Longer(h, q[j], k) ELSE q[k]]
  <2>2. \A k \in 0..(j + 1) : r[k] = Def(r, k)
    <3> SUFFICES ASSUME NEW k \in 0..(j + 1) PROVE r[k] = Def(r, k)
      OBVIOUS
    <3>1. CASE k = j + 1
      <4>1. j \in 0..(j + 1) /\ j # j + 1 /\ k - 1 = j /\ k # 0
        BY <3>1
      <4>2. r[k - 1] = q[j]
        BY <4>1
      <4>3. QED
        BY <3>1, <4>1, <4>2
    <3>2. CASE k # j + 1
      <4>1. k \in 0..j
        BY <3>2
      <4>2. r[k] = q[k] /\ q[k] = Def(q, k)
        BY <2>1, <3>2, <4>1
      <4>3. k # 0 => k - 1 \in 0..(j + 1) /\ k - 1 # j + 1
        BY <4>1
      <4>4. k # 0 => r[k - 1] = q[k - 1]
        BY <4>3
      <4>5. QED
        BY <4>2, <4>4
    <3>3. QED
      BY <3>1, <3>2
  <2>3. r = [k \in 0..(j + 1) |-> Def(r, k)]
    BY <2>2
  <2> HIDE DEF r
  <2>4. QED
    BY <2>3
<1>3. Nat \subseteq T
  <2> HIDE DEF T
  <2> QED
    BY <1>1, <1>2, SetInduction
<1>4. MaxTypes \in T
  BY <1>3, FieldTypesAssumption
<1> DEFINE Is(q) == q = [k \in 0..MaxTypes |->
             IF k = 0 THEN <<n>>
             ELSE LET before == q[k - 1]
                  IN IF k <= Len(before) THEN before \o Parts(h, before[k]) ELSE before]
<1>5. \E q : Is(q)
  BY <1>4 DEF Longer
<1>6. Queues(h, n) = CHOOSE q : Is(q)
  BY DEF Queues
<1>7. Is(Queues(h, n))
  <2> HIDE DEF Is
  <2> QED
    BY <1>5, <1>6
<1>8. \A k \in 0..MaxTypes : Queues(h, n)[k] = Def(Queues(h, n), k)
  BY <1>7 DEF Longer
<1>9. QED
  BY <1>8, FieldTypesAssumption

LEMMA PartsAre ==
  ASSUME NEW h, Formed(h), NEW m \in DOMAIN h
  PROVE  /\ Parts(h, m) \in Seq(DOMAIN h)
         /\ Len(h[m].kids) \in Nat /\ DOMAIN h[m].kids = 1..Len(h[m].kids)
         /\ Len(Parts(h, m)) = (IF h[m].tag = None THEN 0 ELSE 1) + Len(h[m].kids)
<1> DEFINE first == IF h[m].tag = None THEN <<>> ELSE <<h[m].tag>>
           rest == [i \in DOMAIN h[m].kids |-> h[m].kids[i].type]
<1>1. WellMade(h[m], DOMAIN h)
  BY FormedIsWellMade
<1>2. Len(h[m].kids) \in Nat /\ DOMAIN h[m].kids = 1..Len(h[m].kids)
  BY <1>1, OneType DEF WellMade
<1>3. rest \in Seq(DOMAIN h) /\ Len(rest) = Len(h[m].kids)
  <2>1. rest \in [1..Len(h[m].kids) -> DOMAIN h]
    BY <1>1, <1>2 DEF WellMade
  <2> HIDE DEF rest
  <2>2. QED
    BY <1>2, <2>1, SeqDef
<1>4. first \in Seq(DOMAIN h) /\ Len(first) = IF h[m].tag = None THEN 0 ELSE 1
  <2>1. CASE h[m].tag = None
    BY <2>1
  <2>2. CASE h[m].tag # None
    <3>1. first = <<h[m].tag>> /\ h[m].tag \in DOMAIN h
      BY <1>1, <2>2 DEF WellMade
    <3>2. QED
      BY <2>2, <3>1
  <2>3. QED
    BY <2>1, <2>2
<1>5. Parts(h, m) = first \o rest
  BY DEF Parts
<1> HIDE DEF first, rest
<1>6. first \o rest \in Seq(DOMAIN h) /\ Len(first \o rest) = Len(first) + Len(rest)
  BY <1>3, <1>4, ConcatProperties
<1>7. QED
  BY <1>2, <1>3, <1>4, <1>5, <1>6

LEMMA QueuesAreSequences ==
  ASSUME NEW h, Formed(h), NEW n \in DOMAIN h, NEW k \in 0..MaxTypes
  PROVE  Queues(h, n)[k] \in Seq(DOMAIN h) /\ Len(Queues(h, n)[k]) \in Nat
<1> DEFINE q == Queues(h, n)
           T == {j \in Nat : j <= MaxTypes => q[j] \in Seq(DOMAIN h)}
<1>1. MaxTypes \in Nat
  BY FieldTypesAssumption
<1>2. 0 \in T
  <2>1. q[0] = <<n>> /\ <<n>> \in Seq(DOMAIN h)
    BY QueuesAre
  <2>2. QED
    BY <2>1
<1>3. ASSUME NEW j \in Nat, j \in T PROVE j + 1 \in T
  <2> SUFFICES ASSUME j + 1 <= MaxTypes PROVE q[j + 1] \in Seq(DOMAIN h)
    OBVIOUS
  <2>1. q[j] \in Seq(DOMAIN h)
    BY <1>1, <1>3
  <2>2. j + 1 \in 1..MaxTypes /\ (j + 1) - 1 = j
    BY <1>1
  <2>3. q[j + 1] = Longer(h, q[j], j + 1)
    BY <2>2, QueuesAre
  <2> HIDE DEF q
  <2>4. CASE j + 1 <= Len(q[j])
    <3>1. q[j][j + 1] \in DOMAIN h
      BY <2>1, <2>4
    <3>2. Parts(h, q[j][j + 1]) \in Seq(DOMAIN h)
      BY <3>1, PartsAre
    <3>3. QED
      BY <2>1, <2>3, <2>4, <3>2 DEF Longer
  <2>5. CASE ~(j + 1 <= Len(q[j]))
    BY <2>1, <2>3, <2>5 DEF Longer
  <2>6. QED
    BY <2>4, <2>5
<1>4. Nat \subseteq T
  <2> HIDE DEF T
  <2> QED
    BY <1>2, <1>3, SetInduction
<1>5. q[k] \in Seq(DOMAIN h)
  BY <1>1, <1>4
<1>6. QED
  BY <1>5

LEMMA ConcatBegins ==
  ASSUME NEW S, NEW s \in Seq(S), NEW t \in Seq(S), NEW u, u = s \o t
  PROVE  Len(s) <= Len(u) /\ \A x \in 1..Len(s) : u[x] = s[x]
OBVIOUS

LEMMA ConcatEnds ==
  ASSUME NEW S, NEW s \in Seq(S), NEW t \in Seq(S), NEW u, u = s \o t
  PROVE  Len(u) = Len(s) + Len(t) /\ \A x \in 1..Len(t) : u[Len(s) + x] = t[x]
OBVIOUS

\* A queue begins with the queues before it.
LEMMA QueuesGrow ==
  ASSUME NEW h, Formed(h), NEW n \in DOMAIN h, NEW i \in 0..MaxTypes, NEW j \in i..MaxTypes
  PROVE  LET q == Queues(h, n)
         IN Len(q[i]) <= Len(q[j]) /\ \A x \in 1..Len(q[i]) : q[j][x] = q[i][x]
<1> DEFINE q == Queues(h, n)
           Begins(s, t) == Len(s) <= Len(t) /\ \A x \in 1..Len(s) : t[x] = s[x]
           T == {d \in Nat : i + d <= MaxTypes => Begins(q[i], q[i + d])}
<1>1. MaxTypes \in Nat /\ i \in Nat
  BY FieldTypesAssumption
<1>2. \A k \in 0..MaxTypes : q[k] \in Seq(DOMAIN h) /\ Len(q[k]) \in Nat
  BY QueuesAreSequences
<1>3. 0 \in T
  BY <1>1, <1>2
<1>4. ASSUME NEW d \in Nat, d \in T PROVE d + 1 \in T
  <2> SUFFICES ASSUME i + (d + 1) <= MaxTypes PROVE Begins(q[i], q[i + (d + 1)])
    OBVIOUS
  <2> DEFINE k == i + (d + 1)
  <2>1. k \in 1..MaxTypes /\ k - 1 = i + d /\ i + d \in 0..MaxTypes
    BY <1>1
  <2>2. q[k] = Longer(h, q[i + d], k)
    BY <2>1, QueuesAre
  <2>3. Begins(q[i], q[i + d])
    BY <1>1, <1>4, <2>1
  <2> HIDE DEF k, q
  <2>4. Begins(q[i + d], q[k])
    <3>1. CASE k <= Len(q[i + d])
      <4>1. q[i + d][k] \in DOMAIN h
        BY <1>2, <2>1, <3>1
      <4>2. Parts(h, q[i + d][k]) \in Seq(DOMAIN h)
        BY <4>1, PartsAre
      <4>3. q[k] = q[i + d] \o Parts(h, q[i + d][k])
        BY <2>2, <3>1 DEF Longer
      <4>4. q[i + d] \in Seq(DOMAIN h)
        BY <1>2, <2>1
      <4> DEFINE a == q[i + d]
                 c == q[k]
      <4>5. a \in Seq(DOMAIN h) /\ c = a \o Parts(h, a[k]) /\ Parts(h, a[k]) \in Seq(DOMAIN h)
        BY <4>2, <4>3, <4>4
      <4> HIDE DEF a, c
      <4>6. Len(a) <= Len(c) /\ \A x \in 1..Len(a) : c[x] = a[x]
        BY <4>5, ConcatBegins
      <4>7. QED
        BY <4>6 DEF a, c
    <3>2. CASE ~(k <= Len(q[i + d]))
      BY <1>2, <2>1, <2>2, <3>2 DEF Longer
    <3>3. QED
      BY <3>1, <3>2
  <2>5. Begins(q[i], q[k])
    <3>1. Len(q[i]) \in Nat /\ Len(q[i + d]) \in Nat /\ Len(q[k]) \in Nat
      BY <1>1, <1>2, <2>1
    <3>2. QED
      BY <2>3, <2>4, <3>1
  <2>6. QED
    BY <2>5 DEF k
<1>5. Nat \subseteq T
  <2> HIDE DEF T
  <2> QED
    BY <1>3, <1>4, SetInduction
<1>6. j - i \in T /\ i + (j - i) = j
  BY <1>1, <1>5
<1>7. Begins(q[i], q[j])
  BY <1>1, <1>6
<1>8. QED
  BY <1>7

\* When all types of a queue are copied, it is the last one.
LEMMA QueuesEnd ==
  ASSUME NEW h, Formed(h), NEW n \in DOMAIN h, NEW i \in 1..MaxTypes,
         Len(Queues(h, n)[i - 1]) < i
  PROVE  Queues(h, n)[MaxTypes] = Queues(h, n)[i - 1]
<1> DEFINE q == Queues(h, n)
           T == {d \in Nat : (i - 1) + d <= MaxTypes => q[(i - 1) + d] = q[i - 1]}
<1>1. MaxTypes \in Nat /\ i \in Nat /\ i - 1 \in 0..MaxTypes
  BY FieldTypesAssumption
<1>2. Len(q[i - 1]) \in Nat
  BY <1>1, QueuesAreSequences
<1>3. 0 \in T
  BY <1>1
<1>4. ASSUME NEW d \in Nat, d \in T PROVE d + 1 \in T
  <2> SUFFICES ASSUME (i - 1) + (d + 1) <= MaxTypes PROVE q[(i - 1) + (d + 1)] = q[i - 1]
    OBVIOUS
  <2>1. i + d \in 1..MaxTypes /\ (i + d) - 1 = (i - 1) + d /\ (i - 1) + (d + 1) = i + d
    BY <1>1
  <2>2. q[i + d] = Longer(h, q[(i - 1) + d], i + d)
    BY <2>1, QueuesAre
  <2>3. q[(i - 1) + d] = q[i - 1]
    BY <1>1, <1>4, <2>1
  <2>4. ~(i + d <= Len(q[i - 1]))
    BY <1>1, <1>2
  <2> HIDE DEF q
  <2>5. q[i + d] = q[i - 1]
    BY <2>2, <2>3, <2>4 DEF Longer
  <2>6. QED
    BY <2>1, <2>5
<1>5. Nat \subseteq T
  <2> HIDE DEF T
  <2> QED
    BY <1>3, <1>4, SetInduction
<1>6. MaxTypes - (i - 1) \in Nat /\ (i - 1) + (MaxTypes - (i - 1)) = MaxTypes
  BY <1>1
<1> DEFINE d == MaxTypes - (i - 1)
<1>7. d \in T /\ (i - 1) + d = MaxTypes
  BY <1>5, <1>6
<1> HIDE DEF d
<1>8. QED
  BY <1>1, <1>7

\* After before types come the parts.
Places(order, before, parts) == \A x \in 1..Len(parts) : order[before + x] = parts[x]

\* The parts of the i-th type that is copied are in the last queue, after all
\* that was in the queue before it.
LEMMA PartsHavePlaces ==
  ASSUME NEW h, Formed(h), NEW n \in DOMAIN h,
         Len(Queues(h, n)[MaxTypes]) <= MaxTypes,
         NEW i \in 1..Len(Queues(h, n)[MaxTypes])
  PROVE  LET q == Queues(h, n)
             order == q[MaxTypes]
         IN /\ i - 1 \in 0..MaxTypes /\ order[i] \in DOMAIN h /\ Len(q[i - 1]) \in Nat
            /\ Len(q[i - 1]) + Len(Parts(h, order[i])) <= Len(order)
            /\ i <= Len(q[i - 1])
            /\ Places(order, Len(q[i - 1]), Parts(h, order[i]))
<1> DEFINE q == Queues(h, n)
           order == q[MaxTypes]
<1>1. MaxTypes \in Nat /\ MaxTypes \in 0..MaxTypes
  BY FieldTypesAssumption
<1>2. \A k \in 0..MaxTypes : q[k] \in Seq(DOMAIN h) /\ Len(q[k]) \in Nat
  BY QueuesAreSequences
<1>3. i \in 1..MaxTypes /\ i - 1 \in 0..MaxTypes /\ i \in 0..MaxTypes
      /\ MaxTypes \in i..MaxTypes /\ MaxTypes \in (i - 1)..MaxTypes
  BY <1>1, <1>2
<1>4. i <= Len(q[i - 1])
  <2> SUFFICES ASSUME ~(i <= Len(q[i - 1])) PROVE FALSE
    OBVIOUS
  <2>1. order = q[i - 1]
    BY <1>2, <1>3, QueuesEnd
  <2>2. QED
    BY <1>2, <1>3, <2>1
<1>5. order[i] = q[i - 1][i]
  BY <1>2, <1>3, <1>4, QueuesGrow
<1>6. order[i] \in DOMAIN h
  BY <1>1, <1>2
<1>7. q[i] = q[i - 1] \o Parts(h, order[i])
  <2>1. q[i] = Longer(h, q[i - 1], i)
    BY <1>3, QueuesAre
  <2>2. QED
    BY <1>4, <1>5, <2>1 DEF Longer
<1>8. Len(q[i]) <= Len(order)
  BY <1>3, QueuesGrow
<1>9. Parts(h, order[i]) \in Seq(DOMAIN h)
  BY <1>6, PartsAre
<1> HIDE DEF q
<1> DEFINE before == q[i - 1]
           parts == Parts(h, order[i])
           after == q[i]
<1>10. /\ before \in Seq(DOMAIN h) /\ parts \in Seq(DOMAIN h) /\ after = before \o parts
       /\ Len(before) \in Nat /\ Len(after) <= Len(order) /\ Len(order) \in Nat
       /\ \A y \in 1..Len(after) : order[y] = after[y]
  <2>1. before \in Seq(DOMAIN h) /\ Len(before) \in Nat /\ Len(order) \in Nat
    BY <1>1, <1>2, <1>3
  <2>2. \A y \in 1..Len(after) : order[y] = after[y]
    BY <1>3, QueuesGrow DEF q
  <2> HIDE DEF before, parts, after
  <2>3. QED
    BY <1>7, <1>8, <1>9, <2>1, <2>2 DEF before, parts, after
<1> HIDE DEF before, parts, after, order
<1>11. Len(after) = Len(before) + Len(parts) /\ \A x \in 1..Len(parts) : after[Len(before) + x] = parts[x]
  BY <1>10, ConcatEnds
<1>12. Len(before) + Len(parts) <= Len(order) /\ Places(order, Len(before), parts)
  <2>1. Len(parts) \in Nat
    BY <1>10
  <2>2. \A x \in 1..Len(parts) : Len(before) + x \in 1..Len(after)
    BY <1>10, <1>11, <2>1
  <2>3. QED
    BY <1>10, <1>11, <2>2 DEF Places
<1>13. QED
  BY <1>2, <1>3, <1>4, <1>6, <1>12 DEF q, order, before, parts

\* A copy may be where the copies of its parts have a place.
LEMMA CopyIsMade ==
  ASSUME NEW h, Formed(h), NEW m \in DOMAIN h, NEW end \in Nat, NEW D,
         \A x \in 1..Len(Parts(h, m)) : end + x \in D
  PROVE  LET t == CopyOf(h, m, end) IN WellMade(t, D) /\ ~t.frozen /\ ~t.valid
<1> DEFINE tags == IF h[m].tag = None THEN 0 ELSE 1
           kids == [i \in DOMAIN h[m].kids |->
                      [name |-> h[m].kids[i].name, type |-> end + tags + i]]
           tag == IF h[m].tag = None THEN None ELSE end + 1
           lender == IF \E i \in DOMAIN h[m].ranges : h[m].ranges[i] # {} THEN Home(h, m) ELSE None
           t == CopyOf(h, m, end)
<1>1. h[m] \in FieldType /\ WellMade(h[m], DOMAIN h) /\ m \in Nat
  BY FormedTypes, FormedIsWellMade
<1>2. /\ Len(h[m].kids) \in Nat /\ DOMAIN h[m].kids = 1..Len(h[m].kids)
      /\ Len(Parts(h, m)) = tags + Len(h[m].kids)
      /\ \A i \in DOMAIN h[m].kids : h[m].kids[i] \in Member
  <2>1. h[m].kids \in Seq(Member)
    BY <1>1, OneType
  <2>2. /\ Len(h[m].kids) \in Nat /\ DOMAIN h[m].kids = 1..Len(h[m].kids)
        /\ Len(Parts(h, m)) = tags + Len(h[m].kids)
    BY PartsAre
  <2>3. \A i \in DOMAIN h[m].kids : h[m].kids[i] \in Member
    BY <2>1
  <2>4. QED
    BY <2>2, <2>3
<1>3. tags \in {0, 1} /\ (h[m].tag = None <=> tags = 0)
  OBVIOUS
<1>4. \A i \in DOMAIN h[m].kids : kids[i].type \in D /\ kids[i] \in Member
  <2> SUFFICES ASSUME NEW i \in DOMAIN h[m].kids PROVE kids[i].type \in D /\ kids[i] \in Member
    OBVIOUS
  <2>1. kids[i] = [name |-> h[m].kids[i].name, type |-> end + tags + i]
    OBVIOUS
  <2> HIDE DEF kids, tags
  <2>2. tags + i \in 1..Len(Parts(h, m)) /\ end + tags + i = end + (tags + i)
    BY <1>2, <1>3
  <2>3. end + tags + i \in D /\ end + tags + i \in Nat
    BY <1>3, <2>2
  <2>4. h[m].kids[i].name \in Names \cup {""}
    BY <1>2 DEF Member
  <2>5. [name |-> h[m].kids[i].name, type |-> end + tags + i] \in Member
    BY <2>3, <2>4 DEF Member
  <2>6. QED
    BY <2>1, <2>3, <2>5
<1>5. kids \in Seq(Member) /\ Len(kids) = Len(h[m].kids) /\ DOMAIN kids = DOMAIN h[m].kids
  <2>1. kids \in [1..Len(h[m].kids) -> Member]
    BY <1>2, <1>4
  <2>2. DOMAIN kids = DOMAIN h[m].kids
    OBVIOUS
  <2> HIDE DEF kids
  <2>3. QED
    BY <1>2, <2>1, <2>2, SeqDef
<1>6. tag = None \/ (tag \in D /\ tag \in Nat)
  <2>1. CASE h[m].tag # None
    <3>1. 1 \in 1..Len(Parts(h, m))
      BY <1>2, <2>1
    <3>2. end + 1 \in D
      BY <3>1
    <3>3. QED
      BY <2>1, <3>2
  <2>2. QED
    BY <2>1
<1>7. lender \in Nat /\ tag \in Nat
  <2>1. Home(h, m) \in Nat
    BY <1>1, OneType DEF Home
  <2>2. QED
    BY <1>6, <2>1 DEF None
<1>8. t = [h[m] EXCEPT !.frozen = FALSE, !.valid = FALSE, !.overlap = FALSE,
                       !.tag = tag, !.kids = kids, !.lender = lender]
  BY DEF CopyOf
<1> HIDE DEF kids, tag, lender, t, tags
<1>9. t \in FieldType /\ t.kids = kids /\ t.tag = tag /\ t.kind = h[m].kind /\ ~t.frozen /\ ~t.valid
  BY <1>1, <1>5, <1>7, <1>8 DEF FieldType
<1>10. WellMade(t, D)
  BY <1>1, <1>4, <1>5, <1>6, <1>9 DEF WellMade
<1>11. QED
  BY <1>9, <1>10 DEF t

LEMMA CopyLeaves ==
  ASSUME Good(ft), Len(ft) <= MaxTypes, NEW n \in Types, Copy(n)
  PROVE  /\ Leaves /\ DOMAIN ft \subseteq DOMAIN ft'
         /\ copied' \in Types' \X Types' /\ mapped' = mapped
<1> DEFINE q == Queues(ft, n)
           order == q[MaxTypes]
           copies == [i \in DOMAIN order |-> CopyOf(ft, order[i], Len(ft) + Len(q[i - 1]))]
           D == 1..(Len(ft) + Len(order))
<1>1. /\ Len(ft) + Len(order) <= MaxTypes
      /\ ft' = ft \o copies
      /\ copied' = <<n, Len(ft) + 1>> /\ mapped' = mapped
  BY DEF Copy
<1>2. Formed(ft) /\ ft \in Seq(FieldType) /\ Len(ft) \in Nat /\ Types = 1..Len(ft) /\ n \in DOMAIN ft
  BY FormedTypes DEF Good, Formed, Types
<1>3. MaxTypes \in Nat /\ MaxTypes \in 0..MaxTypes
  BY FieldTypesAssumption
<1>4. order \in Seq(DOMAIN ft) /\ Len(order) \in Nat /\ DOMAIN order = 1..Len(order)
  <2>1. order \in Seq(DOMAIN ft) /\ Len(order) \in Nat
    BY <1>2, <1>3, QueuesAreSequences
  <2> HIDE DEF order
  <2>2. QED
    BY <2>1
<1>5. ASSUME NEW i \in 1..Len(order)
      PROVE  WellMade(copies[i], D) /\ ~copies[i].frozen /\ ~copies[i].valid
  <2> DEFINE end == Len(ft) + Len(q[i - 1])
  <2>1. Len(order) <= MaxTypes
    BY <1>1, <1>2, <1>3, <1>4
  <2>2. /\ order[i] \in DOMAIN ft /\ Len(q[i - 1]) \in Nat
        /\ Len(q[i - 1]) + Len(Parts(ft, order[i])) <= Len(order)
    BY <1>2, <2>1, PartsHavePlaces
  <2>3. Len(Parts(ft, order[i])) \in Nat
    BY <1>2, <2>2, PartsAre
  <2>4. copies[i] = CopyOf(ft, order[i], end)
    BY <1>4
  <2> HIDE DEF q, order, copies
  <2> DEFINE before == Len(q[i - 1])
             parts == Len(Parts(ft, order[i]))
             mine == Len(ft)
             added == Len(order)
  <2>5. /\ before \in Nat /\ parts \in Nat /\ mine \in Nat /\ added \in Nat
        /\ before + parts <= added /\ end = mine + before /\ D = 1..(mine + added)
    BY <1>2, <1>4, <2>2, <2>3 DEF order, q
  <2> HIDE DEF end, D, before, parts, mine, added
  <2>7. end \in Nat /\ \A x \in 1..parts : end + x \in D
    BY <2>5
  <2>6. QED
    BY <1>2, <2>2, <2>4, <2>7, CopyIsMade DEF parts
<1>6. copies \in Seq(FieldType) /\ Len(copies) = Len(order)
  <2>1. DOMAIN copies = 1..Len(order)
    BY <1>4
  <2>2. \A i \in 1..Len(order) : copies[i] \in FieldType
    BY <1>5 DEF WellMade
  <2>3. copies = [i \in 1..Len(order) |-> copies[i]]
    BY <1>4
  <2> HIDE DEF copies, order
  <2>4. copies \in [1..Len(order) -> FieldType]
    BY <2>2, <2>3
  <2>5. QED
    BY <1>4, <2>1, <2>4, SeqDef
<1> HIDE DEF q, order, copies
<1>7. /\ ft' \in Seq(FieldType) /\ Len(ft') = Len(ft) + Len(order) /\ DOMAIN ft' = D
      /\ \A m \in D : ft'[m] = IF m <= Len(ft) THEN ft[m] ELSE copies[m - Len(ft)]
  <2>1. /\ ft \o copies \in Seq(FieldType) /\ Len(ft \o copies) = Len(ft) + Len(copies)
        /\ \A m \in 1..(Len(ft) + Len(copies)) :
             (ft \o copies)[m] = IF m <= Len(ft) THEN ft[m] ELSE copies[m - Len(ft)]
    BY <1>2, <1>6, ConcatProperties
  <2>2. DOMAIN (ft \o copies) = 1..(Len(ft) + Len(copies))
    BY <1>2, <1>6
  <2>3. QED
    BY <1>1, <1>6, <2>1, <2>2
<1>8. /\ DOMAIN ft \subseteq D /\ \A m \in DOMAIN ft : ft'[m] = ft[m]
      /\ \A m \in D \ DOMAIN ft : \E i \in 1..Len(order) : ft'[m] = copies[i]
  <2>1. ASSUME NEW m \in D \ DOMAIN ft PROVE \E i \in 1..Len(order) : ft'[m] = copies[i]
    <3>1. ~(m <= Len(ft)) /\ m - Len(ft) \in 1..Len(order)
      BY <1>2, <1>4 DEF Types
    <3>2. QED
      BY <1>7, <3>1
  <2>2. DOMAIN ft \subseteq D
    BY <1>2, <1>4 DEF Types
  <2>3. \A m \in DOMAIN ft : m <= Len(ft)
    BY <1>2 DEF Types
  <2>4. QED
    BY <1>7, <2>1, <2>2, <2>3
<1> HIDE DEF D
<1>9. \A m \in D : WellMade(ft'[m], D)
  <2>1. \A m \in DOMAIN ft : WellMade(ft[m], DOMAIN ft)
    BY <1>2, FormedIsWellMade
  <2>2. \A m \in DOMAIN ft : WellMade(ft[m], D)
    BY <1>8, <2>1 DEF WellMade
  <2>3. QED
    BY <1>5, <1>8, <2>2
<1>10. Formed(ft')
  BY <1>7, <1>9, FormedIsWellMade
<1>11. Good(ft')
  <2>1. \A m \in D \ DOMAIN ft : ~ft'[m].frozen /\ ~ft'[m].valid
    BY <1>5, <1>8
  <2>2. QED
    BY <1>7, <1>8, <1>10, <2>1, OnlyAdded
<1>12. Keeps(ft, ft')
  BY <1>8 DEF Keeps
<1>13. Len(ft) + 1 \in D /\ n \in D
  <2>1. q[0] = <<n>>
    BY QueuesAre DEF q
  <2>2. 0 \in 0..MaxTypes /\ MaxTypes \in 0..MaxTypes
    BY <1>3
  <2>3. Len(q[0]) <= Len(order)
    BY <1>2, <2>2, QueuesGrow DEF q, order
  <2>4. Len(order) >= 1
    BY <1>4, <2>1, <2>3
  <2>5. QED
    BY <1>2, <1>4, <2>4 DEF D
<1>14. copied' \in D \X D
  BY <1>1, <1>13
<1>15. QED
  BY <1>1, <1>7, <1>8, <1>11, <1>12, <1>14 DEF Leaves, Types

(***************************************************************************)
(* No type contains itself: the types have ranks, and each refers only to  *)
(* types of lower ranks.                                                   *)
(***************************************************************************)

IsRank(h, rank) ==
  /\ rank \in [DOMAIN h -> Nat]
  /\ \A n \in DOMAIN h : \A m \in Refs(h, n) : rank[m] < rank[n]

Ranked(h) == \E rank : IsRank(h, rank)

LEMMA BelowIs ==
  ASSUME NEW h, Formed(h), NEW n \in DOMAIN h
  PROVE  /\ n \in Below(h, n) /\ Below(h, n) \subseteq DOMAIN h
         /\ \A m \in Below(h, n) : Refs(h, m) \subseteq Below(h, n) /\ Below(h, m) \subseteq Below(h, n)
         /\ \A S \in SUBSET DOMAIN h :
              n \in S /\ (\A k \in S : Refs(h, k) \subseteq S) => Below(h, n) \subseteq S
<1> DEFINE next == [m \in DOMAIN h |-> Refs(h, m)]
<1>1. DOMAIN next = DOMAIN h /\ \A m \in DOMAIN h : next[m] = Refs(h, m)
  OBVIOUS
<1>2. \A m : Below(h, m) = Hull(next, m)
  BY DEF Below
<1>3. \A m \in DOMAIN h : Refs(h, m) \subseteq DOMAIN h
  BY DEF Formed
<1> HIDE DEF next
<1>4. n \in Hull(next, n) /\ Hull(next, n) \subseteq DOMAIN h
  BY <1>1, HullHas
<1>5. \A m \in Hull(next, n) : \A k \in Refs(h, m) : k \in Hull(next, n)
  BY <1>1, <1>3, <1>4, HullNext
<1>6. \A m \in Hull(next, n) : Hull(next, m) \subseteq Hull(next, n)
  BY HullFrom
<1>7. \A S \in SUBSET DOMAIN h :
        n \in S /\ (\A k \in S : Refs(h, k) \subseteq S) => Hull(next, n) \subseteq S
  BY <1>1, HullIn
<1>8. QED
  BY <1>2, <1>4, <1>5, <1>6, <1>7

\* The number of types below a type is a rank if no type is below itself.
LEMMA CountIsRank ==
  ASSUME NEW h, Formed(h), \A n \in DOMAIN h : \A m \in Refs(h, n) : n \notin Below(h, m)
  PROVE  Ranked(h)
<1> DEFINE rank == [n \in DOMAIN h |-> Cardinality(Below(h, n))]
<1>1. \A n \in DOMAIN h : IsFiniteSet(Below(h, n)) /\ Cardinality(Below(h, n)) \in Nat
  <2> SUFFICES ASSUME NEW n \in DOMAIN h
               PROVE  IsFiniteSet(Below(h, n)) /\ Cardinality(Below(h, n)) \in Nat
    OBVIOUS
  <2>1. Below(h, n) \subseteq 1..Len(h) /\ Len(h) \in Nat
    BY BelowIs, FormedTypes
  <2>2. IsFiniteSet(1..Len(h))
    BY <2>1, FS_Interval
  <2>3. QED
    BY <2>1, <2>2, FS_Subset, FS_CardinalityType
<1>2. ASSUME NEW n \in DOMAIN h, NEW m \in Refs(h, n) PROVE rank[m] < rank[n]
  <2>1. m \in DOMAIN h /\ n \notin Below(h, m)
    BY DEF Formed
  <2>2. n \in Below(h, n) /\ Below(h, m) \subseteq Below(h, n)
    BY <2>1, BelowIs
  <2>3. Cardinality(Below(h, m)) <= Cardinality(Below(h, n))
        /\ Cardinality(Below(h, m)) # Cardinality(Below(h, n))
    BY <1>1, <2>1, <2>2, FS_Subset
  <2>4. QED
    BY <1>1, <2>1, <2>3
<1>3. rank \in [DOMAIN h -> Nat]
  BY <1>1
<1>4. QED
  BY <1>2, <1>3 DEF Ranked, IsRank

LEMMA RankedHasNoLoops ==
  ASSUME NEW h, Formed(h), Ranked(h), NEW n \in DOMAIN h, NEW m \in Refs(h, n)
  PROVE  n \notin Below(h, m)
<1>1. PICK rank : IsRank(h, rank)
  BY DEF Ranked
<1> DEFINE S == {k \in DOMAIN h : rank[k] <= rank[m]}
<1>2. m \in DOMAIN h /\ \A k \in DOMAIN h : rank[k] \in Nat /\ Refs(h, k) \subseteq DOMAIN h
  BY <1>1 DEF Formed, IsRank
<1>3. m \in S /\ \A k \in S : Refs(h, k) \subseteq S
  BY <1>1, <1>2 DEF IsRank
<1>4. n \notin S
  BY <1>1, <1>2 DEF IsRank
<1>5. QED
  BY <1>2, <1>3, <1>4, BelowIs

\* Some number is above all ranks.
LEMMA RanksEnd ==
  ASSUME NEW h, Formed(h), NEW rank, IsRank(h, rank)
  PROVE  \E b \in Nat : \A n \in DOMAIN h : rank[n] < b
<1> DEFINE R == {rank[n] : n \in DOMAIN h} \cup {0}
<1>1. Len(h) \in Nat /\ DOMAIN h = 1..Len(h)
  BY FormedTypes
<1>2. rank \in Surjection(DOMAIN h, {rank[n] : n \in DOMAIN h})
  BY DEF Surjection, IsRank
<1>3. IsFiniteSet(DOMAIN h)
  BY <1>1, FS_Interval
<1>4. IsFiniteSet({rank[n] : n \in DOMAIN h})
  BY <1>2, <1>3, FS_Surjection
<1>5. IsFiniteSet(R)
  BY <1>4, FS_AddElement
<1>6. R \subseteq Nat /\ R # {} /\ \A n \in DOMAIN h : rank[n] \in R
  BY DEF IsRank
<1> HIDE DEF R
<1>7. Max(R) \in Nat /\ \A n \in DOMAIN h : rank[n] <= Max(R)
  BY <1>5, <1>6, HasMax
<1>8. Max(R) + 1 \in Nat /\ \A n \in DOMAIN h : rank[n] < Max(R) + 1
  BY <1>6, <1>7
<1>9. QED
  BY <1>8

LEMMA KeptRanks ==
  ASSUME NEW h, Ranked(h), NEW g, KeepsParts(h, g)
  PROVE  Ranked(g)
<1>1. \A m \in DOMAIN h : Refs(g, m) = Refs(h, m)
  BY DEF KeepsParts, Refs, KidsOf
<1>2. QED
  BY <1>1 DEF Ranked, IsRank, KeepsParts

LEMMA UpdateKeepsParts ==
  ASSUME Formed(ft), NEW n \in Types, NEW t, Update(n, t), t.kids = ft[n].kids, t.tag = ft[n].tag
  PROVE  KeepsParts(ft, ft')
<1>1. ft' = [ft EXCEPT ![n] = t] /\ Types = DOMAIN ft
  BY DEF Update, Types
<1>2. QED
  BY <1>1 DEF KeepsParts

\* A new type is above all there are.
LEMMA CreateRanked ==
  ASSUME Formed(ft), Ranked(ft), NEW t, Create(t), WellMade(t, Types)
  PROVE  Ranked(ft')
<1>1. PICK rank : IsRank(ft, rank)
  BY DEF Ranked
<1>2. PICK b \in Nat : \A n \in DOMAIN ft : rank[n] < b
  BY <1>1, RanksEnd
<1> DEFINE D == DOMAIN ft
           k == Len(ft) + 1
           above == [n \in D \cup {k} |-> IF n = k THEN b ELSE rank[n]]
<1>3. Len(ft) \in Nat /\ D = 1..Len(ft) /\ Types = D
  BY FormedTypes DEF Types
<1>4. k \notin D
  BY <1>3
<1>5. ft' = Append(ft, t) /\ ft \in Seq(FieldType) /\ t \in FieldType
  BY DEF Create, Formed, WellMade
<1>6. DOMAIN ft' = D \cup {k} /\ ft'[k] = t /\ \A n \in D : ft'[n] = ft[n]
  <2>1. DOMAIN ft' = 1..k /\ \A n \in 1..k : ft'[n] = IF n = k THEN t ELSE ft[n]
    BY <1>3, <1>5
  <2>2. 1..k = D \cup {k}
    BY <1>3
  <2>3. QED
    BY <1>4, <2>1, <2>2
<1>7. \A n \in D : Refs(ft', n) = Refs(ft, n) /\ Refs(ft, n) \subseteq D
  BY <1>6 DEF Refs, KidsOf, Formed
<1>8. Refs(ft', k) \subseteq D
  BY <1>3, <1>6 DEF Refs, KidsOf, WellMade
<1> HIDE DEF D, k
<1>9. above \in [D \cup {k} -> Nat]
  BY <1>1 DEF IsRank, D
<1>10. \A n \in D \cup {k} : \A m \in Refs(ft', n) : above[m] < above[n]
  <2>1. \A n \in D : \A m \in Refs(ft', n) : m \in D /\ rank[m] < rank[n]
    BY <1>1, <1>7 DEF IsRank, D
  <2>2. \A m \in Refs(ft', k) : m \in D /\ rank[m] < b
    BY <1>2, <1>8 DEF D
  <2>3. QED
    BY <1>4, <2>1, <2>2
<1>11. IsRank(ft', above)
  BY <1>6, <1>9, <1>10 DEF IsRank
<1>12. QED
  BY <1>11 DEF Ranked

LEMMA CreationRanked ==
  ASSUME Good(ft), Ranked(ft), Creation
  PROVE  Ranked(ft')
BY CreationMakes, CreateRanked DEF Good

\* A type that gets a member goes above it, and with it all that is above the type.
LEMMA AddRanked ==
  ASSUME NEW h, Formed(h), Ranked(h), NEW g, DOMAIN g = DOMAIN h,
         NEW n \in DOMAIN h, NEW m \in DOMAIN h, n \notin Below(h, m),
         \A k \in DOMAIN h : Refs(g, k) \subseteq Refs(h, k) \cup (IF k = n THEN {m} ELSE {})
  PROVE  Ranked(g)
<1>1. PICK rank : IsRank(h, rank)
  BY DEF Ranked
<1> DEFINE up == [k \in DOMAIN h |-> IF n \in Below(h, k) THEN rank[k] + rank[m] + 1 ELSE rank[k]]
<1>2. \A k \in DOMAIN h : rank[k] \in Nat /\ Refs(h, k) \subseteq DOMAIN h
  BY <1>1 DEF IsRank, Formed
<1>3. up \in [DOMAIN h -> Nat]
  BY <1>2
<1>4. ASSUME NEW k \in DOMAIN h, NEW j \in Refs(h, k) PROVE up[j] < up[k]
  <2>1. j \in DOMAIN h /\ rank[j] < rank[k]
    BY <1>1, <1>2 DEF IsRank
  <2>2. n \in Below(h, j) => n \in Below(h, k)
    BY <2>1, BelowIs
  <2>3. QED
    BY <1>2, <2>1, <2>2
<1>5. up[m] < up[n]
  <2>1. n \in Below(h, n)
    BY BelowIs
  <2>2. QED
    BY <1>2, <2>1
<1>6. ASSUME NEW k \in DOMAIN h, NEW j \in Refs(g, k) PROVE up[j] < up[k]
  BY <1>4, <1>5
<1>7. IsRank(g, up)
  BY <1>3, <1>6 DEF IsRank
<1>8. QED
  BY <1>7 DEF Ranked

LEMMA SettersKeepParts ==
  ASSUME Formed(ft), NEW n \in Types,
         \/ \E d \in Data : \/ SetIntegerData(n, d) \/ SetFloatData(n, d)
                            \/ SetStringEncoding(n, d) \/ SetTagName(n, d)
         \/ \E s \in BOOLEAN : SetSigned(n, s)
         \/ SetMappedClockClass(n)
         \/ \E s \in BOOLEAN, l \in Names, lo \in Values, hi \in Values : AddMapping(n, s, l, lo, hi)
         \/ \E a \in Alignments : SetAlignment(n, a)
  PROVE  KeepsParts(ft, ft')
<1>1. ft[n] \in FieldType
  BY FormedTypes DEF Types
<1>2. PICK t : Update(n, t) /\ t.kids = ft[n].kids /\ t.tag = ft[n].tag
  <2>1. CASE \E d \in Data : \/ SetIntegerData(n, d) \/ SetFloatData(n, d)
                             \/ SetStringEncoding(n, d) \/ SetTagName(n, d)
    <3>1. PICK d \in Data : Update(n, [ft[n] EXCEPT !.data = d])
      BY <2>1 DEF SetIntegerData, SetFloatData, SetStringEncoding, SetTagName
    <3>2. [ft[n] EXCEPT !.data = d].kids = ft[n].kids /\ [ft[n] EXCEPT !.data = d].tag = ft[n].tag
      BY <1>1 DEF FieldType
    <3>3. QED
      BY <3>1, <3>2
  <2>2. CASE \E s \in BOOLEAN : SetSigned(n, s)
    <3>1. PICK s \in BOOLEAN : Update(n, [ft[n] EXCEPT !.signed = s])
      BY <2>2 DEF SetSigned
    <3>2. [ft[n] EXCEPT !.signed = s].kids = ft[n].kids /\ [ft[n] EXCEPT !.signed = s].tag = ft[n].tag
      BY <1>1 DEF FieldType
    <3>3. QED
      BY <3>1, <3>2
  <2>3. CASE SetMappedClockClass(n)
    <3>1. Update(n, [ft[n] EXCEPT !.clock = TRUE])
      BY <2>3 DEF SetMappedClockClass
    <3>2. [ft[n] EXCEPT !.clock = TRUE].kids = ft[n].kids /\ [ft[n] EXCEPT !.clock = TRUE].tag = ft[n].tag
      BY <1>1 DEF FieldType
    <3>3. QED
      BY <3>1, <3>2
  <2>4. CASE \E s \in BOOLEAN, l \in Names, lo \in Values, hi \in Values : AddMapping(n, s, l, lo, hi)
    <3>1. PICK s \in BOOLEAN, l \in Names, lo \in Values, hi \in Values : AddMapping(n, s, l, lo, hi)
      BY <2>4
    <3> DEFINE all == Append(ft[n].maps, [label |-> l, lo |-> lo, hi |-> hi])
    <3>4. \E p \in Bijection(DOMAIN all, DOMAIN all) :
            Update(n, [ft[n] EXCEPT !.maps = [i \in DOMAIN all |-> all[p[i]]]])
      BY <3>1 DEF AddMapping
    <3>5. PICK p : Update(n, [ft[n] EXCEPT !.maps = [i \in DOMAIN all |-> all[p[i]]]])
      BY <3>4
    <3> DEFINE maps == [i \in DOMAIN all |-> all[p[i]]]
    <3>6. Update(n, [ft[n] EXCEPT !.maps = maps])
      BY <3>5
    <3> HIDE DEF maps
    <3>2. [ft[n] EXCEPT !.maps = maps].kids = ft[n].kids /\ [ft[n] EXCEPT !.maps = maps].tag = ft[n].tag
      BY <1>1 DEF FieldType
    <3>3. QED
      BY <3>6, <3>2
  <2>5. CASE \E a \in Alignments : SetAlignment(n, a)
    <3>1. PICK a \in Alignments : Update(n, [ft[n] EXCEPT !.align = a])
      BY <2>5 DEF SetAlignment
    <3>2. [ft[n] EXCEPT !.align = a].kids = ft[n].kids /\ [ft[n] EXCEPT !.align = a].tag = ft[n].tag
      BY <1>1 DEF FieldType
    <3>3. QED
      BY <3>1, <3>2
  <2>6. QED
    BY <2>1, <2>2, <2>3, <2>4, <2>5
<1>3. QED
  BY <1>2, UpdateKeepsParts

\* The calls that go through many types.
LEMMA OthersKeepParts ==
  ASSUME Formed(ft), NEW n \in Types,
         (\E o \in ByteOrders : SetByteOrder(n, o)) \/ GetAlignment(n) \/ Freeze(n) \/ Validate(n)
  PROVE  KeepsParts(ft, ft')
<1>1. \A m \in Types : ft[m] \in FieldType
  BY FormedTypes DEF Types
<1>2. ASSUME NEW o \in ByteOrders, SetByteOrder(n, o) PROVE KeepsParts(ft, ft')
  <2>1. PICK S : ft' = [m \in Types |-> IF m \in S /\ ~ft[m].frozen /\ ft[m].kind \in {"integer", "float"}
                                        THEN [ft[m] EXCEPT !.order = o] ELSE ft[m]]
    BY <1>2 DEF SetByteOrder
  <2>2. QED
    BY <1>1, <2>1 DEF KeepsParts, Types, FieldType
<1>3. CASE GetAlignment(n)
  <2>1. PICK S : ft' = [m \in Types |-> IF m \in S /\ ~ft[m].frozen /\ ft[m].kind = "struct"
                                        THEN [ft[m] EXCEPT !.align = AlignmentOf(ft, m)] ELSE ft[m]]
    BY <1>3 DEF GetAlignment
  <2>2. QED
    BY <1>1, <2>1 DEF KeepsParts, Types, FieldType
<1>4. CASE Freeze(n)
  <2>1. \A m \in Types : FrozenForm(ft, m).kids = ft[m].kids /\ FrozenForm(ft, m).tag = ft[m].tag
    BY <1>1 DEF FrozenForm, FieldType
  <2>2. PICK S : ft' = [m \in Types |-> IF m \in S /\ ~ft[m].frozen THEN FrozenForm(ft, m) ELSE ft[m]]
    BY <1>4 DEF Freeze
  <2>3. QED
    BY <2>1, <2>2 DEF KeepsParts, Types
<1>5. CASE Validate(n)
  <2> DEFINE visited == Hull([m \in Types |-> Visits(ft, m)], n)
             asked == {ft[m].tag : m \in {k \in visited : ft[k].kind = "variant" /\ ~ft[k].valid}}
             V(m) == ft[m].valid \/ (m \in visited /\ ft[m].frozen /\ IsValid(ft, m))
             O(m) == ft[m].overlap \/ (m \in asked /\ HasOverlap(ft, m))
  <2>1. ft' = [m \in Types |-> [ft[m] EXCEPT !.valid = V(m), !.overlap = O(m)]]
    BY <1>5 DEF Validate
  <2> HIDE DEF V, O
  <2>2. \A m \in Types : /\ [ft[m] EXCEPT !.valid = V(m), !.overlap = O(m)].kids = ft[m].kids
                         /\ [ft[m] EXCEPT !.valid = V(m), !.overlap = O(m)].tag = ft[m].tag
    BY <1>1 DEF FieldType
  <2>3. QED
    BY <2>1, <2>2 DEF KeepsParts, Types
<1>6. QED
  BY <1>2, <1>3, <1>4, <1>5

LEMMA MembersRanked ==
  ASSUME Formed(ft), Ranked(ft), NEW n \in Types, NEW name \in Names, NEW m \in Types,
         AddField(n, name, m) \/ AddChoice(n, name, m)
  PROVE  Ranked(ft')
<1>1. PICK u : /\ AddMember(n, name, m, u) /\ u.kids = ft[n].kids /\ u.tag = ft[n].tag
               /\ u \in [DOMAIN ft[n] -> {u[f] : f \in DOMAIN ft[n]}] /\ "kids" \in DOMAIN ft[n]
               /\ "tag" \in DOMAIN ft[n]
  <2>1. ft[n] \in FieldType
    BY FormedTypes DEF Types
  <2>2. CASE AddField(n, name, m)
    BY <2>1, <2>2 DEF AddField, FieldType
  <2>3. CASE AddChoice(n, name, m)
    <3> DEFINE u == [ft[n] EXCEPT !.ranges = Append(@, {})]
    <3>1. AddMember(n, name, m, u)
      BY <2>3 DEF AddChoice
    <3>2. u.kids = ft[n].kids /\ u.tag = ft[n].tag /\ DOMAIN u = DOMAIN ft[n] /\ u = [f \in DOMAIN ft[n] |-> u[f]]
      BY <2>1 DEF FieldType
    <3>3. "kids" \in DOMAIN ft[n] /\ "tag" \in DOMAIN ft[n]
      BY <2>1 DEF FieldType
    <3> HIDE DEF u
    <3>4. QED
      BY <3>1, <3>2, <3>3
  <2>4. QED
    BY <2>2, <2>3
<1> DEFINE kids == Append(u.kids, [name |-> name, type |-> m])
           t == [u EXCEPT !.kids = kids]
<1>2. Update(n, t) /\ n \notin Below(ft, m)
  BY <1>1 DEF AddMember
<1>3. t.kids = kids /\ t.tag = ft[n].tag
  <2> HIDE DEF kids
  <2> QED
    BY <1>1
<1>4. \A i \in DOMAIN kids : (i \in DOMAIN ft[n].kids /\ kids[i] = ft[n].kids[i]) \/ kids[i].type = m
  <2>1. ft[n].kids \in Seq(Member) /\ m \in Nat
    BY FormedTypes, OneType DEF Types
  <2> DEFINE k == [name |-> name, type |-> m]
  <2>2. k \in Member /\ k.type = m
    BY <2>1 DEF Member
  <2> HIDE DEF k
  <2>3. \A i \in DOMAIN Append(ft[n].kids, k) :
          (i \in DOMAIN ft[n].kids /\ Append(ft[n].kids, k)[i] = ft[n].kids[i]) \/ Append(ft[n].kids, k)[i] = k
    BY <2>1, <2>2
  <2>4. QED
    BY <1>1, <2>2, <2>3 DEF k
<1> HIDE DEF kids, t
<1>5. DOMAIN ft' = DOMAIN ft /\ ft'[n] = t /\ \A k \in DOMAIN ft : k # n => ft'[k] = ft[k]
  BY <1>2 DEF Update, Types
<1>6. \A k \in DOMAIN ft : Refs(ft', k) \subseteq Refs(ft, k) \cup (IF k = n THEN {m} ELSE {})
  <2>1. Refs(ft', n) \subseteq Refs(ft, n) \cup {m}
    BY <1>3, <1>4, <1>5 DEF Refs, KidsOf
  <2>2. \A k \in DOMAIN ft : k # n => Refs(ft', k) = Refs(ft, k)
    BY <1>5 DEF Refs, KidsOf
  <2>3. QED
    BY <2>1, <2>2
<1>7. QED
  BY <1>2, <1>5, <1>6, AddRanked DEF Types

(***************************************************************************)
(* A type and its copy.                                                    *)
(***************************************************************************)

\* What a frozen type was given has the alignment that it keeps.
LEMMA SettledAligns ==
  ASSUME NEW h, Formed(h), FrozenDown(h), NEW n \in DOMAIN h, h[n].frozen, NEW m \in Settled(h, n)
  PROVE  m \in DOMAIN h /\ AlignmentOf(h, m) = h[m].align
<1>1. m \in DOMAIN h /\ h[m].frozen
  BY FormedTypes, SettledIs DEF FrozenDown
<1>2. QED
  BY <1>1, AlignOfOne

\* The alignment of a type is no more than it is made of,
LEMMA AlignAtMost ==
  ASSUME NEW h, Formed(h), NEW n \in DOMAIN h, NEW b \in Nat, h[n].align <= b,
         \A m \in AlignsWith(h, n) : AlignmentOf(h, m) <= b
  PROVE  AlignmentOf(h, n) <= b
<1>1. AlignReach(h, n) = {n} \cup UNION {AlignReach(h, k) : k \in AlignsWith(h, n)}
      /\ \A k \in AlignsWith(h, n) : k \in DOMAIN h
  BY AlignReaches
<1>2. \A a \in AlignsOf(h, n) : a = 0 \/ a = h[n].align \/ \E k \in AlignsWith(h, n) : a \in AlignsOf(h, k)
  BY <1>1 DEF AlignsOf
<1>3. \A k \in AlignsWith(h, n) : \A a \in AlignsOf(h, k) : a <= AlignmentOf(h, k) /\ AlignmentOf(h, k) \in Nat
  BY <1>1, AlignIsMax
<1>4. AlignmentOf(h, n) \in AlignsOf(h, n) /\ AlignmentOf(h, n) \in Nat
  BY AlignIsMax
<1>5. CASE \E k \in AlignsWith(h, n) : AlignmentOf(h, n) \in AlignsOf(h, k)
  <2>1. PICK k \in AlignsWith(h, n) : AlignmentOf(h, n) \in AlignsOf(h, k)
    BY <1>5
  <2>2. AlignmentOf(h, n) <= AlignmentOf(h, k) /\ AlignmentOf(h, k) <= b /\ AlignmentOf(h, k) \in Nat
    BY <1>3, <2>1
  <2>3. QED
    BY <1>4, <2>2
<1>6. QED
  BY <1>2, <1>4, <1>5

\* that of a structure that is not frozen at least that of its fields, and that
\* of an array that of its element, frozen or not.
LEMMA AlignOfKids ==
  ASSUME NEW h, Good(h), NEW n \in DOMAIN h, NEW m \in KidsOf(h, n)
  PROVE  /\ m \in DOMAIN h /\ AlignmentOf(h, m) \in Nat /\ AlignmentOf(h, n) \in Nat
         /\ h[n].kind = "struct" /\ ~h[n].frozen => AlignmentOf(h, m) <= AlignmentOf(h, n)
         /\ h[n].kind \in {"array", "sequence"} => AlignmentOf(h, m) = AlignmentOf(h, n)
<1>1. Formed(h) /\ FrozenDown(h) /\ Cached(h)
  BY DEF Good
<1>2. m \in DOMAIN h /\ AlignmentOf(h, m) \in Nat /\ AlignmentOf(h, n) \in Nat
  BY <1>1, FormedTypes, AlignIsMax
<1>3. CASE h[n].frozen
  <2>1. AlignmentOf(h, n) = h[n].align
    BY <1>1, <1>3, AlignOfOne
  <2>2. ASSUME h[n].kind \in {"array", "sequence"} PROVE AlignmentOf(h, m) = AlignmentOf(h, n)
    <3>1. m \in Settled(h, n)
      BY <2>2, SettledIs
    <3>2. AlignmentOf(h, m) = h[m].align
      BY <1>1, <1>3, <3>1, SettledAligns
    <3>3. QED
      BY <1>1, <1>3, <2>1, <2>2, <3>2 DEF Cached
  <2>3. QED
    BY <1>2, <1>3, <2>2
<1>4. CASE ~h[n].frozen
  <2>1. h[n].kind = "struct" => AlignmentOf(h, m) <= AlignmentOf(h, n)
    BY <1>1, <1>4, AlignCovers DEF AlignsWith
  <2>2. h[n].kind \in {"array", "sequence"} => AlignmentOf(h, m) = AlignmentOf(h, n)
    BY <1>1, <1>4, AlignOfElement
  <2>3. QED
    BY <1>2, <2>1, <2>2
<1>5. QED
  BY <1>3, <1>4

LEMMA AlignAtLeast ==
  ASSUME NEW h, Formed(h), NEW n \in DOMAIN h, h[n].kind = "struct"
  PROVE  h[n].align <= AlignmentOf(h, n) /\ h[n].align \in Nat
<1>1. n \in AlignReach(h, n)
  BY AlignReaches
<1>2. h[n].align \in AlignsOf(h, n)
  BY <1>1 DEF AlignsOf
<1>3. QED
  BY <1>2, AlignIsMax, FormedTypes, OneType

\* Pairs of a type and one that is like it, whose members are pairs again.
Twin(g, P, a, c) ==
  /\ a \in DOMAIN g /\ c \in DOMAIN g /\ ~g[c].frozen
  /\ \A f \in {"kind", "data", "order", "signed", "clock", "maps", "align"} : g[a][f] = g[c][f]
  /\ SameKids(g, a, c)
  /\ \A i \in DOMAIN g[a].kids : <<g[a].kids[i].type, g[c].kids[i].type>> \in P
  /\ (g[a].tag = None) <=> (g[c].tag = None)
  /\ g[a].tag # None => <<g[a].tag, g[c].tag>> \in P

Twins(g, P) == \A p \in P : Twin(g, P, p[1], p[2])

LEMMA TwinsAreAlike ==
  ASSUME NEW g, Formed(g), NEW P, Twins(g, P), NEW p \in P
  PROVE  /\ p[1] \in DOMAIN g /\ p[2] \in DOMAIN g /\ ~g[p[2]].frozen
         /\ g[p[1]].kind = g[p[2]].kind /\ g[p[1]].align = g[p[2]].align
         /\ DOMAIN g[p[1]].kids = DOMAIN g[p[2]].kids
<1>1. /\ p[1] \in DOMAIN g /\ p[2] \in DOMAIN g /\ ~g[p[2]].frozen
      /\ \A f \in {"kind", "data", "order", "signed", "clock", "maps", "align"} : g[p[1]][f] = g[p[2]][f]
      /\ Len(g[p[1]].kids) = Len(g[p[2]].kids)
  BY DEF Twins, Twin, SameKids
<1>2. g[p[1]].kids \in Seq(Member) /\ g[p[2]].kids \in Seq(Member)
  BY <1>1, FormedTypes, OneType
<1>3. DOMAIN g[p[1]].kids = DOMAIN g[p[2]].kids
  BY <1>1, <1>2
<1>4. QED
  BY <1>1, <1>3

\* The alignment of a structure covers its fields.
Covered(h, m) ==
  h[m].kind = "struct" => \A k \in KidsOf(h, m) : AlignmentOf(h, k) <= AlignmentOf(h, m)

LEMMA TwinAligns ==
  ASSUME NEW g, Good(g), NEW P, Twins(g, P), NEW p \in P, Covered(g, p[1]),
         \A i \in DOMAIN g[p[1]].kids :
           AlignmentOf(g, g[p[1]].kids[i].type) = AlignmentOf(g, g[p[2]].kids[i].type)
  PROVE  AlignmentOf(g, p[1]) = AlignmentOf(g, p[2])
<1> DEFINE a == p[1]
           c == p[2]
<1>1. /\ a \in DOMAIN g /\ c \in DOMAIN g /\ ~g[c].frozen
      /\ g[a].kind = g[c].kind /\ g[a].align = g[c].align
      /\ DOMAIN g[a].kids = DOMAIN g[c].kids
  BY TwinsAreAlike DEF Good
<1>2. Formed(g) /\ AlignmentOf(g, a) \in Nat /\ AlignmentOf(g, c) \in Nat
  BY <1>1, AlignIsMax DEF Good
<1>3. \A i \in DOMAIN g[a].kids : AlignmentOf(g, g[a].kids[i].type) = AlignmentOf(g, g[c].kids[i].type)
  OBVIOUS
<1> SUFFICES AlignmentOf(g, a) = AlignmentOf(g, c)
  OBVIOUS
<1> HIDE DEF a, c
<1>4. CASE g[a].kind \notin {"struct", "array", "sequence"}
  BY <1>1, <1>2, <1>4, AlignOfOne
<1>5. CASE g[a].kind \in {"array", "sequence"}
  <2>1. g[a].kids \in Seq(Member) /\ Len(g[a].kids) = 1
    BY <1>1, <1>2, <1>5, FormedTypes, OneType DEF Formed
  <2>2. 1 \in DOMAIN g[a].kids
    BY <2>1
  <2>3. g[a].kids[1].type \in KidsOf(g, a) /\ g[c].kids[1].type \in KidsOf(g, c)
    BY <1>1, <2>2 DEF KidsOf
  <2>4. AlignmentOf(g, g[a].kids[1].type) = AlignmentOf(g, a)
    BY <1>1, <1>5, <2>3, AlignOfKids
  <2>5. AlignmentOf(g, g[c].kids[1].type) = AlignmentOf(g, c)
    BY <1>1, <1>5, <2>3, AlignOfKids
  <2>6. QED
    BY <1>3, <2>2, <2>4, <2>5
<1>6. CASE g[a].kind = "struct"
  <2>1. g[a].align <= AlignmentOf(g, a) /\ g[c].align <= AlignmentOf(g, c)
    BY <1>1, <1>2, <1>6, AlignAtLeast
  <2>2. \A m \in KidsOf(g, c) : AlignmentOf(g, m) <= AlignmentOf(g, a)
    <3> SUFFICES ASSUME NEW i \in DOMAIN g[c].kids
                 PROVE  AlignmentOf(g, g[c].kids[i].type) <= AlignmentOf(g, a)
      BY DEF KidsOf
    <3>1. g[a].kids[i].type \in KidsOf(g, a)
      BY <1>1 DEF KidsOf
    <3>2. AlignmentOf(g, g[a].kids[i].type) <= AlignmentOf(g, a)
      BY <1>6, <3>1 DEF Covered, a
    <3>3. QED
      BY <1>1, <1>3, <3>2
  <2>3. \A m \in KidsOf(g, a) : AlignmentOf(g, m) <= AlignmentOf(g, c)
    <3> SUFFICES ASSUME NEW i \in DOMAIN g[a].kids
                 PROVE  AlignmentOf(g, g[a].kids[i].type) <= AlignmentOf(g, c)
      BY DEF KidsOf
    <3>1. g[c].kids[i].type \in KidsOf(g, c)
      BY <1>1 DEF KidsOf
    <3>2. AlignmentOf(g, g[c].kids[i].type) <= AlignmentOf(g, c)
      BY <1>1, <1>6, <3>1, AlignOfKids
    <3>3. QED
      BY <1>3, <3>2
  <2>4. AlignmentOf(g, c) <= AlignmentOf(g, a)
    BY <1>1, <1>2, <2>1, <2>2, AlignAtMost DEF AlignsWith
  <2>5. AlignmentOf(g, a) <= AlignmentOf(g, c)
    <3>1. \A m \in AlignsWith(g, a) : AlignmentOf(g, m) <= AlignmentOf(g, c)
      BY <2>3 DEF AlignsWith
    <3>2. QED
      BY <1>1, <1>2, <2>1, <3>1, AlignAtMost
  <2>6. QED
    BY <1>2, <2>4, <2>5
<1>7. QED
  BY <1>4, <1>5, <1>6

LEMMA TwinsAlign ==
  ASSUME NEW g, Good(g), NEW rank, IsRank(g, rank), NEW P, Twins(g, P), NEW p \in P,
         \A t \in P : Covered(g, t[1])
  PROVE  AlignmentOf(g, p[1]) = AlignmentOf(g, p[2])
<1> DEFINE Same(t) == AlignmentOf(g, t[1]) = AlignmentOf(g, t[2])
           S == {r \in Nat : \A t \in P : rank[t[1]] < r => Same(t)}
<1>1. Formed(g) /\ \A t \in P : t[1] \in DOMAIN g /\ rank[t[1]] \in Nat
  BY DEF Good, IsRank, Twins, Twin
<1>2. 0 \in S
  BY <1>1
<1>3. ASSUME NEW r \in Nat, r \in S PROVE r + 1 \in S
  <2> SUFFICES ASSUME NEW t \in P, rank[t[1]] < r + 1 PROVE Same(t)
    OBVIOUS
  <2>1. ASSUME NEW i \in DOMAIN g[t[1]].kids
        PROVE  AlignmentOf(g, g[t[1]].kids[i].type) = AlignmentOf(g, g[t[2]].kids[i].type)
    <3> DEFINE k == <<g[t[1]].kids[i].type, g[t[2]].kids[i].type>>
    <3>1. k \in P
      BY DEF Twins, Twin
    <3>2. k[1] \in Refs(g, t[1])
      BY DEF Refs, KidsOf
    <3>3. rank[k[1]] < rank[t[1]]
      BY <1>1, <3>2 DEF IsRank
    <3>4. rank[k[1]] < r
      BY <1>1, <3>1, <3>3
    <3>5. Same(k)
      BY <1>3, <3>1, <3>4
    <3>6. QED
      BY <3>5
  <2>2. QED
    BY <2>1, TwinAligns
<1>4. Nat \subseteq S
  <2> HIDE DEF S
  <2> QED
    BY <1>2, <1>3, SetInduction
<1>5. rank[p[1]] + 1 \in S /\ rank[p[1]] < rank[p[1]] + 1
  BY <1>1, <1>4
<1>6. QED
  BY <1>5

\* The comparison of a pair, given that of the pairs of members.
Compares(h, eq, p) ==
  \/ p[1] = p[2]
  \/ /\ SameNode(h, p[1], p[2]) /\ SameKids(h, p[1], p[2])
     /\ \A i \in DOMAIN h[p[1]].kids : eq[<<h[p[1]].kids[i].type, h[p[2]].kids[i].type>>]
     /\ h[p[1]].tag # None => eq[<<h[p[1]].tag, h[p[2]].tag>>]

PairsOf(h) == (DOMAIN h) \X (DOMAIN h)

\* It depends on the pairs of members only, which have lower ranks.
LEMMA ComparesMembers ==
  ASSUME NEW h, Formed(h), NEW rank, IsRank(h, rank), NEW p \in PairsOf(h), NEW f, NEW g,
         \A t \in PairsOf(h) : rank[t[1]] < rank[p[1]] => f[t] = g[t]
  PROVE  Compares(h, f, p) = Compares(h, g, p)
<1> DEFINE a == p[1]
           b == p[2]
<1>1. a \in DOMAIN h /\ b \in DOMAIN h
  BY DEF PairsOf
<1>2. h[a].kids \in Seq(Member) /\ h[b].kids \in Seq(Member)
  BY <1>1, FormedTypes, OneType
<1>3. ASSUME SameNode(h, a, b), SameKids(h, a, b)
      PROVE  /\ \A i \in DOMAIN h[a].kids : f[<<h[a].kids[i].type, h[b].kids[i].type>>]
                                              = g[<<h[a].kids[i].type, h[b].kids[i].type>>]
             /\ h[a].tag # None => f[<<h[a].tag, h[b].tag>>] = g[<<h[a].tag, h[b].tag>>]
  <2>1. DOMAIN h[a].kids = DOMAIN h[b].kids
    BY <1>2, <1>3 DEF SameKids
  <2>2. h[a].tag = None <=> h[b].tag = None
    BY <1>3 DEF SameNode
  <2>3. \A x \in Refs(h, a), y \in Refs(h, b) : f[<<x, y>>] = g[<<x, y>>]
    <3> SUFFICES ASSUME NEW x \in Refs(h, a), NEW y \in Refs(h, b) PROVE f[<<x, y>>] = g[<<x, y>>]
      OBVIOUS
    <3>1. x \in DOMAIN h /\ y \in DOMAIN h /\ rank[x] < rank[a]
      BY <1>1 DEF Formed, IsRank
    <3> DEFINE t == <<x, y>>
    <3>2. t \in PairsOf(h) /\ t[1] = x
      BY <3>1 DEF PairsOf
    <3> HIDE DEF t
    <3>3. f[t] = g[t]
      BY <3>1, <3>2
    <3>4. QED
      BY <3>3 DEF t
  <2>4. \A i \in DOMAIN h[a].kids : h[a].kids[i].type \in Refs(h, a) /\ h[b].kids[i].type \in Refs(h, b)
    BY <2>1 DEF Refs, KidsOf
  <2>5. h[a].tag # None => h[a].tag \in Refs(h, a) /\ h[b].tag \in Refs(h, b)
    BY <2>2 DEF Refs
  <2> HIDE DEF a, b
  <2>6. QED
    BY <2>3, <2>4, <2>5
<1>4. QED
  BY <1>3 DEF Compares

\* The comparison is what its recursive definition says.
LEMMA EqualIs ==
  ASSUME NEW h, Formed(h), Ranked(h)
  PROVE  \E eq : /\ eq = [p \in PairsOf(h) |-> Compares(h, eq, p)]
                 /\ \A a, b : Equal(h, a, b) = eq[<<a, b>>]
<1>1. PICK rank : IsRank(h, rank)
  BY DEF Ranked
<1>2. PICK b \in Nat : \A n \in DOMAIN h : rank[n] < b
  BY <1>1, RanksEnd
<1> DEFINE r(p) == rank[p[1]]
           S == {k \in Nat : \E f : \A p \in PairsOf(h) : r(p) < k => f[p] = Compares(h, f, p)}
<1>3. \A p \in PairsOf(h) : r(p) \in Nat /\ r(p) < b
  BY <1>1, <1>2 DEF PairsOf, IsRank
<1>4. 0 \in S
  BY <1>3
<1>5. ASSUME NEW k \in Nat, k \in S PROVE k + 1 \in S
  <2>1. PICK f : \A p \in PairsOf(h) : r(p) < k => f[p] = Compares(h, f, p)
    BY <1>5
  <2> DEFINE g == [p \in PairsOf(h) |-> IF r(p) < k THEN f[p] ELSE Compares(h, f, p)]
  <2>2. \A p \in PairsOf(h) : r(p) < k => g[p] = f[p]
    OBVIOUS
  <2>3. \A p \in PairsOf(h) : ~(r(p) < k) => g[p] = Compares(h, f, p)
    OBVIOUS
  <2> HIDE DEF g
  <2>4. ASSUME NEW p \in PairsOf(h), r(p) < k + 1 PROVE g[p] = Compares(h, g, p)
    <3>1. \A t \in PairsOf(h) : rank[t[1]] < rank[p[1]] => f[t] = g[t]
      <4>1. \A t \in PairsOf(h) : r(t) < r(p) => r(t) < k
        BY <1>3, <2>4
      <4>2. QED
        BY <2>2, <4>1
    <3>2. Compares(h, f, p) = Compares(h, g, p)
      BY <1>1, <3>1, ComparesMembers
    <3>3. g[p] = Compares(h, f, p)
      BY <2>1, <2>2, <2>3
    <3>4. QED
      BY <3>2, <3>3
  <2>5. QED
    BY <2>4
<1>6. Nat \subseteq S
  <2> HIDE DEF S
  <2> QED
    BY <1>4, <1>5, SetInduction
<1>7. PICK f : \A p \in PairsOf(h) : f[p] = Compares(h, f, p)
  BY <1>3, <1>6
<1> DEFINE Is(eq) == eq = [p \in PairsOf(h) |-> Compares(h, eq, p)]
           g == [p \in PairsOf(h) |-> f[p]]
<1>8. Is(g)
  <2>1. \A p \in PairsOf(h) : g[p] = f[p]
    OBVIOUS
  <2>2. g = [p \in PairsOf(h) |-> Compares(h, f, p)]
    BY <1>7
  <2> HIDE DEF g
  <2>3. \A p \in PairsOf(h) : Compares(h, f, p) = Compares(h, g, p)
    BY <1>1, <2>1, ComparesMembers
  <2>4. QED
    BY <2>2, <2>3
<1> HIDE DEF g
<1>9. \E eq : Is(eq)
  BY <1>8
<1>10. \A x, y : Equal(h, x, y) = (CHOOSE eq : Is(eq))[<<x, y>>]
  BY DEF Equal, Compares, PairsOf
<1>11. Is(CHOOSE eq : Is(eq))
  <2> HIDE DEF Is
  <2> QED
    BY <1>9
<1>12. QED
  BY <1>10, <1>11

\* Twins compare equal.
LEMMA TwinsCompare ==
  ASSUME NEW g, Good(g), Ranked(g), NEW P, P \subseteq PairsOf(g), Twins(g, P), NEW x, NEW y, <<x, y>> \in P,
         \A t \in P : Covered(g, t[1])
  PROVE  Equal(g, x, y)
<1>1. PICK rank : IsRank(g, rank)
  BY DEF Ranked
<1>2. Formed(g)
  BY DEF Good
<1>3. PICK eq : /\ eq = [p \in PairsOf(g) |-> Compares(g, eq, p)]
                /\ \A a, b : Equal(g, a, b) = eq[<<a, b>>]
  BY <1>2, EqualIs
<1>4. \A p \in PairsOf(g) : eq[p] = Compares(g, eq, p)
  BY <1>3
<1> DEFINE S == {r \in Nat : \A p \in P : rank[p[1]] < r => eq[p]}
<1>5. \A p \in P : p[1] \in DOMAIN g /\ p[2] \in DOMAIN g /\ rank[p[1]] \in Nat /\ p = <<p[1], p[2]>>
  BY <1>1 DEF IsRank, PairsOf
<1>6. 0 \in S
  BY <1>5
<1>7. ASSUME NEW r \in Nat, r \in S PROVE r + 1 \in S
  <2> SUFFICES ASSUME NEW p \in P, rank[p[1]] < r + 1 PROVE eq[p]
    OBVIOUS
  <2>1. SameNode(g, p[1], p[2]) /\ SameKids(g, p[1], p[2])
    <3>1. AlignmentOf(g, p[1]) = AlignmentOf(g, p[2])
      BY <1>1, TwinsAlign
    <3>2. \A f \in {"kind", "data", "order", "signed", "clock", "maps", "align"} : g[p[1]][f] = g[p[2]][f]
      BY DEF Twins, Twin
    <3>3. SameKids(g, p[1], p[2])
      BY DEF Twins, Twin
    <3>4. (g[p[1]].tag = None) <=> (g[p[2]].tag = None)
      BY DEF Twins, Twin
    <3>5. \A f \in {"kind", "data", "order", "signed", "clock", "maps"} : g[p[1]][f] = g[p[2]][f]
      BY <3>2
    <3>6. QED
      BY <3>1, <3>3, <3>4, <3>5 DEF SameNode
  <2>2. \A m \in Refs(g, p[1]) : rank[m] < r
    <3>1. \A m \in Refs(g, p[1]) : rank[m] < rank[p[1]] /\ rank[m] \in Nat
      BY <1>1, <1>2, <1>5 DEF IsRank, Formed
    <3>2. QED
      BY <1>5, <3>1
  <2>3. \A i \in DOMAIN g[p[1]].kids : eq[<<g[p[1]].kids[i].type, g[p[2]].kids[i].type>>]
    <3> SUFFICES ASSUME NEW i \in DOMAIN g[p[1]].kids
                 PROVE  eq[<<g[p[1]].kids[i].type, g[p[2]].kids[i].type>>]
      OBVIOUS
    <3> DEFINE k == <<g[p[1]].kids[i].type, g[p[2]].kids[i].type>>
    <3>1. k \in P /\ k[1] \in Refs(g, p[1])
      BY DEF Twins, Twin, Refs, KidsOf
    <3> HIDE DEF k
    <3>2. eq[k]
      BY <1>7, <2>2, <3>1
    <3>3. QED
      BY <3>2 DEF k
  <2>4. g[p[1]].tag # None => eq[<<g[p[1]].tag, g[p[2]].tag>>]
    <3> SUFFICES ASSUME g[p[1]].tag # None PROVE eq[<<g[p[1]].tag, g[p[2]].tag>>]
      OBVIOUS
    <3> DEFINE k == <<g[p[1]].tag, g[p[2]].tag>>
    <3>1. k \in P /\ k[1] \in Refs(g, p[1])
      BY DEF Twins, Twin, Refs
    <3> HIDE DEF k
    <3>2. eq[k]
      BY <1>7, <2>2, <3>1
    <3>3. QED
      BY <3>2 DEF k
  <2>5. Compares(g, eq, p)
    BY <2>1, <2>3, <2>4 DEF Compares
  <2>6. QED
    BY <1>4, <2>5
<1>8. Nat \subseteq S
  <2> HIDE DEF S
  <2> QED
    BY <1>6, <1>7, SetInduction
<1> DEFINE p == <<x, y>>
<1>9. p \in P /\ rank[p[1]] \in Nat
  BY <1>5
<1> HIDE DEF p
<1>10. rank[p[1]] + 1 \in S /\ rank[p[1]] < rank[p[1]] + 1
  BY <1>8, <1>9
<1>11. eq[p]
  BY <1>9, <1>10
<1>12. QED
  BY <1>3, <1>11 DEF p

\* What a copy of a type keeps.
LEMMA CopyIs ==
  ASSUME NEW h, NEW m, h[m] \in FieldType, NEW end
  PROVE  LET t == CopyOf(h, m, end)
             tags == IF h[m].tag = None THEN 0 ELSE 1
         IN /\ ~t.frozen
            /\ \A f \in {"kind", "data", "order", "signed", "clock", "maps", "align"} : h[m][f] = t[f]
            /\ t.kids = [i \in DOMAIN h[m].kids |->
                           [name |-> h[m].kids[i].name, type |-> end + tags + i]]
            /\ t.tag = IF h[m].tag = None THEN None ELSE end + 1
<1> DEFINE tags == IF h[m].tag = None THEN 0 ELSE 1
           kids == [i \in DOMAIN h[m].kids |->
                      [name |-> h[m].kids[i].name, type |-> end + tags + i]]
           tag == IF h[m].tag = None THEN None ELSE end + 1
           lender == IF \E i \in DOMAIN h[m].ranges : h[m].ranges[i] # {} THEN Home(h, m) ELSE None
           t == CopyOf(h, m, end)
<1>1. t = [h[m] EXCEPT !.frozen = FALSE, !.valid = FALSE, !.overlap = FALSE,
                       !.tag = tag, !.kids = kids, !.lender = lender]
  BY DEF CopyOf
<1> HIDE DEF kids, tag, lender, t
<1>2. /\ ~t.frozen /\ t.kids = kids /\ t.tag = tag
      /\ h[m].kind = t.kind /\ h[m].data = t.data /\ h[m].order = t.order /\ h[m].signed = t.signed
      /\ h[m].clock = t.clock /\ h[m].maps = t.maps /\ h[m].align = t.align
  BY <1>1 DEF FieldType
<1>3. \A f \in {"kind", "data", "order", "signed", "clock", "maps", "align"} : h[m][f] = t[f]
  BY <1>2
<1>4. QED
  BY <1>2, <1>3 DEF t, kids, tag

\* Where the parts are: the tag first.
LEMMA PartsAt ==
  ASSUME NEW h, Formed(h), NEW m \in DOMAIN h
  PROVE  LET tags == IF h[m].tag = None THEN 0 ELSE 1
         IN /\ h[m].tag # None => Parts(h, m)[1] = h[m].tag
            /\ \A j \in DOMAIN h[m].kids : Parts(h, m)[tags + j] = h[m].kids[j].type
<1> DEFINE first == IF h[m].tag = None THEN <<>> ELSE <<h[m].tag>>
           rest == [i \in DOMAIN h[m].kids |-> h[m].kids[i].type]
<1>1. WellMade(h[m], DOMAIN h)
  BY FormedIsWellMade
<1>2. Len(h[m].kids) \in Nat /\ DOMAIN h[m].kids = 1..Len(h[m].kids)
  BY <1>1, OneType DEF WellMade
<1>3. /\ rest \in Seq(DOMAIN h) /\ Len(rest) = Len(h[m].kids)
      /\ \A j \in DOMAIN h[m].kids : rest[j] = h[m].kids[j].type
  <2>1. rest \in [1..Len(h[m].kids) -> DOMAIN h]
    BY <1>1, <1>2 DEF WellMade
  <2>2. \A j \in DOMAIN h[m].kids : rest[j] = h[m].kids[j].type
    OBVIOUS
  <2> HIDE DEF rest
  <2>3. QED
    BY <1>2, <2>1, <2>2, SeqDef
<1>4. Parts(h, m) = first \o rest
  BY DEF Parts
<1>5. CASE h[m].tag = None
  <2>1. first = <<>>
    BY <1>5
  <2> HIDE DEF first, rest
  <2>2. first \o rest = rest
    BY <1>3, <2>1
  <2>3. \A j \in DOMAIN h[m].kids : 0 + j = j
    BY <1>2
  <2>4. QED
    BY <1>3, <1>4, <1>5, <2>2, <2>3
<1>6. CASE h[m].tag # None
  <2>1. first = <<h[m].tag>> /\ h[m].tag \in DOMAIN h
    BY <1>1, <1>6 DEF WellMade
  <2> HIDE DEF first, rest
  <2>2. first \in Seq(DOMAIN h) /\ Len(first) = 1 /\ first[1] = h[m].tag
    BY <2>1
  <2> DEFINE all == first \o rest
  <2>3. all = first \o rest
    OBVIOUS
  <2> HIDE DEF all
  <2>4. Len(first) <= Len(all) /\ \A x \in 1..Len(first) : all[x] = first[x]
    BY <1>3, <2>2, <2>3, ConcatBegins
  <2>5. first \in Seq(DOMAIN h) /\ rest \in Seq(DOMAIN h)
    BY <1>3, <2>2
  <2>6. Len(all) = Len(first) + Len(rest) /\ \A x \in 1..Len(rest) : all[Len(first) + x] = rest[x]
    BY ONLY <2>3, <2>5, ConcatEnds
  <2>7. Parts(h, m) = all
    BY <1>4, <2>3
  <2>8. 1 \in 1..Len(first)
    BY <2>2
  <2>9. all[1] = h[m].tag
    BY <2>2, <2>4, <2>8
  <2>10. \A j \in DOMAIN h[m].kids : all[1 + j] = h[m].kids[j].type
    BY <1>2, <1>3, <2>2, <2>6
  <2>11. QED
    BY <1>6, <2>7, <2>9, <2>10
<1>7. QED
  BY <1>5, <1>6

(***************************************************************************)
(* g is h with copies of the types in order; those of the parts of the     *)
(* i-th come next after at[i].                                             *)
(***************************************************************************)
Copied(h, g, order, at) ==
  /\ order \in Seq(DOMAIN h) /\ order # <<>>
  /\ DOMAIN g = 1..(Len(h) + Len(order))
  /\ \A m \in DOMAIN h : g[m] = h[m]
  /\ \A i \in 1..Len(order) :
       /\ at[i] \in Nat
       /\ g[Len(h) + i] = CopyOf(h, order[i], Len(h) + at[i])
       /\ at[i] + Len(Parts(h, order[i])) <= Len(order)
       /\ Places(order, at[i], Parts(h, order[i]))

\* Each type that is copied and its copy.
Pairs(h, order) == {<<order[i], Len(h) + i>> : i \in 1..Len(order)}

LEMMA CopiesPair ==
  ASSUME NEW h, Formed(h), NEW g, NEW order, NEW at, Copied(h, g, order, at), NEW i \in 1..Len(order)
  PROVE  LET a == order[i]
             c == Len(h) + i
         IN /\ a \in DOMAIN h /\ g[a] = h[a]
            /\ Twin(g, Pairs(h, order), a, c)
<1> DEFINE a == order[i]
           c == Len(h) + i
           end == Len(h) + at[i]
           tags == IF h[a].tag = None THEN 0 ELSE 1
           t == CopyOf(h, a, end)
<1>1. Len(h) \in Nat /\ DOMAIN h = 1..Len(h) /\ \A m \in DOMAIN h : h[m] \in FieldType
  BY FormedTypes
<1>2. order \in Seq(DOMAIN h) /\ Len(order) \in Nat /\ i \in Nat
  BY DEF Copied
<1>3. a \in DOMAIN h /\ c \in 1..(Len(h) + Len(order))
  BY <1>1, <1>2
<1>4. a \in DOMAIN g /\ c \in DOMAIN g /\ g[a] = h[a] /\ g[c] = t
  BY <1>1, <1>2, <1>3 DEF Copied
<1>5. /\ at[i] \in Nat /\ at[i] + Len(Parts(h, a)) <= Len(order)
      /\ \A x \in 1..Len(Parts(h, a)) : order[at[i] + x] = Parts(h, a)[x]
  BY DEF Copied, Places
<1>6. /\ Len(h[a].kids) \in Nat /\ DOMAIN h[a].kids = 1..Len(h[a].kids)
      /\ Len(Parts(h, a)) = tags + Len(h[a].kids)
  BY <1>3, PartsAre
<1>7. /\ h[a].tag # None => Parts(h, a)[1] = h[a].tag
      /\ \A j \in DOMAIN h[a].kids : Parts(h, a)[tags + j] = h[a].kids[j].type
  BY <1>3, PartsAt
<1>8. /\ ~t.frozen
      /\ \A f \in {"kind", "data", "order", "signed", "clock", "maps", "align"} : h[a][f] = t[f]
      /\ t.kids = [j \in DOMAIN h[a].kids |-> [name |-> h[a].kids[j].name, type |-> end + tags + j]]
      /\ t.tag = IF h[a].tag = None THEN None ELSE end + 1
  BY <1>1, <1>3, CopyIs
<1>9. tags \in {0, 1} /\ (h[a].tag = None <=> tags = 0)
  OBVIOUS
<1> HIDE DEF a, c, tags, t
\* The x-th part and the x-th of the types after end are a pair.
<1>10. ASSUME NEW x \in 1..Len(Parts(h, a))
       PROVE  <<Parts(h, a)[x], end + x>> \in Pairs(h, order)
  <2>1. at[i] + x \in 1..Len(order) /\ end + x = Len(h) + (at[i] + x)
    <3> DEFINE mine == Len(h)
               before == at[i]
               parts == Len(Parts(h, a))
               added == Len(order)
    <3>1. /\ mine \in Nat /\ before \in Nat /\ parts \in Nat /\ added \in Nat
          /\ before + parts <= added /\ x \in 1..parts
      BY <1>1, <1>2, <1>5, <1>6, <1>9
    <3> HIDE DEF mine, before, parts, added
    <3>2. before + x \in 1..added /\ (mine + before) + x = mine + (before + x)
      BY <3>1
    <3>3. QED
      BY <3>2 DEF mine, before, added
  <2>2. <<order[at[i] + x], Len(h) + (at[i] + x)>> \in Pairs(h, order)
    BY <2>1 DEF Pairs
  <2>3. QED
    BY <1>5, <2>1, <2>2
<1>11. end \in Nat
  BY <1>1, <1>5
<1> HIDE DEF end
<1>12. ASSUME NEW j \in DOMAIN h[a].kids
       PROVE  <<h[a].kids[j].type, t.kids[j].type>> \in Pairs(h, order)
  <2>1. tags + j \in 1..Len(Parts(h, a)) /\ end + tags + j = end + (tags + j)
    BY <1>6, <1>9, <1>11
  <2>2. t.kids[j].type = end + (tags + j)
    BY <1>8, <2>1
  <2>3. QED
    BY <1>7, <1>10, <2>1, <2>2
<1>13. /\ Len(h[a].kids) = Len(t.kids)
       /\ \A j \in DOMAIN h[a].kids : h[a].kids[j].name = t.kids[j].name
  <2>1. DOMAIN t.kids = 1..Len(h[a].kids) /\ \A j \in DOMAIN h[a].kids : h[a].kids[j].name = t.kids[j].name
    BY <1>6, <1>8
  <2>2. t.kids = [j \in 1..Len(h[a].kids) |-> t.kids[j]]
    BY <1>6, <1>8
  <2>3. Len(t.kids) = Len(h[a].kids)
    BY <1>6, <2>1, <2>2
  <2>4. QED
    BY <2>1, <2>3
<1>14. /\ (h[a].tag = None) <=> (t.tag = None)
       /\ h[a].tag # None => <<h[a].tag, t.tag>> \in Pairs(h, order)
  <2>1. CASE h[a].tag = None
    BY <1>8, <2>1
  <2>2. CASE h[a].tag # None
    <3>1. t.tag = end + 1 /\ t.tag # None /\ 1 \in 1..Len(Parts(h, a))
      BY <1>6, <1>8, <1>9, <1>11, <2>2 DEF None
    <3>2. QED
      BY <1>7, <1>10, <2>2, <3>1
  <2>3. QED
    BY <2>1, <2>2
<1>15. SameKids(g, a, c)
  BY <1>4, <1>13 DEF SameKids
<1>16. QED
  BY <1>3, <1>4, <1>8, <1>12, <1>14, <1>15 DEF Twin, a, c

LEMMA CopiesAreTwins ==
  ASSUME NEW h, Formed(h), NEW g, NEW order, NEW at, Copied(h, g, order, at)
  PROVE  Twins(g, Pairs(h, order)) /\ Pairs(h, order) \subseteq PairsOf(g)
<1>1. \A i \in 1..Len(order) : Twin(g, Pairs(h, order), order[i], Len(h) + i)
  BY CopiesPair
<1>2. Twins(g, Pairs(h, order))
  <2> SUFFICES ASSUME NEW p \in Pairs(h, order) PROVE Twin(g, Pairs(h, order), p[1], p[2])
    BY DEF Twins
  <2>1. PICK i \in 1..Len(order) : p = <<order[i], Len(h) + i>>
    BY DEF Pairs
  <2>2. p[1] = order[i] /\ p[2] = Len(h) + i
    BY <2>1
  <2>3. QED
    BY <1>1, <2>2
<1>3. Pairs(h, order) \subseteq PairsOf(g)
  <2>1. \A i \in 1..Len(order) : order[i] \in DOMAIN g /\ Len(h) + i \in DOMAIN g
    BY <1>1 DEF Twin
  <2>2. QED
    BY <2>1 DEF Pairs, PairsOf
<1>4. QED
  BY <1>2, <1>3

\* A copy refers to copies of what its original refers to.
LEMMA CopiesRefer ==
  ASSUME NEW h, Formed(h), NEW g, NEW order, NEW at, Copied(h, g, order, at), Formed(g),
         NEW i \in 1..Len(order), NEW y \in Refs(g, Len(h) + i)
  PROVE  \E k \in 1..Len(order) : y = Len(h) + k /\ order[k] \in Refs(h, order[i])
<1> DEFINE a == order[i]
           c == Len(h) + i
<1>1. /\ a \in DOMAIN h /\ c \in DOMAIN g /\ a \in DOMAIN g /\ g[a] = h[a] /\ ~g[c].frozen
      /\ Len(g[a].kids) = Len(g[c].kids)
      /\ \A j \in DOMAIN g[a].kids : <<g[a].kids[j].type, g[c].kids[j].type>> \in Pairs(h, order)
      /\ (g[a].tag = None) <=> (g[c].tag = None)
      /\ g[a].tag # None => <<g[a].tag, g[c].tag>> \in Pairs(h, order)
  BY CopiesPair DEF Twin, SameKids
<1> HIDE DEF a, c
<1>2. DOMAIN g[a].kids = DOMAIN g[c].kids
  <2>1. g[a].kids \in Seq(Member) /\ g[c].kids \in Seq(Member)
    BY <1>1, FormedTypes, OneType
  <2>2. QED
    BY <1>1, <2>1
<1>3. \E x \in Refs(h, a) : <<x, y>> \in Pairs(h, order)
  <2>1. CASE y \in KidsOf(g, c)
    <3>1. PICK j \in DOMAIN g[c].kids : y = g[c].kids[j].type
      BY <2>1 DEF KidsOf
    <3>2. g[a].kids[j].type \in Refs(h, a)
      BY <1>1, <1>2, <3>1 DEF Refs, KidsOf
    <3>3. QED
      BY <1>1, <1>2, <3>1, <3>2
  <2>2. CASE y = g[c].tag /\ y # None
    <3>1. g[a].tag \in Refs(h, a)
      BY <1>1, <2>2 DEF Refs
    <3>2. QED
      BY <1>1, <2>2, <3>1
  <2>3. QED
    BY <2>1, <2>2 DEF Refs, c
<1>4. QED
  BY <1>3 DEF Pairs, a

\* A copy has the rank of its original.
LEMMA CopiesRanked ==
  ASSUME NEW h, Formed(h), Ranked(h), NEW g, NEW order, NEW at, Copied(h, g, order, at), Formed(g)
  PROVE  Ranked(g)
<1>1. PICK rank : IsRank(h, rank)
  BY DEF Ranked
<1> DEFINE up == [m \in DOMAIN g |-> IF m \in DOMAIN h THEN rank[m] ELSE rank[order[m - Len(h)]]]
<1>2. /\ Len(h) \in Nat /\ DOMAIN h = 1..Len(h)
      /\ \A m \in DOMAIN h : rank[m] \in Nat /\ Refs(h, m) \subseteq DOMAIN h
  BY <1>1, FormedTypes DEF Formed, IsRank
<1>3. /\ order \in Seq(DOMAIN h) /\ Len(order) \in Nat
      /\ DOMAIN g = 1..(Len(h) + Len(order)) /\ \A m \in DOMAIN h : g[m] = h[m]
  BY DEF Copied
<1>4. \A i \in 1..Len(order) : order[i] \in DOMAIN h
  BY <1>3
<1>5. \A m \in DOMAIN h : m \in DOMAIN g /\ up[m] = rank[m] /\ Refs(g, m) = Refs(h, m)
  BY <1>2, <1>3 DEF Refs, KidsOf
<1>6. ASSUME NEW i \in 1..Len(order)
      PROVE  Len(h) + i \in DOMAIN g /\ up[Len(h) + i] = rank[order[i]]
  <2>1. Len(h) + i \in DOMAIN g /\ Len(h) + i \notin DOMAIN h /\ (Len(h) + i) - Len(h) = i
    BY <1>2, <1>3
  <2>2. QED
    BY <2>1
<1>7. \A m \in DOMAIN g : m \in DOMAIN h \/ \E i \in 1..Len(order) : m = Len(h) + i
  <2> SUFFICES ASSUME NEW m \in DOMAIN g, m \notin DOMAIN h PROVE \E i \in 1..Len(order) : m = Len(h) + i
    OBVIOUS
  <2>1. m - Len(h) \in 1..Len(order) /\ m = Len(h) + (m - Len(h))
    BY <1>2, <1>3
  <2>2. QED
    BY <2>1
<1>8. up \in [DOMAIN g -> Nat]
  <2>1. \A m \in DOMAIN g : up[m] \in Nat
    <3> SUFFICES ASSUME NEW m \in DOMAIN g PROVE up[m] \in Nat
      OBVIOUS
    <3> HIDE DEF up
    <3> QED
      BY <1>2, <1>4, <1>5, <1>6, <1>7
  <2>2. up = [m \in DOMAIN g |-> up[m]]
    OBVIOUS
  <2> HIDE DEF up
  <2>3. QED
    BY <2>1, <2>2
<1> HIDE DEF up
<1>9. ASSUME NEW m \in DOMAIN g, NEW k \in Refs(g, m) PROVE up[k] < up[m]
  <2>1. CASE m \in DOMAIN h
    <3>1. k \in Refs(h, m) /\ k \in DOMAIN h
      BY <1>2, <1>5, <2>1
    <3>2. QED
      BY <1>1, <1>5, <2>1, <3>1 DEF IsRank
  <2>2. CASE \E i \in 1..Len(order) : m = Len(h) + i
    <3>1. PICK i \in 1..Len(order) : m = Len(h) + i
      BY <2>2
    <3>2. PICK j \in 1..Len(order) : k = Len(h) + j /\ order[j] \in Refs(h, order[i])
      BY <3>1, CopiesRefer
    <3>3. rank[order[j]] < rank[order[i]]
      BY <1>1, <1>4, <3>2 DEF IsRank
    <3>4. QED
      BY <1>6, <3>1, <3>2, <3>3
  <2>3. QED
    BY <1>7, <2>1, <2>2
<1>10. IsRank(g, up)
  BY <1>8, <1>9 DEF IsRank
<1>11. QED
  BY <1>10 DEF Ranked

\* Originals refer to what was there, copies to copies.
LEMMA CopiesApart ==
  ASSUME NEW h, Formed(h), NEW g, NEW order, NEW at, Copied(h, g, order, at), Formed(g),
         NEW n \in DOMAIN h, NEW i \in 1..Len(order)
  PROVE  Below(g, n) \cap Below(g, Len(h) + i) = {}
<1> DEFINE old == DOMAIN h
           new == DOMAIN g \ DOMAIN h
<1>1. Len(h) \in Nat /\ DOMAIN h = 1..Len(h) /\ \A m \in DOMAIN h : Refs(h, m) \subseteq DOMAIN h
  BY FormedTypes DEF Formed
<1>2. /\ Len(order) \in Nat
      /\ DOMAIN g = 1..(Len(h) + Len(order)) /\ \A m \in DOMAIN h : g[m] = h[m]
  BY DEF Copied
<1>3. n \in old /\ old \subseteq DOMAIN g /\ \A m \in old : Refs(g, m) \subseteq old
  BY <1>1, <1>2 DEF Refs, KidsOf
<1>4. \A k \in 1..Len(order) : Len(h) + k \in new
  BY <1>1, <1>2
<1>5. \A m \in new : Refs(g, m) \subseteq new
  <2> SUFFICES ASSUME NEW m \in new, NEW y \in Refs(g, m) PROVE y \in new
    OBVIOUS
  <2>1. m - Len(h) \in 1..Len(order) /\ m = Len(h) + (m - Len(h))
    BY <1>1, <1>2
  <2>2. PICK k \in 1..Len(order) : y = Len(h) + k
    BY <2>1, CopiesRefer
  <2>3. QED
    BY <1>4, <2>2
<1>6. Below(g, n) \subseteq old
  BY <1>3, BelowIs
<1>7. Below(g, Len(h) + i) \subseteq new
  <2>1. Len(h) + i \in new /\ new \subseteq DOMAIN g
    BY <1>4
  <2> HIDE DEF new
  <2>2. QED
    BY <1>5, <2>1, BelowIs
<1>8. QED
  BY <1>6, <1>7

LEMMA CopyCopies ==
  ASSUME Formed(ft), Len(ft) <= MaxTypes, NEW n \in Types, Copy(n), Formed(ft')
  PROVE  /\ \E order, at : Copied(ft, ft', order, at) /\ 1 \in 1..Len(order) /\ order[1] = n
         /\ copied' = <<n, Len(ft) + 1>>
<1> DEFINE q == Queues(ft, n)
           order == q[MaxTypes]
           at == [i \in 1..Len(order) |-> Len(q[i - 1])]
           copies == [i \in DOMAIN order |-> CopyOf(ft, order[i], Len(ft) + Len(q[i - 1]))]
<1>1. /\ Len(ft) + Len(order) <= MaxTypes
      /\ ft' = ft \o copies
      /\ copied' = <<n, Len(ft) + 1>>
  BY DEF Copy
<1>2. ft \in Seq(FieldType) /\ Len(ft) \in Nat /\ DOMAIN ft = 1..Len(ft) /\ n \in DOMAIN ft
  BY FormedTypes DEF Formed, Types
<1>3. MaxTypes \in Nat /\ MaxTypes \in 0..MaxTypes /\ 0 \in 0..MaxTypes /\ MaxTypes \in 0..MaxTypes
  BY FieldTypesAssumption
<1>4. order \in Seq(DOMAIN ft) /\ Len(order) \in Nat /\ DOMAIN order = 1..Len(order)
  <2>1. order \in Seq(DOMAIN ft) /\ Len(order) \in Nat
    BY <1>2, <1>3, QueuesAreSequences
  <2> HIDE DEF order
  <2>2. QED
    BY <2>1
<1>5. Len(order) <= MaxTypes
  BY <1>1, <1>2, <1>3, <1>4
<1>6. 1 \in 1..Len(order) /\ order[1] = n
  <2>1. q[0] = <<n>>
    BY QueuesAre
  <2>2. Len(q[0]) <= Len(order) /\ \A x \in 1..Len(q[0]) : order[x] = q[0][x]
    <3>1. n \in DOMAIN ft /\ 0 \in 0..MaxTypes /\ MaxTypes \in 0..MaxTypes
      BY <1>2, <1>3
    <3> HIDE DEF q, order
    <3>2. Len(q[0]) <= Len(order)
      BY <3>1, QueuesGrow DEF q, order
    <3>3. \A x \in 1..Len(q[0]) : order[x] = q[0][x]
      BY <3>1, QueuesGrow DEF q, order
    <3>4. QED
      BY <3>2, <3>3
  <2> HIDE DEF q, order
  <2>3. Len(q[0]) = 1 /\ q[0][1] = n
    BY <2>1
  <2>4. QED
    BY <1>4, <2>2, <2>3
<1>7. ASSUME NEW i \in 1..Len(order)
      PROVE  /\ order[i] \in DOMAIN ft /\ Len(q[i - 1]) \in Nat
             /\ Len(q[i - 1]) + Len(Parts(ft, order[i])) <= Len(order)
             /\ Places(order, Len(q[i - 1]), Parts(ft, order[i]))
  <2>1. n \in DOMAIN ft
    BY <1>2
  <2>2. order[i] \in DOMAIN ft /\ Len(q[i - 1]) \in Nat
    BY <1>5, <2>1, PartsHavePlaces
  <2>3. Len(q[i - 1]) + Len(Parts(ft, order[i])) <= Len(order)
    BY <1>5, <2>1, PartsHavePlaces
  <2>4. Places(order, Len(q[i - 1]), Parts(ft, order[i]))
    BY <1>5, <2>1, PartsHavePlaces
  <2>5. QED
    BY <2>2, <2>3, <2>4
<1> HIDE DEF q, order
<1>8. /\ DOMAIN copies = 1..Len(order)
      /\ \A i \in 1..Len(order) : copies[i] = CopyOf(ft, order[i], Len(ft) + at[i])
  BY <1>4
<1>9. copies = [i \in 1..Len(order) |-> copies[i]]
  BY <1>4
<1> HIDE DEF copies
<1>10. /\ DOMAIN ft' = 1..(Len(ft) + Len(order))
       /\ \A m \in DOMAIN ft : ft'[m] = ft[m]
       /\ \A i \in 1..Len(order) : ft'[Len(ft) + i] = copies[i]
  <2> DEFINE Entries == FieldType \cup {copies[i] : i \in 1..Len(order)}
  <2>1. copies \in [1..Len(order) -> Entries]
    BY <1>9
  <2>3. ft \in Seq(Entries)
    BY <1>2
  <2> HIDE DEF Entries
  <2>2. copies \in Seq(Entries) /\ Len(copies) = Len(order)
    <3>1. DOMAIN copies = 1..Len(order) /\ Len(order) \in Nat
      BY <1>4, <1>8
    <3>2. QED
      BY ONLY <2>1, <3>1, SeqDef
  <2>4. ft' \in Seq(Entries) /\ Len(ft') = Len(ft) + Len(copies)
    BY <1>1, <2>2, <2>3, ConcatProperties
  <2>5. \A i \in 1..Len(copies) : ft'[Len(ft) + i] = copies[i]
    BY ONLY <1>1, <2>2, <2>3, ConcatEnds
  <2>6. \A m \in 1..Len(ft) : ft'[m] = ft[m]
    BY ONLY <1>1, <2>2, <2>3, ConcatBegins
  <2>7. DOMAIN ft' = 1..Len(ft')
    BY <2>4
  <2>8. QED
    BY <1>2, <2>2, <2>4, <2>5, <2>6, <2>7
<1>11. \A i \in 1..Len(order) : at[i] = Len(q[i - 1])
  OBVIOUS
<1> HIDE DEF at
<1>12. order # <<>>
  BY <1>6
<1>13. Copied(ft, ft', order, at)
  BY <1>4, <1>7, <1>8, <1>10, <1>11, <1>12 DEF Copied
<1>14. QED
  BY <1>1, <1>6, <1>13

\* A copy compares equal and has nothing in common with its original.
LEMMA CopyEquals ==
  ASSUME Good(ft), Ranked(ft), Len(ft) <= MaxTypes, NEW n \in Types, Copy(n)
  PROVE  Ranked(ft') /\ CopyIsEqual'
<1>1. Formed(ft) /\ Good(ft') /\ Formed(ft') /\ n \in DOMAIN ft
  BY CopyLeaves DEF Leaves, Good, Types
<1>2. PICK order, at : Copied(ft, ft', order, at) /\ 1 \in 1..Len(order) /\ order[1] = n
  BY <1>1, CopyCopies
<1>3. copied' = <<n, Len(ft) + 1>>
  BY <1>1, CopyCopies
<1>4. Ranked(ft')
  BY <1>1, <1>2, CopiesRanked
<1>5. Twins(ft', Pairs(ft, order)) /\ Pairs(ft, order) \subseteq PairsOf(ft')
  BY <1>1, <1>2, CopiesAreTwins
<1>6. <<n, Len(ft) + 1>> \in Pairs(ft, order)
  BY <1>2 DEF Pairs
<1>7. ASSUME Covers(ft', n) PROVE Equal(ft', n, Len(ft) + 1)
  <2> DEFINE P == {p \in Pairs(ft, order) : p[1] \in Below(ft', n)}
  <2>1. n \in DOMAIN ft'
    BY <1>2 DEF Copied
  <2>2. \A m \in Below(ft', n) : Refs(ft', m) \subseteq Below(ft', n)
    BY <1>1, <2>1, BelowIs
  <2>3. ASSUME NEW p \in P PROVE Twin(ft', P, p[1], p[2])
    <3>1. Twin(ft', Pairs(ft, order), p[1], p[2]) /\ p[1] \in Below(ft', n)
      BY <1>5 DEF Twins
    <3>2. \A i \in DOMAIN ft'[p[1]].kids : ft'[p[1]].kids[i].type \in Below(ft', n)
      BY <2>2, <3>1 DEF Refs, KidsOf
    <3>3. ft'[p[1]].tag # None => ft'[p[1]].tag \in Below(ft', n)
      BY <2>2, <3>1 DEF Refs
    <3>4. \A a, b : <<a, b>> \in Pairs(ft, order) /\ a \in Below(ft', n) => <<a, b>> \in P
      OBVIOUS
    <3> HIDE DEF P
    <3>5. QED
      BY <3>1, <3>2, <3>3, <3>4 DEF Twin
  <2>4. Twins(ft', P) /\ P \subseteq PairsOf(ft')
    BY <1>5, <2>3 DEF Twins
  <2>5. \A p \in P : Covered(ft', p[1])
    BY <1>7 DEF Covers, Covered
  <2>6. <<n, Len(ft) + 1>> \in P
    BY <1>1, <1>6, <2>1, BelowIs
  <2> HIDE DEF P
  <2>7. QED
    BY <1>1, <1>4, <2>4, <2>5, <2>6, TwinsCompare
<1>8. Below(ft', n) \cap Below(ft', Len(ft) + 1) = {}
  BY <1>1, <1>2, CopiesApart
<1>9. copied'[1] = n /\ copied'[2] = Len(ft) + 1
  BY <1>3
<1>10. CopyIsEqual'
  BY <1>7, <1>8, <1>9 DEF CopyIsEqual
<1>11. QED
  BY <1>4, <1>10

(***************************************************************************)
(* The setters of the writer itself.                                       *)
(***************************************************************************)

\* What holds of the types with what was mapped before holds with the same now.
LEMMA StillGood ==
  ASSUME Good(ft'), mapped' = mapped
  PROVE  Good(ft)'
BY DEF Good, FrozenDown, ValidDown, Cached, Settled

\* Resolving a tag changes nothing that Good speaks of.
LEMMA TagSetter ==
  ASSUME Good(ft), Ranked(ft), Len(ft) <= MaxTypes, NEW n \in Types, NEW m \in Types,
         SetTagFieldType(n, m)
  PROVE  Good(ft') /\ Len(ft') <= MaxTypes /\ Ranked(ft') /\ Clears /\ KeepsLayouts
<1> DEFINE t == [ft[n] EXCEPT !.tag = m]
<1>1. /\ ft' = [ft EXCEPT ![n] = t] /\ Clears /\ n \notin Below(ft, m)
      /\ ft[n].kind = "variant" /\ ~ft[n].valid
  BY DEF SetTagFieldType, Update, Clears
<1>2. Formed(ft) /\ ft \in Seq(FieldType) /\ Types = DOMAIN ft /\ DOMAIN ft = 1..Len(ft)
      /\ m \in Nat /\ WellMade(ft[n], Types)
  BY FormedTypes, FormedIsWellMade DEF Good, Types, Formed
<1>3. /\ t \in FieldType /\ t.kids = ft[n].kids /\ t.tag = m
      /\ t.frozen = ft[n].frozen /\ t.valid = ft[n].valid /\ t.overlap = ft[n].overlap
      /\ t.data = ft[n].data /\ Layout(t) = Layout(ft[n])
  BY <1>2, SameLayout DEF WellMade, FieldType
<1>4. WellMade(t, Types)
  <2>1. t.kind = ft[n].kind
    BY <1>3, SameLayout
  <2>2. QED
    BY <1>2, <1>3, <2>1 DEF WellMade
<1> HIDE DEF t
<1>5. /\ ft' \in Seq(FieldType) /\ Len(ft') = Len(ft) /\ DOMAIN ft' = DOMAIN ft
      /\ \A k \in DOMAIN ft : ft'[k] = IF k = n THEN t ELSE ft[k]
  BY <1>1, <1>2, <1>3
<1>6. Formed(ft')
  <2>1. \A k \in DOMAIN ft : WellMade(ft'[k], DOMAIN ft)
    BY <1>2, <1>4, <1>5, FormedIsWellMade
  <2>2. QED
    BY <1>5, <2>1, FormedIsWellMade
<1>7. \A k \in Types :
        /\ Layout(ft'[k]) = Layout(ft[k]) /\ ft'[k].kids = ft[k].kids /\ ft'[k].data = ft[k].data
        /\ ft'[k].frozen = ft[k].frozen /\ ft'[k].valid = ft[k].valid
        /\ ft'[k].overlap = ft[k].overlap /\ (k # n => ft'[k].tag = ft[k].tag)
  BY <1>2, <1>3, <1>5
<1>8. Good(ft')
  <2>1. \A k \in Types :
          /\ ft'[k].kind = ft[k].kind /\ ft'[k].align = ft[k].align
          /\ ft'[k].signed = ft[k].signed /\ ft'[k].clock = ft[k].clock /\ ft'[k].maps = ft[k].maps
    BY <1>7, SameLayout
  <2>2. QED
    BY <1>2, <1>5, <1>6, <1>7, <2>1, LayoutsKept
<1>9. KeepsLayouts
  BY <1>1, <1>7 DEF KeepsLayouts
<1>10. Ranked(ft')
  <2>1. \A k \in DOMAIN ft : Refs(ft', k) \subseteq Refs(ft, k) \cup (IF k = n THEN {m} ELSE {})
    <3>1. Refs(ft', n) \subseteq KidsOf(ft, n) \cup {m}
      BY <1>2, <1>3, <1>5 DEF Refs, KidsOf
    <3>2. \A k \in DOMAIN ft : k # n => Refs(ft', k) = Refs(ft, k)
      BY <1>5 DEF Refs, KidsOf
    <3>3. QED
      BY <3>1, <3>2 DEF Refs
  <2>2. QED
    BY <1>1, <1>2, <1>5, <2>1, AddRanked
<1>11. QED
  BY <1>1, <1>5, <1>8, <1>9, <1>10

\* What mapping a member leaves: the structure has a new member, all else is as
\* it was.
Remaps(n, i, new) ==
  LET old == ft[n].kids[i].type
  IN /\ Formed(ft') /\ Len(ft') <= MaxTypes
     /\ new \notin DOMAIN ft /\ DOMAIN ft' = DOMAIN ft \cup {new}
     /\ mapped' = mapped \cup {new} /\ copied' = <<>>
     /\ old \in DOMAIN ft /\ ft[n].kind = "struct" /\ ft[old].kind = "integer" /\ ~ft[old].clock
     /\ ft'[new] = [ft[old] EXCEPT !.clock = TRUE, !.frozen = FALSE, !.valid = FALSE]
     /\ \A m \in DOMAIN ft \ {n} : ft'[m] = ft[m]
     /\ \A f \in {"kind", "tag", "data", "align", "order", "signed", "clock", "maps", "overlap",
                  "frozen", "valid"} : ft'[n][f] = ft[n][f]
     /\ Len(ft'[n].kids) = Len(ft[n].kids) /\ DOMAIN ft'[n].kids = DOMAIN ft[n].kids
     /\ \A j \in DOMAIN ft[n].kids :
          /\ ft'[n].kids[j].name = ft[n].kids[j].name
          /\ ft'[n].kids[j].type = IF j = i THEN new ELSE ft[n].kids[j].type

LEMMA MapRemaps ==
  ASSUME Formed(ft), Len(ft) <= MaxTypes, NEW n \in Types, NEW i \in DOMAIN ft[n].kids,
         MapClockClass(n, i)
  PROVE  Remaps(n, i, Len(ft) + 1)
<1> DEFINE old == ft[n].kids[i].type
           new == Len(ft) + 1
           kids == [ft[n].kids EXCEPT ![i].type = new]
           s == [ft[n] EXCEPT !.kids = kids]
           g == [ft EXCEPT ![n] = s]
           t == [ft[old] EXCEPT !.clock = TRUE, !.frozen = FALSE, !.valid = FALSE]
<1>1. /\ Len(ft) < MaxTypes /\ ft[n].kind = "struct" /\ ft[old].kind = "integer" /\ ~ft[old].clock
      /\ ft' = Append([ft EXCEPT ![n].kids[i].type = new], t)
      /\ mapped' = mapped \cup {new} /\ copied' = <<>>
  BY DEF MapClockClass
<1>2. /\ ft \in Seq(FieldType) /\ Len(ft) \in Nat /\ DOMAIN ft = 1..Len(ft) /\ n \in DOMAIN ft
      /\ \A m \in DOMAIN ft : ft[m] \in FieldType /\ WellMade(ft[m], DOMAIN ft)
  BY FormedTypes, FormedIsWellMade DEF Formed, Types
<1>3. /\ ft[n].kids \in Seq(Member) /\ Len(ft[n].kids) \in Nat
      /\ DOMAIN ft[n].kids = 1..Len(ft[n].kids)
      /\ old \in DOMAIN ft
  BY <1>2, OneType DEF WellMade
<1>4. [ft EXCEPT ![n].kids[i].type = new] = g
  BY <1>2, <1>3
<1>5. new \notin DOMAIN ft /\ new \in Nat
  BY <1>2
<1>6. /\ kids \in Seq(Member) /\ Len(kids) = Len(ft[n].kids) /\ DOMAIN kids = DOMAIN ft[n].kids
      /\ \A j \in DOMAIN ft[n].kids :
           /\ kids[j].name = ft[n].kids[j].name
           /\ kids[j].type = IF j = i THEN new ELSE ft[n].kids[j].type
  <2> DEFINE k == [ft[n].kids[i] EXCEPT !.type = new]
  <2>1. kids = [ft[n].kids EXCEPT ![i] = k]
    BY <1>3
  <2>2. ft[n].kids[i] \in Member
    BY <1>3
  <2>3. k \in Member /\ k.name = ft[n].kids[i].name /\ k.type = new
    BY <1>5, <2>2 DEF Member
  <2> HIDE DEF k, kids
  <2>4. QED
    BY <1>3, <2>1, <2>3
<1> HIDE DEF kids
<1>7. /\ s \in FieldType /\ s.kids = kids
      /\ s.kind = ft[n].kind /\ s.tag = ft[n].tag /\ s.data = ft[n].data /\ s.align = ft[n].align
      /\ s.order = ft[n].order /\ s.signed = ft[n].signed /\ s.clock = ft[n].clock
      /\ s.maps = ft[n].maps /\ s.overlap = ft[n].overlap
      /\ s.frozen = ft[n].frozen /\ s.valid = ft[n].valid
  <2>1. ft[n] \in FieldType
    BY <1>2
  <2>2. QED
    BY <1>6, <2>1 DEF FieldType
<1>8. /\ t \in FieldType /\ t.kids = ft[old].kids /\ t.tag = ft[old].tag /\ t.kind = ft[old].kind
  <2>1. ft[old] \in FieldType
    BY <1>2, <1>3
  <2> HIDE DEF old
  <2>2. QED
    BY <2>1 DEF FieldType
<1> HIDE DEF s, t
<1>9. g \in Seq(FieldType) /\ Len(g) = Len(ft) /\ g[n] = s /\ \A m \in DOMAIN ft \ {n} : g[m] = ft[m]
  BY <1>2, <1>7
<1> HIDE DEF g
<1>10. ft' = Append(g, t)
  BY <1>1, <1>4
<1>11. /\ ft' \in Seq(FieldType) /\ Len(ft') = Len(ft) + 1
       /\ DOMAIN ft' = DOMAIN ft \cup {new} /\ ft'[new] = t
       /\ \A m \in DOMAIN ft : ft'[m] = g[m]
  <2>1. /\ ft' \in Seq(FieldType) /\ Len(ft') = Len(g) + 1 /\ DOMAIN ft' = 1..(Len(g) + 1)
        /\ \A m \in 1..(Len(g) + 1) : ft'[m] = IF m = Len(g) + 1 THEN t ELSE g[m]
    BY <1>8, <1>9, <1>10
  <2>2. QED
    BY <1>2, <1>9, <2>1
<1> HIDE DEF new, old
<1>12. \A m \in DOMAIN ft' : WellMade(ft'[m], DOMAIN ft')
  <2>1. WellMade(t, DOMAIN ft')
    BY <1>2, <1>3, <1>8, <1>11 DEF WellMade
  <2>2. WellMade(s, DOMAIN ft')
    BY <1>1, <1>2, <1>6, <1>7, <1>11 DEF WellMade
  <2>3. \A m \in DOMAIN ft \ {n} : WellMade(ft'[m], DOMAIN ft')
    BY <1>2, <1>9, <1>11 DEF WellMade
  <2>4. QED
    BY <1>2, <1>9, <1>11, <2>1, <2>2, <2>3
<1>13. Formed(ft')
  BY <1>11, <1>12, FormedIsWellMade
<1>14. Len(ft') <= MaxTypes
  BY <1>1, <1>2, <1>11, FieldTypesAssumption
<1>15. \A f \in {"kind", "tag", "data", "align", "order", "signed", "clock", "maps", "overlap",
                 "frozen", "valid"} : ft'[n][f] = ft[n][f]
  BY <1>2, <1>7, <1>9, <1>11
<1>16. QED
  <2>1. old \in DOMAIN ft /\ ft[n].kind = "struct" /\ ft[old].kind = "integer" /\ ~ft[old].clock
    BY <1>1, <1>3
  <2>2. ft'[new] = [ft[old] EXCEPT !.clock = TRUE, !.frozen = FALSE, !.valid = FALSE]
    BY <1>11 DEF t
  <2>3. \A m \in DOMAIN ft \ {n} : ft'[m] = ft[m]
    BY <1>9, <1>11
  <2>4. ft'[n].kids = kids
    BY <1>2, <1>7, <1>9, <1>11
  <2>5. /\ Len(ft'[n].kids) = Len(ft[n].kids) /\ DOMAIN ft'[n].kids = DOMAIN ft[n].kids
        /\ \A j \in DOMAIN ft[n].kids :
             /\ ft'[n].kids[j].name = ft[n].kids[j].name
             /\ ft'[n].kids[j].type = IF j = i THEN new ELSE ft[n].kids[j].type
    BY <1>6, <2>4
  <2>6. Remaps(n, i, new)
    BY <1>1, <1>5, <1>11, <1>13, <1>14, <1>15, <2>1, <2>2, <2>3, <2>5 DEF Remaps, old
  <2>7. QED
    BY <2>6 DEF new

\* The new member is exempt, and nothing else that Good speaks of is touched.
LEMMA RemapsGood ==
  ASSUME Good(ft), NEW n \in Types, NEW i \in DOMAIN ft[n].kids, NEW new, Remaps(n, i, new)
  PROVE  Good(ft)'
<1>1. /\ Formed(ft) /\ FrozenDown(ft) /\ ValidDown(ft) /\ Cached(ft) /\ n \in DOMAIN ft
      /\ DOMAIN ft' = DOMAIN ft \cup {new}
  BY DEF Good, Remaps, Types
<1>2. ASSUME NEW m \in DOMAIN ft
      PROVE  /\ ft'[m].kind = ft[m].kind /\ ft'[m].align = ft[m].align /\ ft'[m].maps = ft[m].maps
             /\ ft'[m].signed = ft[m].signed /\ ft'[m].clock = ft[m].clock
             /\ ft'[m].overlap = ft[m].overlap
             /\ ft'[m].frozen = ft[m].frozen /\ ft'[m].valid = ft[m].valid
             /\ ft[m].kind # "struct" => ft'[m].kids = ft[m].kids
  BY DEF Remaps
<1>3. ~ft'[new].frozen /\ ~ft'[new].valid
  <2>1. ft[ft[n].kids[i].type] \in FieldType
    BY <1>1, FormedTypes DEF Remaps
  <2>2. QED
    BY <2>1 DEF Remaps, FieldType
<1>4. ASSUME NEW m \in DOMAIN ft
      PROVE  /\ Settled(ft, m)' \subseteq Settled(ft, m) /\ Settled(ft, m) \subseteq DOMAIN ft
             /\ ft[m].kind # "struct" => KidsOf(ft', m) = KidsOf(ft, m)
             /\ Validated(ft', m) \cap Settled(ft, m)' \subseteq Validated(ft, m) \cap Settled(ft, m)
  <2>1. Settled(ft, m) \subseteq DOMAIN ft
    BY <1>1, FormedTypes, SettledIs
  <2>2. ft[m].kind # "struct" => KidsOf(ft', m) = KidsOf(ft, m)
    BY <1>2 DEF KidsOf
  <2>3. CASE ft[m].kind # "struct"
    <3>1. ft'[m].kind = ft[m].kind
      BY <1>2
    <3>2. QED
      BY <2>1, <2>2, <2>3, <3>1 DEF Settled, Validated
  <2>4. CASE ft[m].kind = "struct"
    <3>1. KidsOf(ft', m) \subseteq KidsOf(ft, m) \cup {new}
      <4>1. CASE m = n
        BY <4>1 DEF KidsOf, Remaps
      <4>2. CASE m # n
        <5>1. ft'[m] = ft[m]
          BY <4>2 DEF Remaps
        <5>2. QED
          BY <5>1 DEF KidsOf
      <4>3. QED
        BY <4>1, <4>2
    <3>2. mapped' = mapped \cup {new} /\ ft'[m].kind = "struct"
      BY <1>2, <2>4 DEF Remaps
    <3>3. Settled(ft, m)' = KidsOf(ft', m) \ mapped' /\ Settled(ft, m) = KidsOf(ft, m) \ mapped
      BY <2>4, <3>2 DEF Settled
    <3>4. Validated(ft', m) = KidsOf(ft', m) /\ Validated(ft, m) = KidsOf(ft, m)
      BY <2>4, <3>2 DEF Validated
    <3>5. QED
      BY <2>1, <2>4, <3>1, <3>2, <3>3, <3>4
  <2>5. QED
    BY <2>3, <2>4
<1>5. FrozenDown(ft)'
  <2> SUFFICES ASSUME NEW m \in DOMAIN ft', ft'[m].frozen, NEW k \in Settled(ft, m)' PROVE ft'[k].frozen
    BY DEF FrozenDown
  <2>1. m \in DOMAIN ft /\ ft[m].frozen
    BY <1>1, <1>2, <1>3
  <2>2. k \in DOMAIN ft /\ ft[k].frozen
    BY <1>1, <1>4, <2>1 DEF FrozenDown
  <2>3. QED
    BY <1>2, <2>2
<1>6. ValidDown(ft)'
  <2> SUFFICES ASSUME NEW m \in DOMAIN ft', ft'[m].valid
               PROVE  ft'[m].frozen /\ \A k \in Validated(ft', m) \cap Settled(ft, m)' : ft'[k].valid
    BY DEF ValidDown
  <2>1. m \in DOMAIN ft /\ ft[m].valid
    BY <1>1, <1>2, <1>3
  <2>2. ft[m].frozen /\ \A k \in Validated(ft, m) \cap Settled(ft, m) : ft[k].valid
    BY <1>1, <2>1 DEF ValidDown
  <2>3. QED
    BY <1>2, <1>4, <2>1, <2>2
<1>7. ASSUME NEW m \in DOMAIN ft, ft[m].kind = "enum"
      PROVE  /\ Overlaps(ft', m) <=> Overlaps(ft, m)
             /\ EnumerationIsValid(ft', m) <=> EnumerationIsValid(ft, m)
  <2>1. ft[m].kids[1].type \in DOMAIN ft /\ ft'[m].kids = ft[m].kids /\ ft'[m].maps = ft[m].maps
    BY <1>1, <1>2, <1>7, ContainerIsKid, FormedTypes
  <2>2. /\ ContainerOf(ft', m).signed = ContainerOf(ft, m).signed
        /\ ContainerOf(ft', m).clock = ContainerOf(ft, m).clock
    BY <1>2, <2>1 DEF ContainerOf
  <2>3. QED
    BY <2>1, <2>2 DEF Overlaps, EnumerationIsValid, IntegerIsValid
<1>8. Cached(ft)'
  <2> SUFFICES ASSUME NEW m \in DOMAIN ft', ft'[m].frozen
               PROVE  /\ ft'[m].kind = "struct" => \A k \in Settled(ft, m)' : ft'[m].align >= ft'[k].align
                      /\ ft'[m].kind \in {"array", "sequence"} =>
                           \A k \in KidsOf(ft', m) : ft'[m].align = ft'[k].align
                      /\ ft'[m].kind = "enum" => (Overlaps(ft', m) => ft'[m].overlap)
                      /\ ft'[m].valid /\ ft'[m].kind # "variant" => IsSound(ft', m)
    BY DEF Cached
  <2>1. m \in DOMAIN ft /\ ft[m].frozen /\ ft'[m].kind = ft[m].kind /\ ft'[m].align = ft[m].align
    BY <1>1, <1>2, <1>3
  <2>2. ft[m].kind = "struct" => \A k \in Settled(ft, m)' : ft'[m].align >= ft'[k].align
    BY <1>1, <1>2, <1>4, <2>1 DEF Cached
  <2>3. ft[m].kind \in {"array", "sequence"} => \A k \in KidsOf(ft', m) : ft'[m].align = ft'[k].align
    <3>1. KidsOf(ft, m) \subseteq DOMAIN ft
      BY <1>1, <2>1, FormedTypes
    <3>2. QED
      BY <1>1, <1>2, <1>4, <2>1, <3>1 DEF Cached
  <2>4. ft[m].kind = "enum" => (Overlaps(ft', m) => ft'[m].overlap)
    BY <1>1, <1>2, <1>7, <2>1 DEF Cached
  <2>5. ASSUME ft'[m].valid, ft[m].kind # "variant" PROVE IsSound(ft', m)
    <3>1. IsSound(ft, m)
      BY <1>1, <1>2, <2>1, <2>5 DEF Cached
    <3>2. IntegerIsValid(ft'[m]) <=> IntegerIsValid(ft[m])
      BY <1>2, <2>1 DEF IntegerIsValid
    <3>3. QED
      BY <1>7, <2>1, <2>5, <3>1, <3>2 DEF IsSound
  <2>6. QED
    BY <2>1, <2>2, <2>3, <2>4, <2>5
<1>9. Formed(ft)'
  BY DEF Remaps, Formed
<1>10. QED
  BY <1>5, <1>6, <1>8, <1>9 DEF Good

\* The copy has the rank of what it is put in the place of.
LEMMA RemapsRanked ==
  ASSUME Formed(ft), Ranked(ft), NEW n \in Types, NEW i \in DOMAIN ft[n].kids, NEW new,
         Remaps(n, i, new)
  PROVE  Ranked(ft')
<1> DEFINE old == ft[n].kids[i].type
<1>1. PICK rank : IsRank(ft, rank)
  BY DEF Ranked
<1> DEFINE up == [m \in DOMAIN ft \cup {new} |-> IF m = new THEN rank[old] ELSE rank[m]]
<1>2. /\ n \in DOMAIN ft /\ old \in DOMAIN ft /\ new \notin DOMAIN ft /\ DOMAIN ft' = DOMAIN ft \cup {new}
      /\ ft[old] \in FieldType
      /\ \A m \in DOMAIN ft : rank[m] \in Nat /\ Refs(ft, m) \subseteq DOMAIN ft
      /\ ft'[new] = [ft[old] EXCEPT !.clock = TRUE, !.frozen = FALSE, !.valid = FALSE]
  BY <1>1, FormedTypes DEF Remaps, Types, IsRank, Formed
<1>3. Refs(ft', new) = Refs(ft, old)
  <2>1. ft'[new].kids = ft[old].kids /\ ft'[new].tag = ft[old].tag
    BY <1>2 DEF FieldType
  <2>2. QED
    BY <2>1 DEF Refs, KidsOf
<1>4. Refs(ft', n) \subseteq Refs(ft, n) \cup {new}
  <2>1. KidsOf(ft', n) \subseteq KidsOf(ft, n) \cup {new} /\ ft'[n].tag = ft[n].tag
    BY DEF Remaps, KidsOf
  <2>2. QED
    BY <2>1 DEF Refs
<1>5. \A m \in DOMAIN ft \ {n} : Refs(ft', m) = Refs(ft, m)
  BY DEF Remaps, Refs, KidsOf
<1>6. rank[old] < rank[n]
  <2>1. old \in Refs(ft, n)
    BY DEF Refs, KidsOf
  <2>2. QED
    BY <1>1, <1>2, <2>1 DEF IsRank
<1>7. up \in [DOMAIN ft' -> Nat]
  BY <1>2
<1>8. ASSUME NEW m \in DOMAIN ft', NEW k \in Refs(ft', m) PROVE up[k] < up[m]
  <2>1. \A x \in DOMAIN ft : up[x] = rank[x]
    BY <1>2
  <2>2. up[new] = rank[old]
    OBVIOUS
  <2>3. \A x \in DOMAIN ft : \A y \in Refs(ft, x) : rank[y] < rank[x]
    BY <1>1 DEF IsRank
  <2> HIDE DEF up, old
  <2>4. CASE m = new
    BY <1>2, <1>3, <2>1, <2>2, <2>3, <2>4
  <2>5. CASE m = n
    BY <1>2, <1>4, <1>6, <2>1, <2>2, <2>3, <2>5
  <2>6. CASE m \in DOMAIN ft \ {n}
    BY <1>2, <1>5, <2>1, <2>3, <2>6
  <2>7. QED
    BY <1>2, <2>4, <2>5, <2>6
<1>9. QED
  BY <1>7, <1>8 DEF Ranked, IsRank

LEMMA RemapsKeeps ==
  ASSUME NEW n \in Types, NEW i \in DOMAIN ft[n].kids, NEW new, Remaps(n, i, new),
         \A m \in mapped : m \in DOMAIN ft
  PROVE  KeepsLayouts
<1>1. \A m \in Types : /\ Layout(ft'[m]) = Layout(ft[m]) /\ ft'[m].frozen = ft[m].frozen
                       /\ ft'[m].data = ft[m].data /\ ft'[m].tag = ft[m].tag
  BY SameLayout DEF Remaps, Types
<1>2. IsMapped(new, ft[n].kids[i].type)
  BY DEF Remaps, IsMapped
<1>3. \A m \in Types :
        /\ Len(ft'[m].kids) = Len(ft[m].kids)
        /\ \A j \in DOMAIN ft[m].kids :
             /\ ft'[m].kids[j].name = ft[m].kids[j].name
             /\ \/ ft'[m].kids[j].type = ft[m].kids[j].type
                \/ ft[m].kind = "struct" /\ IsMapped(ft'[m].kids[j].type, ft[m].kids[j].type)
  <2> SUFFICES ASSUME NEW m \in Types
               PROVE  /\ Len(ft'[m].kids) = Len(ft[m].kids)
                      /\ \A j \in DOMAIN ft[m].kids :
                           /\ ft'[m].kids[j].name = ft[m].kids[j].name
                           /\ \/ ft'[m].kids[j].type = ft[m].kids[j].type
                              \/ ft[m].kind = "struct" /\ IsMapped(ft'[m].kids[j].type, ft[m].kids[j].type)
    OBVIOUS
  <2>1. CASE m = n
    BY <1>2, <2>1 DEF Remaps
  <2>2. CASE m # n
    <3>1. ft'[m] = ft[m]
      BY <2>2 DEF Remaps, Types
    <3>2. QED
      BY <3>1
  <2>3. QED
    BY <2>1, <2>2
<1>4. QED
  BY <1>1, <1>3 DEF KeepsLayouts

(***************************************************************************)
(* The invariant.                                                          *)
(***************************************************************************)

Inv ==
  /\ Good(ft) /\ Ranked(ft) /\ Len(ft) <= MaxTypes /\ mapped \subseteq Types
  /\ copied \in {<<>>} \cup (Types \X Types)
  /\ CopyIsEqual

LEMMA InvHolds ==
  ASSUME Inv
  PROVE  IInv
<1>1. Formed(ft) /\ FrozenDown(ft) /\ ValidDown(ft) /\ Cached(ft)
  BY DEF Inv, Good
<1>2. TypeOK /\ Arity
  BY <1>1 DEF Inv, TypeOK, Arity, Formed, Types
<1>3. FlagsAreDeep
  BY <1>1 DEF FlagsAreDeep, FrozenDown, ValidDown, Types
<1>4. CachesAreTrue
  <2> SUFFICES ASSUME NEW n \in Types, ft[n].frozen
               PROVE  /\ ft[n].kind = "struct" =>
                           \A m \in Settled(ft, n) : ft[n].align >= AlignmentOf(ft, m)
                      /\ ft[n].kind \in {"array", "sequence"} =>
                           \A m \in KidsOf(ft, n) : ft[n].align = AlignmentOf(ft, m)
                      /\ ft[n].kind = "enum" => (Overlaps(ft, n) => ft[n].overlap)
                      /\ ft[n].valid /\ ft[n].kind # "variant" => IsSound(ft, n)
    BY DEF CachesAreTrue
  <2>1. \A m \in Settled(ft, n) : AlignmentOf(ft, m) = ft[m].align
    BY <1>1, SettledAligns DEF Types
  <2>2. ft[n].kind # "struct" => Settled(ft, n) = KidsOf(ft, n)
    BY SettledIs
  <2>3. QED
    BY <1>1, <2>1, <2>2 DEF Cached, Types
<1>5. NoLoops
  BY <1>1, RankedHasNoLoops DEF Inv, NoLoops, Types
<1>6. QED
  BY <1>2, <1>3, <1>4, <1>5 DEF IInv, Inv

LEMMA StartsGood ==
  ASSUME Init
  PROVE  Inv
<1>1. /\ ft \in Starts /\ copied = <<>> /\ mapped = {} /\ Len(ft) <= MaxTypes
      /\ ft \in Seq(FieldType)
      /\ \A n \in DOMAIN ft :
           /\ Refs(ft, n) \subseteq DOMAIN ft /\ ~ft[n].frozen /\ ~ft[n].valid
           /\ \A m \in Refs(ft, n) : n \notin Below(ft, m)
           /\ ft[n].kind \in {"enum", "array", "sequence"} => Len(ft[n].kids) = 1
  BY StartsAssumption DEF Init
<1>2. Good(ft)
  BY <1>1 DEF Good, Formed, FrozenDown, ValidDown, Cached
<1>3. Ranked(ft)
  BY <1>1, <1>2, CountIsRank DEF Good
<1>4. QED
  BY <1>1, <1>2, <1>3 DEF Inv, CopyIsEqual

\* Every setter leaves the types good.
LEMMA SetterLeaves ==
  ASSUME Good(ft), Len(ft) <= MaxTypes, NEW n \in Types, Setter(n)
  PROVE  Leaves /\ Clears
<1>1. CASE \E d \in Data : \/ SetIntegerData(n, d) \/ SetFloatData(n, d)
                           \/ SetStringEncoding(n, d) \/ SetTagName(n, d)
  BY <1>1, SettersOfData
<1>2. CASE (\E s \in BOOLEAN : SetSigned(n, s)) \/ SetMappedClockClass(n)
  BY <1>2, SettersOfIntegers
<1>3. CASE \E s \in BOOLEAN, l \in Names, lo \in Values, hi \in Values : AddMapping(n, s, l, lo, hi)
  BY <1>3, AdderOfMappings
<1>4. CASE \E name \in Names, m \in Types : AddField(n, name, m) \/ AddChoice(n, name, m)
  BY <1>4, AdderOfMembers
<1>5. CASE \E o \in ByteOrders : SetByteOrder(n, o)
  BY <1>5, SetterOfByteOrder
<1>6. CASE \E a \in Alignments : SetAlignment(n, a)
  BY <1>6, SetterOfAlignment
<1>7. QED
  BY <1>1, <1>2, <1>3, <1>4, <1>5, <1>6 DEF Setter

\* The steps but for the writer's own setters.
Plainly ==
  \/ Creation
  \/ \E n \in Types : \/ Setter(n) \/ GetAlignment(n) \/ Freeze(n)
                      \/ Validate(n) \/ FindChoice(n) \/ Copy(n)

\* No call takes a type away.
LEMMA PlainlyGrows ==
  ASSUME Inv, Plainly
  PROVE  DOMAIN ft \subseteq DOMAIN ft'
<1>1. ft \in Seq(FieldType) /\ DOMAIN ft = 1..Len(ft) /\ Len(ft) \in Nat
  BY DEF Inv, Good, Formed
<1>2. ASSUME NEW t, Create(t) PROVE DOMAIN ft \subseteq DOMAIN ft'
  <2>1. ft' = Append(ft, t)
    BY <1>2 DEF Create
  <2>2. DOMAIN ft' = 1..(Len(ft) + 1)
    BY <1>1, <2>1
  <2>3. QED
    BY <1>1, <2>2
<1>3. CASE Creation
  BY <1>2, <1>3 DEF Creation, CreateInteger, CreateFloat, CreateString, CreateStructure,
    CreateEnumeration, CreateArray, CreateSequence, CreateVariant
<1>4. ASSUME NEW n \in Types, NEW t, Update(n, t) PROVE DOMAIN ft \subseteq DOMAIN ft'
  BY <1>4 DEF Update
<1>5. ASSUME NEW n \in Types, Setter(n) PROVE DOMAIN ft \subseteq DOMAIN ft'
  <2>1. CASE \E o \in ByteOrders : SetByteOrder(n, o)
    BY <2>1 DEF SetByteOrder, Types
  <2>2. CASE \E d \in Data : \/ SetIntegerData(n, d) \/ SetFloatData(n, d)
                             \/ SetStringEncoding(n, d) \/ SetTagName(n, d)
    BY <1>4, <2>2 DEF SetIntegerData, SetFloatData, SetStringEncoding, SetTagName
  <2>3. CASE (\E s \in BOOLEAN : SetSigned(n, s)) \/ SetMappedClockClass(n)
    BY <1>4, <2>3 DEF SetSigned, SetMappedClockClass
  <2>4. CASE \E s \in BOOLEAN, l \in Names, lo \in Values, hi \in Values : AddMapping(n, s, l, lo, hi)
    BY <1>4, <2>4 DEF AddMapping
  <2>5. CASE \E name \in Names, m \in Types : AddField(n, name, m) \/ AddChoice(n, name, m)
    BY <1>4, <2>5 DEF AddField, AddChoice, AddMember
  <2>6. CASE \E a \in Alignments : SetAlignment(n, a)
    BY <1>4, <2>6 DEF SetAlignment
  <2>7. QED
    BY <1>5, <2>1, <2>2, <2>3, <2>4, <2>5, <2>6 DEF Setter
<1>6. ASSUME NEW n \in Types, GetAlignment(n) \/ Freeze(n) \/ Validate(n) \/ FindChoice(n)
      PROVE  DOMAIN ft \subseteq DOMAIN ft'
  BY <1>6 DEF GetAlignment, Freeze, Validate, FindChoice, Types
<1>7. ASSUME NEW n \in Types, Copy(n) PROVE DOMAIN ft \subseteq DOMAIN ft'
  BY <1>7, CopyLeaves DEF Inv
<1>8. QED
  BY <1>3, <1>5, <1>6, <1>7 DEF Plainly

LEMMA NextLeaves ==
  ASSUME Inv, Plainly
  PROVE  Leaves /\ copied' \in {<<>>} \cup (Types' \X Types') /\ mapped' = mapped
<1>1. Good(ft) /\ Len(ft) <= MaxTypes
  BY DEF Inv
<1>2. CASE Creation
  BY <1>1, <1>2, CreationLeaves DEF Clears
<1>3. ASSUME NEW n \in Types, Setter(n) PROVE Leaves /\ Clears
  BY <1>1, <1>3, SetterLeaves
<1>4. ASSUME NEW n \in Types, GetAlignment(n) PROVE Leaves /\ Clears
  BY <1>1, <1>4, GetterOfAlignment
<1>5. ASSUME NEW n \in Types, Freeze(n) PROVE Leaves /\ Clears
  BY <1>1, <1>5, FreezeLeaves
<1>6. ASSUME NEW n \in Types, Validate(n) PROVE Leaves /\ Clears
  BY <1>1, <1>6, ValidateLeaves
<1>7. ASSUME NEW n \in Types, FindChoice(n) PROVE Leaves /\ Clears
  BY <1>1, <1>7, FinderOfChoices
<1>8. ASSUME NEW n \in Types, Copy(n)
      PROVE  Leaves /\ copied' \in Types' \X Types' /\ mapped' = mapped
  BY <1>1, <1>8, CopyLeaves
<1>9. QED
  BY <1>2, <1>3, <1>4, <1>5, <1>6, <1>7, <1>8 DEF Plainly, Clears

\* No step makes a type contain itself, and a copy is equal when it is made.
LEMMA NextRanked ==
  ASSUME Inv, Plainly
  PROVE  Ranked(ft') /\ CopyIsEqual'
<1>1. Good(ft) /\ Formed(ft) /\ Ranked(ft) /\ Len(ft) <= MaxTypes
  BY DEF Inv, Good
<1>2. Clears => CopyIsEqual'
  BY DEF CopyIsEqual, Clears
<1>3. CASE Creation
  BY <1>1, <1>2, <1>3, CreationLeaves, CreationRanked
<1>4. ASSUME NEW n \in Types, Setter(n) PROVE Ranked(ft') /\ CopyIsEqual'
  <2>1. Clears
    BY <1>1, <1>4, SetterLeaves
  <2>2. CASE \E name \in Names, m \in Types : AddField(n, name, m) \/ AddChoice(n, name, m)
    BY <1>1, <1>2, <2>1, <2>2, MembersRanked
  <2>3. CASE \E o \in ByteOrders : SetByteOrder(n, o)
    BY <1>1, <1>2, <2>1, <2>3, OthersKeepParts, KeptRanks
  <2>4. QED
    <3>1. CASE ~(\E o \in ByteOrders : SetByteOrder(n, o))
               /\ ~(\E name \in Names, m \in Types : AddField(n, name, m) \/ AddChoice(n, name, m))
      <4>1. KeepsParts(ft, ft')
        BY <1>1, <1>4, <3>1, SettersKeepParts DEF Setter
      <4>2. QED
        BY <1>1, <1>2, <2>1, <4>1, KeptRanks
    <3>2. QED
      BY <2>2, <2>3, <3>1
<1>5. ASSUME NEW n \in Types, GetAlignment(n) \/ Freeze(n) \/ Validate(n) \/ FindChoice(n)
      PROVE  Ranked(ft') /\ CopyIsEqual'
  <2>1. Clears
    BY <1>1, <1>5, GetterOfAlignment, FreezeLeaves, ValidateLeaves, FinderOfChoices
  <2>2. KeepsParts(ft, ft')
    BY <1>1, <1>5, OthersKeepParts, FinderOfChoices
  <2>3. QED
    BY <1>1, <1>2, <2>1, <2>2, KeptRanks
<1>6. ASSUME NEW n \in Types, Copy(n) PROVE Ranked(ft') /\ CopyIsEqual'
  BY <1>1, <1>6, CopyEquals
<1>7. QED
  BY <1>3, <1>4, <1>5, <1>6 DEF Plainly

LEMMA NextSplits ==
  ASSUME Next
  PROVE  \/ Plainly
         \/ \E n \in Types : \E i \in DOMAIN ft[n].kids : MapClockClass(n, i)
         \/ \E n \in Types, m \in Types : SetTagFieldType(n, m)
BY DEF Next, Plainly

\* The writer's own setters keep the invariant and the layouts.
LEMMA MapKeeps ==
  ASSUME Inv, NEW n \in Types, NEW i \in DOMAIN ft[n].kids, MapClockClass(n, i)
  PROVE  Inv' /\ KeepsLayouts
<1> DEFINE new == Len(ft) + 1
<1>1. Good(ft) /\ Formed(ft) /\ Ranked(ft) /\ Len(ft) <= MaxTypes /\ mapped \subseteq DOMAIN ft
  BY DEF Inv, Good, Types
<1>2. Remaps(n, i, new)
  BY <1>1, MapRemaps
<1> HIDE DEF new
<1>3. Good(ft)' /\ Ranked(ft') /\ KeepsLayouts
  BY <1>1, <1>2, RemapsGood, RemapsRanked, RemapsKeeps
<1>4. Len(ft') <= MaxTypes /\ mapped' \subseteq DOMAIN ft' /\ copied' = <<>>
  BY <1>1, <1>2 DEF Remaps
<1>5. QED
  BY <1>3, <1>4 DEF Inv, Types, CopyIsEqual, Ranked, IsRank

LEMMA TagKeeps ==
  ASSUME Inv, NEW n \in Types, NEW m \in Types, SetTagFieldType(n, m)
  PROVE  Inv' /\ KeepsLayouts
<1>1. Good(ft) /\ Ranked(ft) /\ Len(ft) <= MaxTypes /\ mapped \subseteq DOMAIN ft
  BY DEF Inv, Types
<1>2. Good(ft') /\ Len(ft') <= MaxTypes /\ Ranked(ft') /\ Clears /\ KeepsLayouts
  BY <1>1, TagSetter
<1>3. Good(ft)'
  BY <1>2, StillGood DEF Clears
<1>4. DOMAIN ft' = DOMAIN ft
  BY DEF SetTagFieldType, Update
<1>5. QED
  BY <1>1, <1>2, <1>3, <1>4 DEF Inv, Types, CopyIsEqual, Clears, Ranked, IsRank

LEMMA StepKeepsInv ==
  ASSUME Inv, [Next]_vars
  PROVE  Inv'
<1>1. CASE Plainly
  <2>1. Leaves /\ copied' \in {<<>>} \cup (Types' \X Types') /\ mapped' = mapped
    BY <1>1, NextLeaves
  <2>2. Ranked(ft') /\ CopyIsEqual'
    BY <1>1, NextRanked
  <2>3. Good(ft)'
    BY <2>1, StillGood DEF Leaves
  <2>4. mapped' \subseteq Types'
    <3>1. Formed(ft) /\ Formed(ft') /\ mapped \subseteq DOMAIN ft
      BY <2>1 DEF Leaves, Inv, Good, Types
    <3>2. DOMAIN ft \subseteq DOMAIN ft'
      BY <1>1, PlainlyGrows DEF Inv
    <3>3. QED
      BY <2>1, <3>1, <3>2 DEF Types
  <2>5. QED
    BY <2>1, <2>2, <2>3, <2>4 DEF Leaves, Inv, Ranked, IsRank
<1>2. CASE UNCHANGED vars
  <2>1. ft' = ft /\ copied' = copied /\ mapped' = mapped
    BY <1>2 DEF vars
  <2>2. CopyIsEqual'
    BY <2>1 DEF Inv, CopyIsEqual
  <2>3. Good(ft)'
    BY <2>1, StillGood DEF Inv
  <2>4. QED
    BY <2>1, <2>2, <2>3 DEF Inv, Types, Ranked, IsRank
<1>3. QED
  BY <1>1, <1>2, NextSplits, MapKeeps, TagKeeps

LEMMA StepKeepsLayouts ==
  ASSUME Inv, Next
  PROVE  KeepsLayouts
<1>1. CASE Plainly
  <2>1. Keeps(ft, ft')
    BY <1>1, NextLeaves DEF Leaves
  <2>2. QED
    BY <2>1 DEF KeepsLayouts, Keeps, Types
<1>2. QED
  BY <1>1, NextSplits, MapKeeps, TagKeeps

THEOREM Invariance == Spec => []Inv
<1>1. Init => Inv
  BY StartsGood
<1>2. Inv /\ [Next]_vars => Inv'
  BY StepKeepsInv
<1>3. QED
  BY <1>1, <1>2, PTL DEF Spec

(***************************************************************************)
(* The theorems.                                                           *)
(***************************************************************************)

\* Field types are what they are declared as and refer to field types that
\* exist, which the calls of field-types.c take for granted, and a copy is
\* complete: all that it refers to was copied with it.
THEOREM TypeCorrect == Spec => []TypeOK
<1>1. Inv => TypeOK
  BY InvHolds DEF IInv
<1>2. QED
  BY <1>1, Invariance, PTL

\* What bt_ctf_field_type_common_freeze() has frozen is frozen all the way
\* down, whatever was shared with other types or frozen before, and what
\* bt_ctf_field_type_common_validate() has marked is frozen and valid below.
\* The only types below that may be neither are the copies with a clock class
\* that a stream class has put into a structure, frozen or not: this is as much
\* of the claim of field-types.h:99 as the code keeps.
THEOREM DeepFlags == Spec => []FlagsAreDeep
<1>1. Inv => FlagsAreDeep
  BY InvHolds DEF IInv
<1>2. QED
  BY <1>1, Invariance, PTL

\* What a frozen type has kept instead of computing it again, its alignment,
\* the overlap of its mappings and its validity, is what would be computed: no
\* setter can reach a type that these depend on, but for a mapped timestamp.
THEOREM TrueCaches == Spec => []CachesAreTrue
<1>1. Inv => CachesAreTrue
  BY InvHolds DEF IInv
<1>2. QED
  BY <1>1, Invariance, PTL

\* The setters without a frozen check included, no call of field-types.c thaws a
\* frozen type or changes the layout that it describes, but that an integer in a
\* structure gives way to its copy with a clock class and that the tag of a
\* variant which is not valid yet is resolved.
THEOREM LayoutsStay == Spec => FrozenUnchanged
<1>1. Inv /\ [Next]_vars => [KeepsLayouts]_vars
  BY StepKeepsLayouts
<1>2. QED
  BY <1>1, Invariance, PTL DEF Spec, FrozenUnchanged

\* What bt_ctf_field_type_copy() returns has no type in common with the original:
\* the copies of tags and of shared members are in the places of the originals'.
\* It compares equal, unless a mapped timestamp has outgrown the alignment that a
\* frozen structure keeps.  Nothing is said of the ranges of choices, whose
\* memory the two share.
THEOREM CopiesAreEqual == Spec => []CopyIsEqual
<1>1. Inv => CopyIsEqual
  BY DEF Inv
<1>2. QED
  BY <1>1, Invariance, PTL
=============================================================================
