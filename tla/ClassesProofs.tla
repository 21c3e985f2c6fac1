--------------------------- MODULE ClassesProofs ---------------------------
(***************************************************************************)
(* Theorems about the classes of a CTF writer, for any number of stream,   *)
(* event and clock classes: what is frozen stays, one clock per stream     *)
(* class, what a trace lists is valid, and trees live and die as one.      *)
(***************************************************************************)
EXTENDS Classes, TLAPS, SequenceTheorems, FiniteSetTheorems

(***************************************************************************)
(* Scopes, clocks and types.                                               *)
(***************************************************************************)

\* The objects are of four sorts, and none of them is None or a clock class.
LEMMA Sorts ==
  /\ Objects = {Writer, Trace} \union StreamClasses \union EventClasses
  /\ None \notin Objects /\ None \notin Clocks /\ None \notin Words
  /\ Writer # Trace
  /\ \A s \in StreamClasses : s # Writer /\ s # Trace /\ s \notin EventClasses /\ s \notin Clocks
  /\ \A e \in EventClasses : e # Writer /\ e # Trace /\ e \notin StreamClasses /\ e \notin Clocks
  /\ Trace \notin Clocks /\ Writer \notin Clocks
BY ClassesAssumption DEF Objects

LEMMA ScopeSorts ==
  /\ <<Trace, "packet_header">> \in Scopes
  /\ \A s \in StreamClasses : /\ <<s, "packet_context">> \in Scopes
                              /\ <<s, "event_header">> \in Scopes
                              /\ <<s, "event_context">> \in Scopes
  /\ \A e \in EventClasses : <<e, "context">> \in Scopes /\ <<e, "payload">> \in Scopes
  /\ \A c \in Scopes : c = <<c[1], c[2]>> /\ c[1] \in Objects \ {Writer}
BY Sorts DEF Scopes, Objects

\* The scopes of a stream class that the format has rules for.
LEMMA StreamScopes ==
  ASSUME NEW s \in StreamClasses, NEW c \in {<<s, "packet_context">>, <<s, "event_header">>}
  PROVE  c \in Scopes /\ c[1] = s
<1>1. CASE c = <<s, "packet_context">>
  BY <1>1, ScopeSorts
<1>2. CASE c = <<s, "event_header">>
  BY <1>2, ScopeSorts
<1>3. QED
  BY <1>1, <1>2

\* The scopes of one object.
LEMMA ScopesOfOne ==
  ASSUME NEW x
  PROVE  /\ \A c : c \in ScopesOf(x) <=> c \in Scopes /\ c[1] = x
         /\ ScopesOf(x) \subseteq Scopes
BY DEF ScopesOf

LEMMA ClocksInMembers ==
  ASSUME NEW xs, NEW k
  PROVE  k \in ClocksIn(xs) <=> \E c \in Scopes : c[1] \in xs /\ k \in type[c].clocks
<1>1. \A c : c \in UNION {ScopesOf(x) : x \in xs} <=> c \in Scopes /\ c[1] \in xs
  BY DEF ScopesOf
<1>2. QED
  BY <1>1 DEF ClocksIn

\* A single clock class: the one that is expected, or the first one met.
LEMMA OneClockFound ==
  ASSUME ClassesAssumption, TypeOK, NEW xs, NEW c \in Clocks \union {None}, SingleClock(xs, c)
  PROVE  /\ TheClock(xs, c) \in Clocks \union {None}
         /\ c # None => TheClock(xs, c) = c
         /\ ClocksIn(xs) \subseteq Some(TheClock(xs, c))
<1> DEFINE all == ClocksIn(xs) \union Some(c)
<1>1. ClocksIn(xs) \subseteq Clocks
  <2>1. \A d \in Scopes : type[d].clocks \subseteq Clocks
    BY DEF TypeOK, FieldTypes
  <2>2. QED
    BY <2>1, ClocksInMembers
<1>2. all \subseteq Clocks
  BY <1>1 DEF Some
<1>3. IsFiniteSet(all) /\ Cardinality(all) \in Nat
  BY <1>2, FS_Subset, FS_CardinalityType DEF ClassesAssumption
<1>4. Cardinality(all) = 0 \/ Cardinality(all) = 1
  BY <1>3 DEF SingleClock
<1>5. all = {} \/ \E k : all = {k}
  BY <1>3, <1>4, FS_EmptySet, FS_Singleton
<1>6. TheClock(xs, c) = IF all = {} THEN None ELSE CHOOSE k \in all : TRUE
  BY DEF TheClock
<1>7. CASE all = {}
  BY <1>6, <1>7 DEF Some
<1>8. CASE all # {}
  <2>1. PICK k : all = {k}
    BY <1>5, <1>8
  <2>2. TheClock(xs, c) = k
    BY <1>6, <1>8, <2>1
  <2>3. k # None
    BY <1>2, <2>1, Sorts
  <2>4. QED
    BY <1>2, <2>1, <2>2, <2>3 DEF Some
<1>9. QED
  BY <1>7, <1>8

(***************************************************************************)
(* Lines: from an object up to the root of its tree.                       *)
(***************************************************************************)

HeapType ==
  [ref : [Objects -> Nat], parent : [Objects \union {None} -> Objects \union {None}],
   gone : SUBSET Objects]

\* An object's parents, by its sort.
LEMMA Parents ==
  ASSUME NEW h \in HeapType, Shape(h)
  PROVE  /\ h.parent[None] = None /\ h.parent[Writer] = None /\ h.parent[Trace] = Writer
         /\ \A s \in StreamClasses :
              h.parent[s] = None \/ h.parent[s] = Trace
         /\ \A e \in EventClasses :
              h.parent[e] = None \/ h.parent[e] \in StreamClasses
         /\ \A x \in Objects : h.parent[h.parent[h.parent[h.parent[x]]]] = None
         /\ \A x \in Objects : h.parent[x] \in Objects \union {None}
<1>1. /\ h.parent[None] = None /\ h.parent[Writer] = None /\ h.parent[Trace] = Writer
      /\ \A s \in StreamClasses : h.parent[s] = None \/ h.parent[s] = Trace
      /\ \A e \in EventClasses : h.parent[e] = None \/ h.parent[e] \in StreamClasses
  BY DEF Shape
<1>2. ASSUME NEW x \in Objects
      PROVE  h.parent[h.parent[h.parent[h.parent[x]]]] = None
  BY <1>1, Sorts
<1>3. QED
  BY <1>1, <1>2 DEF HeapType

\* What is on a line, and what is among its first objects.
LEMMA OnLine ==
  ASSUME NEW h \in HeapType, Shape(h), NEW o \in Objects, NEW n \in Nat
  PROVE  /\ ToSet(Line(h, o)) = {o, h.parent[o], h.parent[h.parent[o]], h.parent[h.parent[h.parent[o]]]}
         /\ \A x : x \in Run(h, Line(h, o), n) <=>
              /\ x # None
              /\ \/ x = o
                 \/ x = h.parent[o] /\ h.ref[o] = n
                 \/ x = h.parent[h.parent[o]] /\ h.ref[o] = n /\ h.ref[h.parent[o]] = n
                 \/ /\ x = h.parent[h.parent[h.parent[o]]]
                    /\ h.ref[o] = n /\ h.ref[h.parent[o]] = n /\ h.ref[h.parent[h.parent[o]]] = n
<1> DEFINE p == h.parent[o]
           pp == h.parent[p]
           ppp == h.parent[pp]
           line == <<o, p, pp, ppp>>
<1>1. Line(h, o) = line
  BY DEF Line
<1>2. DOMAIN line = 1..4 /\ line[1] = o /\ line[2] = p /\ line[3] = pp /\ line[4] = ppp
  OBVIOUS
<1> HIDE DEF p, pp, ppp, line
<1>3. ToSet(line) = {o, p, pp, ppp}
  <2>1. ToSet(line) = {line[i] : i \in 1..4}
    BY <1>2 DEF ToSet
  <2>2. 1..4 = {1, 2, 3, 4}
    OBVIOUS
  <2>3. QED
    BY <1>2, <2>1, <2>2
<1>4. ASSUME NEW x
      PROVE  x \in Run(h, line, n) <=>
               \E k \in 1..4 : x = line[k] /\ x # None /\ \A j \in 1..(k - 1) : h.ref[line[j]] = n
  BY <1>2 DEF Run
<1>5. ASSUME NEW x
      PROVE  (\E k \in 1..4 : x = line[k] /\ x # None /\ \A j \in 1..(k - 1) : h.ref[line[j]] = n) <=>
              /\ x # None
              /\ \/ x = o
                 \/ x = p /\ h.ref[o] = n
                 \/ x = pp /\ h.ref[o] = n /\ h.ref[p] = n
                 \/ x = ppp /\ h.ref[o] = n /\ h.ref[p] = n /\ h.ref[pp] = n
  <2> DEFINE Q(k) == x = line[k] /\ x # None /\ \A j \in 1..(k - 1) : h.ref[line[j]] = n
  <2>1. Q(1) <=> x # None /\ x = o
    BY <1>2
  <2>2. Q(2) <=> x # None /\ x = p /\ h.ref[o] = n
    BY <1>2
  <2>3. Q(3) <=> x # None /\ x = pp /\ h.ref[o] = n /\ h.ref[p] = n
    <3>1. 1..(3 - 1) = {1, 2}
      OBVIOUS
    <3>2. QED
      BY <1>2, <3>1
  <2>4. Q(4) <=> x # None /\ x = ppp /\ h.ref[o] = n /\ h.ref[p] = n /\ h.ref[pp] = n
    <3>1. 1..(4 - 1) = {1, 2, 3}
      OBVIOUS
    <3>2. QED
      BY <1>2, <3>1
  <2> HIDE DEF Q
  <2>5. (\E k \in 1..4 : Q(k)) <=> Q(1) \/ Q(2) \/ Q(3) \/ Q(4)
    <3>1. \A k \in 1..4 : k = 1 \/ k = 2 \/ k = 3 \/ k = 4
      OBVIOUS
    <3>2. QED
      BY <3>1
  <2>6. QED
    BY <2>1, <2>2, <2>3, <2>4, <2>5 DEF Q
<1>6. QED
  BY <1>1, <1>3, <1>4, <1>5 DEF p, pp, ppp

\* The first objects of a line are a chain: the object, then the parent of
\* each that has the count n.
LEMMA RunIsChain ==
  ASSUME NEW h \in HeapType, Shape(h), NEW o \in Objects, NEW n \in Nat
  PROVE  LET R == Run(h, Line(h, o), n)
         IN  /\ R \subseteq Objects /\ o \in R
             /\ \A x \in Objects \ {o} : x \in R <=> \E c \in R : h.parent[c] = x /\ h.ref[c] = n
             /\ \A c, d \in R : h.parent[c] = h.parent[d] /\ h.parent[c] # None => c = d
             /\ \A c \in R : h.parent[c] # o
<1> DEFINE R == Run(h, Line(h, o), n)
           p == h.parent[o]
           pp == h.parent[p]
           ppp == h.parent[pp]
<1>1. \A x : x \in R <=>
        /\ x # None
        /\ \/ x = o
           \/ x = p /\ h.ref[o] = n
           \/ x = pp /\ h.ref[o] = n /\ h.ref[p] = n
           \/ x = ppp /\ h.ref[o] = n /\ h.ref[p] = n /\ h.ref[pp] = n
  BY OnLine
<1>2. /\ p \in Objects \union {None} /\ pp \in Objects \union {None} /\ ppp \in Objects \union {None}
      /\ h.parent[ppp] = None /\ h.parent[None] = None
  BY Parents
<1>3. /\ p # o /\ pp # o /\ ppp # o
      /\ p # None => pp # p /\ ppp # p
      /\ pp # None => ppp # pp
  BY Parents, Sorts
<1> HIDE DEF R
<1>4. R \subseteq Objects /\ o \in R
  BY <1>1, <1>2, Sorts
<1>5. \A c \in R : h.parent[c] # o
  BY <1>1, <1>2, <1>3, Sorts
<1>6. ASSUME NEW c \in R, NEW d \in R, h.parent[c] = h.parent[d], h.parent[c] # None
      PROVE  c = d
  BY <1>1, <1>2, <1>3, <1>6
<1>7. ASSUME NEW x \in Objects \ {o}
      PROVE  x \in R <=> \E c \in R : h.parent[c] = x /\ h.ref[c] = n
  <2>1. x # None
    BY Sorts
  <2>2. ASSUME x \in R PROVE \E c \in R : h.parent[c] = x /\ h.ref[c] = n
    BY <1>1, <1>2, <1>3, <2>1, <2>2, Sorts
  <2>3. ASSUME NEW c \in R, h.parent[c] = x, h.ref[c] = n PROVE x \in R
    BY <1>1, <1>2, <1>3, <2>1, <2>3
  <2>4. QED
    BY <2>2, <2>3
<1>8. QED
  BY <1>4, <1>5, <1>6, <1>7 DEF R

\* The root of a tree is the root of each object's parent.
LEMMA Roots ==
  ASSUME NEW h \in HeapType, Shape(h), NEW o \in Objects
  PROVE  /\ RootOf(h, o) \in Objects /\ h.parent[RootOf(h, o)] = None
         /\ RootOf(h, o) = IF h.parent[o] = None THEN o ELSE RootOf(h, h.parent[o])
<1> DEFINE Line4(x) == {x, h.parent[x], h.parent[h.parent[x]], h.parent[h.parent[h.parent[x]]]}
<1>1. ASSUME NEW x \in Objects
      PROVE  RootOf(h, x) = CHOOSE y \in Line4(x) \ {None} : h.parent[y] = None
  <2>1. ToSet(Line(h, x)) = Line4(x)
    BY OnLine
  <2>2. QED
    BY <2>1 DEF RootOf
<1>2. ASSUME NEW x \in Objects
      PROVE  \A y, z \in Line4(x) \ {None} : h.parent[y] = None /\ h.parent[z] = None => y = z
  BY Parents, Sorts
<1>3. ASSUME NEW x \in Objects
      PROVE  /\ RootOf(h, x) \in Line4(x) \ {None} /\ h.parent[RootOf(h, x)] = None
             /\ \A y \in Line4(x) \ {None} : h.parent[y] = None => y = RootOf(h, x)
  <2>1. \E y \in Line4(x) \ {None} : h.parent[y] = None
    BY Parents, Sorts
  <2>2. QED
    BY <1>1, <1>2, <2>1
<1>4. RootOf(h, o) \in Objects
  BY <1>3, Parents
<1>5. CASE h.parent[o] = None
  BY <1>3, <1>5, Sorts
<1>6. CASE h.parent[o] # None
  <2>1. h.parent[o] \in Objects
    BY <1>6, Parents
  <2>2. RootOf(h, h.parent[o]) \in Line4(o) \ {None}
    BY <1>3, <2>1, Parents
  <2>3. h.parent[RootOf(h, h.parent[o])] = None
    BY <1>3, <2>1
  <2>4. RootOf(h, h.parent[o]) = RootOf(h, o)
    BY <1>3, <2>2, <2>3
  <2>5. QED
    BY <1>3, <1>4, <1>6, <2>4
<1>7. QED
  BY <1>3, <1>4, <1>5, <1>6

(***************************************************************************)
(* Reference counts.                                                       *)
(***************************************************************************)

LEMMA KidsFinite ==
  ASSUME NEW h, NEW x
  PROVE  IsFiniteSet(HeldKids(h, x)) /\ Cardinality(HeldKids(h, x)) \in Nat
<1>1. IsFiniteSet(Objects)
  <2>1. IsFiniteSet({Writer, Trace})
    <3>1. {Writer, Trace} = {Writer} \union {Trace}
      OBVIOUS
    <3>2. IsFiniteSet({Writer}) /\ IsFiniteSet({Trace})
      BY FS_Singleton
    <3>3. QED
      BY <3>1, <3>2, FS_Union
  <2>2. IsFiniteSet({Writer, Trace} \union StreamClasses)
    BY <2>1, ClassesAssumption, FS_Union
  <2>3. IsFiniteSet(({Writer, Trace} \union StreamClasses) \union EventClasses)
    BY <2>2, ClassesAssumption, FS_Union
  <2>4. QED
    BY <2>3 DEF Objects
<1>2. HeldKids(h, x) \subseteq Objects
  BY DEF HeldKids
<1>3. QED
  BY <1>1, <1>2, FS_Subset, FS_CardinalityType

\* The parent of what is held is held, and what is held is held by the client
\* or by a child that is held.
LEMMA HeldUpwards ==
  ASSUME NEW h \in HeapType, NEW hold \in [Objects -> Nat], Counted(h, hold), NEW x \in Objects
  PROVE  /\ h.ref[x] > 0 <=> hold[x] > 0 \/ \E c \in Objects : h.parent[c] = x /\ h.ref[c] > 0
         /\ h.ref[x] > 0 /\ h.parent[x] # None => h.ref[h.parent[x]] > 0
<1>1. ASSUME NEW y \in Objects
      PROVE  h.ref[y] > 0 <=> hold[y] > 0 \/ \E c \in Objects : h.parent[c] = y /\ h.ref[c] > 0
  <2>1. h.ref[y] = hold[y] + Cardinality(HeldKids(h, y)) /\ hold[y] \in Nat
    BY DEF Counted
  <2>2. Cardinality(HeldKids(h, y)) \in Nat
    BY KidsFinite
  <2>3. Cardinality(HeldKids(h, y)) = 0 <=> HeldKids(h, y) = {}
    BY KidsFinite, FS_EmptySet
  <2>4. HeldKids(h, y) # {} <=> \E c \in Objects : h.parent[c] = y /\ h.ref[c] > 0
    BY DEF HeldKids
  <2>5. QED
    BY <2>1, <2>2, <2>3, <2>4
<1>2. h.parent[x] \in Objects \union {None}
  BY DEF HeapType
<1>3. QED
  BY <1>1, <1>2

\* What is taken is counted: o has a holder more than its count says.
LEMMA TakenCounts ==
  ASSUME NEW h \in HeapType, Shape(h), NEW hold \in [Objects -> Nat], NEW o \in Objects,
         \A x \in Objects :
           h.ref[x] + (IF x = o THEN 1 ELSE 0) = hold[x] + Cardinality(HeldKids(h, x))
  PROVE  /\ Taken(h, o) \in HeapType /\ Taken(h, o).parent = h.parent /\ Taken(h, o).gone = h.gone
         /\ Counted(Taken(h, o), hold)
         /\ \A x \in Objects : Taken(h, o).ref[x] >= h.ref[x]
         /\ \A x \in Objects : Taken(h, o).ref[x] > 0 =>
              h.ref[x] > 0 \/ x \in Run(h, Line(h, o), 0)
<1> DEFINE R == Run(h, Line(h, o), 0)
           g == Taken(h, o)
<1>1. /\ R \subseteq Objects /\ o \in R
      /\ \A x \in Objects \ {o} : x \in R <=> \E c \in R : h.parent[c] = x /\ h.ref[c] = 0
      /\ \A c, d \in R : h.parent[c] = h.parent[d] /\ h.parent[c] # None => c = d
      /\ \A c \in R : h.parent[c] # o
  BY RunIsChain
<1>2. /\ g.parent = h.parent /\ g.gone = h.gone
      /\ g.ref = [x \in Objects |-> h.ref[x] + IF x \in R THEN 1 ELSE 0]
      /\ g \in HeapType
  BY DEF Taken, HeapType
<1> HIDE DEF R, g
<1>3. ASSUME NEW x \in Objects
      PROVE  g.ref[x] = hold[x] + Cardinality(HeldKids(g, x))
  <2>1. \A c \in Objects : c \in HeldKids(g, x) <=>
           c \in HeldKids(h, x) \/ (c \in R /\ h.parent[c] = x /\ h.ref[c] = 0)
    BY <1>2 DEF HeldKids, HeapType
  <2>2. HeldKids(g, x) \subseteq Objects /\ HeldKids(h, x) \subseteq Objects
    BY DEF HeldKids
  <2>3. x # None
    BY Sorts
  <2>4. h.ref[x] + (IF x = o THEN 1 ELSE 0) = hold[x] + Cardinality(HeldKids(h, x))
    OBVIOUS
  <2>5. h.ref[x] \in Nat /\ hold[x] \in Nat /\ Cardinality(HeldKids(h, x)) \in Nat
    BY KidsFinite DEF HeapType
  <2>6. CASE x = o
    <3>1. HeldKids(g, x) = HeldKids(h, x)
      BY <1>1, <2>1, <2>2, <2>6
    <3>2. QED
      BY <1>1, <1>2, <2>4, <2>5, <2>6, <3>1
  <2>7. CASE x \in R /\ x # o
    <3>1. PICK c \in R : h.parent[c] = x /\ h.ref[c] = 0
      BY <1>1, <2>7
    <3>2. HeldKids(g, x) = HeldKids(h, x) \union {c}
      BY <1>1, <2>1, <2>2, <2>3, <3>1
    <3>3. c \notin HeldKids(h, x)
      BY <3>1 DEF HeldKids
    <3>4. Cardinality(HeldKids(g, x)) = Cardinality(HeldKids(h, x)) + 1
      BY <3>2, <3>3, KidsFinite, FS_AddElement
    <3>5. QED
      BY <1>2, <2>4, <2>5, <2>7, <3>4
  <2>8. CASE x \notin R
    <3>1. HeldKids(g, x) = HeldKids(h, x)
      BY <1>1, <2>1, <2>2, <2>8
    <3>2. QED
      BY <1>1, <1>2, <2>4, <2>5, <2>8, <3>1
  <2>9. QED
    BY <2>6, <2>7, <2>8
<1>4. \A x \in Objects : h.ref[x] \in Nat
  BY DEF HeapType
<1>5. QED
  BY <1>2, <1>3, <1>4 DEF Counted, g, R

\* What is put is counted: the count of o says a holder more than there is.
LEMMA LessCounts ==
  ASSUME NEW h \in HeapType, Shape(h), NEW hold \in [Objects -> Nat], NEW o \in Objects,
         \A x \in Objects :
           h.ref[x] = hold[x] + Cardinality(HeldKids(h, x)) + (IF x = o THEN 1 ELSE 0),
         NEW g,
         g = [h EXCEPT !.ref = [x \in Objects |->
                                  @[x] - IF x \in Run(h, Line(h, o), 1) THEN 1 ELSE 0]]
  PROVE  /\ g \in HeapType /\ g.parent = h.parent /\ g.gone = h.gone
         /\ Counted(g, hold)
<1> DEFINE R == Run(h, Line(h, o), 1)
<1>1. /\ R \subseteq Objects /\ o \in R
      /\ \A x \in Objects \ {o} : x \in R <=> \E c \in R : h.parent[c] = x /\ h.ref[c] = 1
      /\ \A c, d \in R : h.parent[c] = h.parent[d] /\ h.parent[c] # None => c = d
      /\ \A c \in R : h.parent[c] # o
  BY RunIsChain
<1> HIDE DEF R
<1>2. \A x \in Objects : h.ref[x] \in Nat /\ hold[x] \in Nat /\ Cardinality(HeldKids(h, x)) \in Nat
  BY KidsFinite DEF HeapType
<1>3. ASSUME NEW x \in R
      PROVE  h.ref[x] > 0
  <2>1. CASE x = o
    BY <1>2, <2>1
  <2>2. CASE x # o
    <3>1. PICK c \in R : h.parent[c] = x /\ h.ref[c] = 1
      BY <1>1, <2>2
    <3>2. c \in HeldKids(h, x)
      BY <1>1, <3>1 DEF HeldKids
    <3>3. Cardinality(HeldKids(h, x)) # 0
      BY <3>2, KidsFinite, FS_EmptySet
    <3>4. QED
      BY <1>1, <1>2, <2>2, <3>3
  <2>3. QED
    BY <2>1, <2>2
<1>4. /\ g.parent = h.parent /\ g.gone = h.gone
      /\ g.ref = [x \in Objects |-> h.ref[x] - IF x \in R THEN 1 ELSE 0]
      /\ DOMAIN g = DOMAIN h
  BY DEF R, HeapType
<1>5. g \in HeapType
  <2>1. \A x \in Objects : g.ref[x] \in Nat
    BY <1>1, <1>2, <1>3, <1>4
  <2>2. g.ref \in [Objects -> Nat]
    BY <1>4, <2>1
  <2>3. QED
    BY <1>4, <2>2 DEF HeapType
<1>6. ASSUME NEW x \in Objects
      PROVE  g.ref[x] = hold[x] + Cardinality(HeldKids(g, x))
  <2>1. \A c \in Objects : c \in HeldKids(h, x) <=>
           c \in HeldKids(g, x) \/ (c \in R /\ h.parent[c] = x /\ h.ref[c] = 1)
    <3>1. \A c \in Objects : h.ref[c] > 0 <=> g.ref[c] > 0 \/ (c \in R /\ h.ref[c] = 1)
      BY <1>2, <1>3, <1>4
    <3>2. QED
      BY <1>4, <3>1 DEF HeldKids
  <2>2. HeldKids(g, x) \subseteq Objects /\ HeldKids(h, x) \subseteq Objects
    BY DEF HeldKids
  <2>3. x # None
    BY Sorts
  <2>4. h.ref[x] = hold[x] + Cardinality(HeldKids(h, x)) + (IF x = o THEN 1 ELSE 0)
    OBVIOUS
  <2>5. Cardinality(HeldKids(g, x)) \in Nat
    BY KidsFinite
  <2>6. CASE x = o
    <3>1. HeldKids(g, x) = HeldKids(h, x)
      BY <1>1, <2>1, <2>2, <2>6
    <3>2. QED
      BY <1>1, <1>2, <1>4, <2>4, <2>6, <3>1
  <2>7. CASE x \in R /\ x # o
    <3>1. PICK c \in R : h.parent[c] = x /\ h.ref[c] = 1
      BY <1>1, <2>7
    <3>2. HeldKids(h, x) = HeldKids(g, x) \union {c}
      BY <1>1, <2>1, <2>2, <2>3, <3>1
    <3>3. c \notin HeldKids(g, x)
      BY <1>4, <3>1, <1>1 DEF HeldKids
    <3>4. Cardinality(HeldKids(h, x)) = Cardinality(HeldKids(g, x)) + 1
      BY <3>2, <3>3, KidsFinite, FS_AddElement
    <3>5. QED
      BY <1>2, <1>4, <2>4, <2>5, <2>7, <3>4
  <2>8. CASE x \notin R
    <3>1. HeldKids(g, x) = HeldKids(h, x)
      BY <1>1, <2>1, <2>2, <2>8
    <3>2. QED
      BY <1>1, <1>2, <1>4, <2>4, <2>8, <3>1
  <2>9. QED
    BY <2>6, <2>7, <2>8
<1>7. QED
  BY <1>4, <1>5, <1>6 DEF Counted

(***************************************************************************)
(* Trees: the objects with one root.                                       *)
(***************************************************************************)

\* The roots of all sorts of objects.
LEMMA RootsOfSorts ==
  ASSUME NEW h \in HeapType, Shape(h)
  PROVE  /\ RootOf(h, Writer) = Writer /\ RootOf(h, Trace) = Writer
         /\ \A s \in StreamClasses :
              RootOf(h, s) = IF h.parent[s] = None THEN s ELSE Writer
         /\ \A e \in EventClasses :
              RootOf(h, e) = IF h.parent[e] = None THEN e ELSE RootOf(h, h.parent[e])
<1>1. RootOf(h, Writer) = Writer /\ RootOf(h, Trace) = RootOf(h, Writer)
  BY Roots, Parents, Sorts
<1>2. ASSUME NEW s \in StreamClasses
      PROVE  RootOf(h, s) = IF h.parent[s] = None THEN s ELSE Writer
  BY <1>1, Roots, Parents, Sorts
<1>3. ASSUME NEW e \in EventClasses
      PROVE  RootOf(h, e) = IF h.parent[e] = None THEN e ELSE RootOf(h, h.parent[e])
  BY Roots, Sorts
<1>4. QED
  BY <1>1, <1>2, <1>3

\* On a line only the root has no parent.
LEMMA RootOnLine ==
  ASSUME NEW h \in HeapType, Shape(h), NEW o \in Objects, NEW n \in Nat,
         NEW r \in Run(h, Line(h, o), n), h.parent[r] = None
  PROVE  r = RootOf(h, o)
<1>1. /\ r # None
      /\ r \in {o, h.parent[o], h.parent[h.parent[o]], h.parent[h.parent[h.parent[o]]]}
  BY OnLine
<1>2. \A x \in Objects : h.parent[x] # None => h.parent[x] \in Objects /\ RootOf(h, x) = RootOf(h, h.parent[x])
  BY Roots, Parents
<1>3. h.parent[None] = None
  BY Parents
<1>4. \A x \in Objects : h.parent[x] = None => RootOf(h, x) = x
  BY Roots
<1>5. QED
  BY <1>1, <1>2, <1>3, <1>4

\* The root of what is held is held.
LEMMA RootHeld ==
  ASSUME NEW h \in HeapType, Shape(h), NEW hold \in [Objects -> Nat], Counted(h, hold),
         NEW x \in Objects, h.ref[x] > 0
  PROVE  h.ref[RootOf(h, x)] > 0
<1>1. \A y \in Objects : h.ref[y] > 0 /\ h.parent[y] # None => h.ref[h.parent[y]] > 0
  BY HeldUpwards
<1>2. CASE x \in {Writer, Trace} \union StreamClasses
  BY <1>1, <1>2, RootsOfSorts, Parents, Sorts
<1>3. CASE x \in EventClasses
  BY <1>1, <1>3, RootsOfSorts, Parents, Sorts
<1>4. QED
  BY <1>2, <1>3, Sorts

\* What is held is held for the sake of an object that the client holds.
LEMMA HeldByClient ==
  ASSUME NEW h \in HeapType, Shape(h), NEW hold \in [Objects -> Nat], Counted(h, hold),
         NEW x \in Objects, h.ref[x] > 0
  PROVE  \E y \in Objects : RootOf(h, y) = RootOf(h, x) /\ hold[y] > 0
<1>1. \A y \in Objects : h.ref[y] > 0 => hold[y] > 0 \/ \E c \in Objects : h.parent[c] = y /\ h.ref[c] > 0
  BY HeldUpwards
<1>2. \A c \in Objects : h.parent[c] # None => RootOf(h, c) = RootOf(h, h.parent[c])
  BY Roots
<1> DEFINE P(z) == h.ref[z] > 0 => \E y \in Objects : RootOf(h, y) = RootOf(h, z) /\ hold[y] > 0
<1>3. ASSUME NEW e \in EventClasses PROVE P(e)
  <2>1. \A c \in Objects : h.parent[c] # e
    BY Parents, Sorts
  <2>2. QED
    BY <1>1, <2>1, Sorts
<1>4. ASSUME NEW s \in StreamClasses PROVE P(s)
  <2>1. \A c \in Objects : h.parent[c] = s => c \in EventClasses
    BY Parents, Sorts
  <2> HIDE DEF P
  <2>2. \A c \in Objects : h.parent[c] = s => P(c)
    BY <1>3, <2>1
  <2>3. QED
    BY <1>1, <1>2, <2>2, Sorts DEF P
<1>5. P(Trace)
  <2>1. \A c \in Objects : h.parent[c] = Trace => c \in StreamClasses
    BY Parents, Sorts
  <2> HIDE DEF P
  <2>2. \A c \in Objects : h.parent[c] = Trace => P(c)
    BY <1>4, <2>1
  <2>3. QED
    BY <1>1, <1>2, <2>2, Sorts DEF P
<1>6. P(Writer)
  <2>1. \A c \in Objects : h.parent[c] = Writer => c = Trace
    BY Parents, Sorts
  <2> HIDE DEF P
  <2>2. \A c \in Objects : h.parent[c] = Writer => P(c)
    BY <1>5, <2>1
  <2>3. QED
    BY <1>1, <1>2, <2>2, Sorts DEF P
<1>7. QED
  BY <1>3, <1>4, <1>5, <1>6, Sorts

\* The roots are found by the parents alone.
LEMMA SameRoots ==
  ASSUME NEW h, NEW g, g.parent = h.parent
  PROVE  \A x : RootOf(g, x) = RootOf(h, x)
BY DEF RootOf, Line

\* Taking an object of a tree that is not destroyed destroys and revives nothing.
LEMMA TakenGone ==
  ASSUME NEW h \in HeapType, Shape(h), NEW hold \in [Objects -> Nat], NEW o \in Objects,
         \A x \in Objects :
           h.ref[x] + (IF x = o THEN 1 ELSE 0) = hold[x] + Cardinality(HeldKids(h, x)),
         GoneTogether(h), h.ref[RootOf(h, o)] > 0
  PROVE  /\ Taken(h, o) \in HeapType /\ Taken(h, o).parent = h.parent
         /\ Shape(Taken(h, o)) /\ Counted(Taken(h, o), hold) /\ GoneTogether(Taken(h, o))
<1> DEFINE g == Taken(h, o)
<1>1. /\ g \in HeapType /\ g.parent = h.parent /\ g.gone = h.gone
      /\ Counted(g, hold)
      /\ \A x \in Objects : g.ref[x] >= h.ref[x]
      /\ \A x \in Objects : g.ref[x] > 0 => h.ref[x] > 0 \/ x \in Run(h, Line(h, o), 0)
  BY TakenCounts
<1> HIDE DEF g
<1>2. Shape(g)
  BY <1>1 DEF Shape
<1>3. ASSUME NEW x \in Objects
      PROVE  g.ref[RootOf(g, x)] = 0 <=> h.ref[RootOf(h, x)] = 0
  <2>1. RootOf(g, x) = RootOf(h, x)
    BY <1>1, SameRoots
  <2>2. PICK r : r = RootOf(h, x)
    OBVIOUS
  <2>3. r \in Objects /\ h.parent[r] = None
    BY <2>2, Roots
  <2>4. r \in Run(h, Line(h, o), 0) => h.ref[r] > 0
    BY <2>3, RootOnLine
  <2>5. g.ref[r] \in Nat /\ h.ref[r] \in Nat
    BY <1>1, <2>3 DEF HeapType
  <2>6. QED
    BY <1>1, <2>1, <2>2, <2>3, <2>4, <2>5
<1>4. GoneTogether(g)
  BY <1>1, <1>3 DEF GoneTogether
<1>5. QED
  BY <1>1, <1>2, <1>4 DEF g

\* A child that is put under a parent: what was above and below is one tree.
LEMMA AttachedLife ==
  ASSUME NEW h \in HeapType, Shape(h), NEW hold \in [Objects -> Nat],
         Counted(h, hold), GoneTogether(h),
         NEW c, NEW p,
         (c \in StreamClasses /\ p = Trace) \/ (c \in EventClasses /\ p \in StreamClasses),
         h.parent[c] = None, h.ref[c] > 0, h.ref[RootOf(h, p)] > 0
  PROVE  /\ Attached(h, c, p) \in HeapType
         /\ Attached(h, c, p).parent = [h.parent EXCEPT ![c] = p]
         /\ Shape(Attached(h, c, p)) /\ Counted(Attached(h, c, p), hold)
         /\ GoneTogether(Attached(h, c, p))
<1> DEFINE g == [h EXCEPT !.parent[c] = p]
<1>0. c \in Objects /\ p \in Objects /\ c # p /\ c # None
  BY Sorts
<1>1. /\ g \in HeapType /\ g.ref = h.ref /\ g.gone = h.gone
      /\ g.parent = [h.parent EXCEPT ![c] = p]
      /\ \A x \in Objects \union {None} : g.parent[x] = IF x = c THEN p ELSE h.parent[x]
  BY <1>0 DEF HeapType
<1> HIDE DEF g
<1>2. Shape(g)
  BY <1>1, Sorts DEF Shape
<1>3. ASSUME NEW x \in Objects
      PROVE  g.ref[x] + (IF x = p THEN 1 ELSE 0) = hold[x] + Cardinality(HeldKids(g, x))
  <2>1. h.ref[x] = hold[x] + Cardinality(HeldKids(h, x))
    BY DEF Counted
  <2>2. Cardinality(HeldKids(h, x)) \in Nat /\ hold[x] \in Nat /\ IsFiniteSet(HeldKids(h, x))
    BY KidsFinite
  <2>3. CASE x = p
    <3>1. HeldKids(g, x) = HeldKids(h, x) \union {c}
      BY <1>0, <1>1, <2>3 DEF HeldKids
    <3>2. c \notin HeldKids(h, x)
      BY <1>0, <2>3, Sorts DEF HeldKids
    <3>3. Cardinality(HeldKids(g, x)) = Cardinality(HeldKids(h, x)) + 1
      BY <2>2, <3>1, <3>2, FS_AddElement
    <3>4. QED
      BY <1>1, <2>1, <2>2, <2>3, <3>3
  <2>4. CASE x # p
    <3>1. HeldKids(g, x) = HeldKids(h, x)
      BY <1>0, <1>1, <2>4, Sorts DEF HeldKids
    <3>2. QED
      BY <1>1, <2>1, <2>2, <2>4, <3>1
  <2>5. QED
    BY <2>3, <2>4
<1>4. ASSUME NEW x \in Objects
      PROVE  RootOf(g, x) = IF RootOf(h, x) = c THEN RootOf(h, p) ELSE RootOf(h, x)
  <2>1. x # None => g.parent[x] = IF x = c THEN p ELSE h.parent[x]
    BY <1>1
  <2>2. CASE c \in StreamClasses /\ p = Trace
    <3>1. /\ RootOf(h, Writer) = Writer /\ RootOf(h, Trace) = Writer
          /\ RootOf(g, Writer) = Writer /\ RootOf(g, Trace) = Writer
      BY <1>1, <1>2, RootsOfSorts
    <3>2. ASSUME NEW s \in StreamClasses
          PROVE  RootOf(g, s) = IF RootOf(h, s) = c THEN Writer ELSE RootOf(h, s)
      <4>1. /\ RootOf(h, s) = IF h.parent[s] = None THEN s ELSE Writer
            /\ RootOf(g, s) = IF g.parent[s] = None THEN s ELSE Writer
        BY <1>1, <1>2, RootsOfSorts
      <4>2. g.parent[s] = IF s = c THEN p ELSE h.parent[s]
        BY <1>1, Sorts
      <4>3. p # None /\ c # Writer
        BY <1>0, <2>2, Sorts
      <4>4. QED
        BY <4>1, <4>2, <4>3
    <3>3. ASSUME NEW e \in EventClasses
          PROVE  RootOf(g, e) = IF RootOf(h, e) = c THEN Writer ELSE RootOf(h, e)
      <4>1. /\ RootOf(h, e) = IF h.parent[e] = None THEN e ELSE RootOf(h, h.parent[e])
            /\ RootOf(g, e) = IF g.parent[e] = None THEN e ELSE RootOf(g, g.parent[e])
        BY <1>1, <1>2, RootsOfSorts
      <4>2. e # c /\ e \in Objects \union {None}
        BY <2>2, Sorts
      <4>3. g.parent[e] = h.parent[e] /\ (h.parent[e] = None \/ h.parent[e] \in StreamClasses)
        BY <1>1, <4>2, Parents
      <4>4. QED
        BY <3>2, <4>1, <4>2, <4>3
    <3>4. QED
      BY <2>2, <3>1, <3>2, <3>3, Sorts
  <2>3. CASE c \in EventClasses /\ p \in StreamClasses
    <3>1. /\ RootOf(h, Writer) = Writer /\ RootOf(h, Trace) = Writer
          /\ RootOf(g, Writer) = Writer /\ RootOf(g, Trace) = Writer
      BY <1>1, <1>2, RootsOfSorts
    <3>2. ASSUME NEW s \in StreamClasses
          PROVE  RootOf(g, s) = RootOf(h, s) /\ RootOf(h, s) # c
      <4>1. s # c /\ s \in Objects \union {None} /\ c # Writer
        BY <2>3, Sorts
      <4>2. g.parent[s] = h.parent[s]
        BY <1>1, <4>1
      <4>3. /\ RootOf(h, s) = IF h.parent[s] = None THEN s ELSE Writer
            /\ RootOf(g, s) = IF g.parent[s] = None THEN s ELSE Writer
        BY <1>1, <1>2, RootsOfSorts
      <4>4. QED
        BY <4>1, <4>2, <4>3
    <3>3. RootOf(h, c) = c /\ RootOf(g, c) = RootOf(h, p)
      <4>1. g.parent[c] = p /\ p # None
        BY <1>0, <1>1, Sorts
      <4>2. /\ RootOf(h, c) = IF h.parent[c] = None THEN c ELSE RootOf(h, h.parent[c])
            /\ RootOf(g, c) = IF g.parent[c] = None THEN c ELSE RootOf(g, g.parent[c])
        BY <1>1, <1>2, <2>3, RootsOfSorts
      <4>3. QED
        BY <2>3, <3>2, <4>1, <4>2
    <3>4. ASSUME NEW e \in EventClasses \ {c}
          PROVE  RootOf(g, e) = RootOf(h, e) /\ RootOf(h, e) # c
      <4>1. e # c /\ e \in Objects \union {None}
        BY Sorts
      <4>2. g.parent[e] = h.parent[e] /\ (h.parent[e] = None \/ h.parent[e] \in StreamClasses)
        BY <1>1, <4>1, Parents
      <4>3. /\ RootOf(h, e) = IF h.parent[e] = None THEN e ELSE RootOf(h, h.parent[e])
            /\ RootOf(g, e) = IF g.parent[e] = None THEN e ELSE RootOf(g, g.parent[e])
        BY <1>1, <1>2, RootsOfSorts
      <4>4. QED
        BY <3>2, <4>1, <4>2, <4>3
    <3>5. QED
      BY <2>3, <3>1, <3>2, <3>3, <3>4, Sorts
  <2>4. QED
    BY <2>2, <2>3
<1>5. RootOf(h, p) # c /\ RootOf(h, c) = c
  BY RootsOfSorts, Sorts, Parents
<1>6. RootOf(g, p) = RootOf(h, p)
  BY <1>0, <1>4, <1>5
<1>7. GoneTogether(g)
  <2>1. \A x \in Objects : g.ref[RootOf(g, x)] = 0 <=> h.ref[RootOf(h, x)] = 0
    BY <1>1, <1>4
  <2>2. QED
    BY <1>1, <2>1 DEF GoneTogether
<1>8. g.ref[RootOf(g, p)] > 0
  BY <1>1, <1>6
<1>9. /\ Taken(g, p) \in HeapType /\ Taken(g, p).parent = g.parent
      /\ Shape(Taken(g, p)) /\ Counted(Taken(g, p), hold) /\ GoneTogether(Taken(g, p))
  BY <1>0, <1>1, <1>2, <1>3, <1>7, <1>8, TakenGone
<1>10. Attached(h, c, p) = Taken(g, p)
  BY DEF Attached, g
<1>11. QED
  BY <1>1, <1>9, <1>10

\* The arrays of children hold the objects with that parent, and among those of
\* the trace may be classes that have lost it.
LEMMA ChildrenAreKids ==
  ASSUME heap \in HeapType, Shape(heap), Arrays, TypeOK, NEW x \in Objects
  PROVE  /\ Children(x) \subseteq Objects
         /\ \A c \in Objects : heap.parent[c] = x => c \in Children(x)
         /\ \A c \in Children(x) : heap.parent[c] = x \/ heap.parent[c] = None
<1>1. /\ ToSet(streams) \subseteq StreamClasses
      /\ \A s \in StreamClasses : ToSet(events[s]) \subseteq EventClasses
  BY DEF TypeOK, ToSet
<1>2. CASE x = Writer
  BY <1>2, Parents, Sorts DEF Children
<1>3. CASE x = Trace
  <2>1. Children(x) = ToSet(streams)
    BY <1>3, Sorts DEF Children
  <2>2. QED
    BY <1>1, <1>3, <2>1, Parents, Sorts DEF Arrays
<1>4. CASE x \in StreamClasses
  <2>1. Children(x) = ToSet(events[x])
    BY <1>4, Sorts DEF Children
  <2>2. QED
    BY <1>1, <1>4, <2>1, Parents, Sorts DEF Arrays
<1>5. CASE x \in EventClasses
  <2>1. Children(x) = {}
    BY <1>5, Sorts DEF Children
  <2>2. QED
    BY <1>5, <2>1, Parents, Sorts
<1>6. QED
  BY <1>2, <1>3, <1>4, <1>5, Sorts

\* Three rounds of bt_ctf_object_try_spec_release() find the whole tree of a
\* root that nobody holds, and else only what was destroyed before.
LEMMA WholeTree ==
  ASSUME heap \in HeapType, Shape(heap), Arrays, TypeOK,
         NEW h \in HeapType, h.parent = heap.parent, Shape(h),
         NEW hold \in [Objects -> Nat], Counted(h, hold),
         NEW r \in Objects, h.parent[r] = None, h.ref[r] = 0,
         \A x \in Objects : RootOf(h, x) # r => (x \in h.gone <=> h.ref[RootOf(h, x)] = 0)
  PROVE  h.gone \union Unheld(h, Unheld(h, Unheld(h, {r}))) =
           h.gone \union {x \in Objects : RootOf(h, x) = r}
<1> DEFINE T == {x \in Objects : RootOf(h, x) = r}
           D == T \union h.gone
           U1 == Unheld(h, {r})
           U2 == Unheld(h, U1)
           U3 == Unheld(h, U2)
<1>1. \A x \in T : h.ref[x] = 0
  <2>1. \A x \in Objects : h.ref[x] \in Nat
    BY DEF HeapType
  <2>2. QED
    BY <2>1, RootHeld
<1>2. ASSUME NEW xs \in SUBSET D
      PROVE  /\ Unheld(h, xs) \subseteq D /\ xs \subseteq Unheld(h, xs)
             /\ \A c \in T : h.parent[c] \in xs => c \in Unheld(h, xs)
  <2>1. ASSUME NEW x \in xs
        PROVE  /\ x \in Objects /\ Children(x) \subseteq Objects
               /\ \A c \in Objects : h.parent[c] = x => c \in Children(x)
               /\ \A c \in Children(x) : h.parent[c] = x \/ h.parent[c] = None
    <3>1. x \in Objects
      BY DEF HeapType
    <3>2. QED
      BY <3>1, ChildrenAreKids
  <2>2. ASSUME NEW x \in xs, NEW c \in Children(x), h.ref[c] = 0
        PROVE  c \in D
    <3>1. c \in Objects /\ x \in Objects
      BY <2>1
    <3>2. CASE h.parent[c] = x
      <4>1. RootOf(h, c) = RootOf(h, x)
        BY <3>1, <3>2, Roots, Sorts
      <4>2. QED
        BY <3>1, <4>1
    <3>3. CASE h.parent[c] = None
      <4>1. RootOf(h, c) = c
        BY <3>1, <3>3, Roots
      <4>2. QED
        BY <2>2, <3>1, <4>1
    <3>4. QED
      BY <2>1, <3>2, <3>3
  <2>3. \A c \in T : c \in Objects
    OBVIOUS
  <2> HIDE DEF T, D
  <2>4. ASSUME NEW c \in T, h.parent[c] \in xs
        PROVE  c \in Unheld(h, xs)
    <3>1. c \in Children(h.parent[c])
      BY <2>1, <2>3, <2>4
    <3>2. QED
      BY <1>1, <2>4, <3>1 DEF Unheld
  <2>5. QED
    BY <2>2, <2>4 DEF Unheld
<1>3. {r} \subseteq D
  BY Roots
<1> HIDE DEF T, D
<1>4. /\ U1 \subseteq D /\ r \in U1
      /\ \A c \in T : h.parent[c] = r => c \in U1
  BY <1>2, <1>3
<1> HIDE DEF U1
<1>5. /\ U2 \subseteq D /\ U1 \subseteq U2
      /\ \A c \in T : h.parent[c] \in U1 => c \in U2
  BY <1>2, <1>4
<1> HIDE DEF U2
<1>6. /\ U3 \subseteq D /\ U2 \subseteq U3
      /\ \A c \in T : h.parent[c] \in U2 => c \in U3
  BY <1>2, <1>5
<1> HIDE DEF U3
<1>7. ASSUME NEW x \in T
      PROVE  x \in U3
  <2>1. \A y \in T : y = r \/ h.parent[y] \in T
    BY Roots, Parents DEF T
  <2>2. x \in Objects
    BY DEF T
  <2>3. h.parent[h.parent[h.parent[h.parent[x]]]] = None /\ None \notin T /\ h.parent[None] = None
    BY <2>2, Parents, Sorts DEF T
  <2>4. QED
    BY <1>4, <1>5, <1>6, <2>1, <2>3
<1>8. h.gone \union U3 = h.gone \union T
  BY <1>6, <1>7 DEF D
<1>9. QED
  BY <1>8 DEF U3, U2, U1, T

(***************************************************************************)
(* What every call does to the lives of the objects.                       *)
(***************************************************************************)

Life ==
  /\ heap \in HeapType /\ held \in [Objects -> 0..MaxHeld]
  /\ Shape(heap) /\ Counted(heap, held) /\ GoneTogether(heap)

LEMMA LifeOfInv ==
  ASSUME IInv
  PROVE  Life /\ held \in [Objects -> Nat] /\ MaxHeld \in Nat
<1>1. MaxHeld \in Nat
  BY ClassesAssumption
<1>2. 0..MaxHeld \subseteq Nat
  BY <1>1
<1>3. QED
  BY <1>1, <1>2 DEF IInv, TypeOK, Life, HeapType

\* What the client holds has not been destroyed.
LEMMA HeldIsAlive ==
  ASSUME IInv, NEW o \in Objects, held[o] > 0
  PROVE  heap.ref[o] > 0 /\ heap.ref[RootOf(heap, o)] > 0
<1>1. heap.ref[o] > 0
  BY LifeOfInv, HeldUpwards DEF Life
<1>2. QED
  BY <1>1, LifeOfInv, RootHeld DEF Life

LEMMA LifeGet ==
  ASSUME IInv, NEW o \in Objects, heap.ref[RootOf(heap, o)] > 0, held[o] < MaxHeld,
         held' = [held EXCEPT ![o] = @ + 1], heap' = Taken(heap, o)
  PROVE  Life' /\ heap'.parent = heap.parent
<1>1. Life /\ held \in [Objects -> Nat]
  BY LifeOfInv
<1>2. held' \in [Objects -> 0..MaxHeld] /\ held' \in [Objects -> Nat]
  BY <1>1, LifeOfInv DEF Life
<1>3. ASSUME NEW x \in Objects
      PROVE  heap.ref[x] + (IF x = o THEN 1 ELSE 0) = held'[x] + Cardinality(HeldKids(heap, x))
  <2>1. heap.ref[x] = held[x] + Cardinality(HeldKids(heap, x))
    BY <1>1 DEF Life, Counted
  <2>2. held'[x] = held[x] + IF x = o THEN 1 ELSE 0
    BY <1>1
  <2>3. held[x] \in Nat /\ Cardinality(HeldKids(heap, x)) \in Nat
    BY <1>1, KidsFinite
  <2>4. QED
    BY <2>1, <2>2, <2>3
<1>4. /\ Taken(heap, o) \in HeapType /\ Taken(heap, o).parent = heap.parent
      /\ Shape(Taken(heap, o)) /\ Counted(Taken(heap, o), held') /\ GoneTogether(Taken(heap, o))
  BY <1>1, <1>2, <1>3, TakenGone DEF Life
<1>5. QED
  BY <1>2, <1>4 DEF Life

\* Putting destroys the tree when its root is no longer held, and nothing else.
LEMMA LifePut ==
  ASSUME IInv, NEW o \in Objects, Put(o)
  PROVE  Life' /\ heap'.parent = heap.parent
<1> DEFINE less == Run(heap, Line(heap, o), 1)
           g == [heap EXCEPT !.ref = [x \in Objects |-> @[x] - IF x \in less THEN 1 ELSE 0]]
           r == RootOf(heap, o)
<1>1. Life /\ held \in [Objects -> Nat]
  BY LifeOfInv
<1>2. held' \in [Objects -> 0..MaxHeld] /\ held' \in [Objects -> Nat] /\ held[o] > 0
  BY <1>1, LifeOfInv DEF Life, Put
<1>3. ASSUME NEW x \in Objects
      PROVE  heap.ref[x] = held'[x] + Cardinality(HeldKids(heap, x)) + (IF x = o THEN 1 ELSE 0)
  <2>1. heap.ref[x] = held[x] + Cardinality(HeldKids(heap, x))
    BY <1>1 DEF Life, Counted
  <2>2. held'[x] = held[x] - IF x = o THEN 1 ELSE 0
    BY <1>1 DEF Put
  <2>3. held[x] \in Nat /\ Cardinality(HeldKids(heap, x)) \in Nat
    BY <1>1, KidsFinite
  <2>4. QED
    BY <2>1, <2>2, <2>3
<1>4. g \in HeapType /\ g.parent = heap.parent /\ g.gone = heap.gone /\ Counted(g, held')
  BY <1>1, <1>2, <1>3, LessCounts DEF Life
<1>5. heap' = IF g.ref[r] = 0 /\ r \in less THEN Destroyed(g, r) ELSE g
  BY DEF Put, Dropped
<1>6. /\ r \in Objects /\ heap.parent[r] = None
      /\ heap.ref[r] > 0
      /\ \A x \in Objects : g.ref[x] = heap.ref[x] - IF x \in less THEN 1 ELSE 0
      /\ \A x \in Objects : heap.ref[x] \in Nat
  BY <1>1, <1>2, Roots, HeldIsAlive DEF Life, HeapType
<1>7. ASSUME NEW x \in Objects, x # r, heap.parent[x] = None
      PROVE  g.ref[x] = heap.ref[x]
  <2>1. x \notin less
    BY <1>1, <1>7, RootOnLine DEF Life
  <2>2. QED
    BY <1>6, <2>1
<1> HIDE DEF g, less, r
<1>8. Shape(g)
  BY <1>1, <1>4 DEF Life, Shape
<1>9. \A x : RootOf(g, x) = RootOf(heap, x)
  BY <1>4, SameRoots
<1>10. \A x \in Objects : RootOf(heap, x) \in Objects /\ heap.parent[RootOf(heap, x)] = None
  BY <1>1, Roots DEF Life
<1>11. CASE g.ref[r] = 0 /\ r \in less
  <2>0. \A x \in Objects : RootOf(g, x) # r => (x \in g.gone <=> g.ref[RootOf(g, x)] = 0)
    BY <1>1, <1>4, <1>7, <1>9, <1>10 DEF Life, GoneTogether
  <2>1. g.gone \union Unheld(g, Unheld(g, Unheld(g, {r}))) =
          g.gone \union {x \in Objects : RootOf(g, x) = r}
    BY <1>1, <1>2, <1>4, <1>6, <1>8, <1>11, <2>0, WholeTree DEF Life, IInv
  <2>2. heap' = [g EXCEPT !.gone = @ \union {x \in Objects : RootOf(g, x) = r}]
    BY <1>5, <1>11, <2>1 DEF Destroyed
  <2>3. /\ heap' \in HeapType /\ heap'.parent = heap.parent /\ heap'.ref = g.ref
        /\ heap'.gone = heap.gone \union {x \in Objects : RootOf(g, x) = r}
    BY <1>4, <2>2 DEF HeapType
  <2>4. \A x : RootOf(heap', x) = RootOf(heap, x)
    BY <2>3, SameRoots
  <2>5. ASSUME NEW x \in Objects
        PROVE  x \in heap'.gone <=> heap'.ref[RootOf(heap', x)] = 0
    <3>1. x \in heap.gone <=> heap.ref[RootOf(heap, x)] = 0
      BY <1>1 DEF Life, GoneTogether
    <3>2. CASE RootOf(heap, x) = r
      BY <1>9, <1>11, <2>3, <2>4, <3>2
    <3>3. CASE RootOf(heap, x) # r
      BY <1>7, <1>9, <1>10, <2>3, <2>4, <3>1, <3>3
    <3>4. QED
      BY <3>2, <3>3
  <2>6. Counted(heap', held')
    BY <1>4, <2>3 DEF Counted, HeldKids
  <2>7. Shape(heap')
    BY <1>1, <2>3 DEF Life, Shape
  <2>8. QED
    BY <1>2, <2>3, <2>5, <2>6, <2>7 DEF Life, GoneTogether
<1>12. CASE ~(g.ref[r] = 0 /\ r \in less)
  <2>1. heap' = g
    BY <1>5, <1>12
  <2>2. g.ref[r] # 0
    BY <1>6, <1>12
  <2>3. ASSUME NEW x \in Objects
        PROVE  x \in g.gone <=> g.ref[RootOf(g, x)] = 0
    <3>1. x \in heap.gone <=> heap.ref[RootOf(heap, x)] = 0
      BY <1>1 DEF Life, GoneTogether
    <3>2. QED
      BY <1>4, <1>6, <1>7, <1>9, <1>10, <2>2, <3>1
  <2>4. GoneTogether(g)
    BY <2>3 DEF GoneTogether
  <2>5. QED
    BY <1>2, <1>4, <1>8, <2>1, <2>4 DEF Life
<1>13. QED
  BY <1>11, <1>12

\* A getter leads to an object of a tree that is held.
LEMMA LifeLifetimes ==
  ASSUME IInv, Lifetimes
  PROVE  Life' /\ heap'.parent = heap.parent
<1>1. Life /\ Arrays /\ TypeOK
  BY LifeOfInv DEF IInv
<1>2. /\ ToSet(streams) \subseteq StreamClasses
      /\ \A s \in StreamClasses : ToSet(events[s]) \subseteq EventClasses
  BY <1>1 DEF TypeOK, ToSet
<1>3. ASSUME NEW o \in Objects, NEW x \in Objects, RootOf(heap, x) = RootOf(heap, o),
             held[x] > 0, Get(o)
      PROVE  Life' /\ heap'.parent = heap.parent
  <2>1. heap.ref[RootOf(heap, o)] > 0
    BY <1>3, HeldIsAlive
  <2>2. QED
    BY <1>3, <2>1, LifeGet DEF Get
<1>4. /\ RootOf(heap, Writer) = Writer /\ RootOf(heap, Trace) = Writer
      /\ \A s \in StreamClasses : \A e \in ToSet(events[s]) : RootOf(heap, e) = RootOf(heap, s)
  BY <1>1, <1>2, RootsOfSorts, Sorts DEF Life, Arrays
\* A class that the trace lists, and that was not destroyed.
<1>5. ASSUME NEW s \in ToSet(streams) \ heap.gone, Get(s)
       PROVE  Life' /\ heap'.parent = heap.parent
  <2>1. s \in Objects
    BY <1>2, Sorts
  <2>2. heap.ref[RootOf(heap, s)] # 0 /\ RootOf(heap, s) \in Objects
    BY <1>1, <1>5, <2>1, Roots DEF Life, GoneTogether
  <2>3. heap.ref[RootOf(heap, s)] > 0
    BY <1>1, <2>2 DEF Life, HeapType
  <2>4. QED
    BY <1>5, <2>1, <2>3, LifeGet DEF Get
<1>6. CASE WriterGetTrace
  BY <1>3, <1>4, <1>6, Sorts DEF WriterGetTrace
<1>7. ASSUME NEW o \in Objects, Put(o)
      PROVE  Life' /\ heap'.parent = heap.parent
  BY <1>7, LifePut
<1>8. ASSUME NEW o \in Objects, GetParent(o)
      PROVE  Life' /\ heap'.parent = heap.parent
  <2>1. heap.parent[o] \in Objects
    BY <1>1, <1>8, Parents DEF Life, GetParent
  <2>2. RootOf(heap, o) = RootOf(heap, heap.parent[o])
    BY <1>1, <1>8, Roots DEF Life, GetParent
  <2>3. QED
    BY <1>3, <1>8, <2>1, <2>2 DEF GetParent
<1>9. ASSUME NEW s \in StreamClasses, GetStreamClassByIndex(s)
      PROVE  Life' /\ heap'.parent = heap.parent
  BY <1>9, <1>5 DEF GetStreamClassByIndex
<1>10. ASSUME NEW n, GetStreamClassById(n)
      PROVE  Life' /\ heap'.parent = heap.parent
  <2>1. PICK i \in DOMAIN streams : Get(streams[i])
    BY <1>10 DEF GetStreamClassById
  <2>2. streams[i] \in ToSet(streams)
    BY DEF ToSet
  <2>3. streams[i] \notin heap.gone
    BY <1>10, <2>2 DEF GetStreamClassById, Intact
  <2>4. QED
    BY <1>5, <2>1, <2>2, <2>3
<1>11. ASSUME NEW s \in StreamClasses, NEW e \in EventClasses, GetEventClassByIndex(s, e)
       PROVE  Life' /\ heap'.parent = heap.parent
  BY <1>3, <1>4, <1>11, Sorts DEF GetEventClassByIndex
<1>12. ASSUME NEW s \in StreamClasses, NEW n \in DOMAIN index[s], GetEventClassById(s, n)
       PROVE  Life' /\ heap'.parent = heap.parent
  <2>1. index[s][n] \in ToSet(events[s])
    BY <1>1 DEF Arrays
  <2>2. QED
    BY <1>2, <1>3, <1>4, <1>12, <2>1, Sorts DEF GetEventClassById
<1>13. QED
  BY <1>6, <1>7, <1>8, <1>9, <1>10, <1>11, <1>12 DEF Lifetimes

(***************************************************************************)
(* The invariant implies the properties.                                   *)
(***************************************************************************)

LEMMA InvAliveTogether ==
  IInv => AliveTogether
<1> SUFFICES ASSUME IInv PROVE AliveTogether
  OBVIOUS
<1>1. Life /\ held \in [Objects -> Nat]
  BY LifeOfInv
<1>2. ASSUME NEW o \in Objects
      PROVE  o \notin heap.gone <=> \E x \in Objects : Root(x) = Root(o) /\ held[x] > 0
  <2>1. RootOf(heap, o) \in Objects /\ RootOf(heap, RootOf(heap, o)) = RootOf(heap, o)
    BY <1>1, Roots DEF Life
  <2>2. heap.ref[RootOf(heap, o)] \in Nat
    BY <1>1, <2>1 DEF Life, HeapType
  <2>3. o \notin heap.gone <=> heap.ref[RootOf(heap, o)] > 0
    BY <1>1, <2>2 DEF Life, GoneTogether
  <2>4. heap.ref[RootOf(heap, o)] > 0 =>
          \E x \in Objects : RootOf(heap, x) = RootOf(heap, o) /\ held[x] > 0
    BY <1>1, <2>1, HeldByClient DEF Life
  <2>5. (\E x \in Objects : RootOf(heap, x) = RootOf(heap, o) /\ held[x] > 0) =>
          heap.ref[RootOf(heap, o)] > 0
    BY HeldIsAlive
  <2>6. QED
    BY <2>3, <2>4, <2>5 DEF Root
<1>3. QED
  BY <1>2 DEF AliveTogether

\* The scopes that are checked are the tame ones of a class and its members.
LEMMA CheckedAreTame ==
  ASSUME NEW s
  PROVE  \A c : c \in Checked(s) <=> c \in Scopes /\ c[1] \in Members(s) /\ Tame(c)
<1>1. \A c : c \in UNION {ScopesOf(x) : x \in Members(s)} <=> c \in Scopes /\ c[1] \in Members(s)
  BY DEF ScopesOf
<1>2. QED
  BY <1>1 DEF Checked

LEMMA InvOneClock ==
  IInv => OneClock
<1> SUFFICES ASSUME IInv PROVE OneClock
  OBVIOUS
<1>1. ClockInv
  BY DEF IInv
<1>2. QED
  BY <1>1, CheckedAreTame DEF ClockInv, OneClock

\* The types of the trace are tame.
LEMMA TraceIsTame ==
  ASSUME IInv
  PROVE  \A c \in Scopes : c[1] = Trace => Tame(c)
BY Sorts DEF IInv, TypeOK, SameInv, Tame, OnTime

LEMMA InvTraceIsValid ==
  IInv => TraceIsValid
<1> SUFFICES ASSUME IInv PROVE TraceIsValid
  OBVIOUS
<1>1. /\ TypeOK /\ FreezeInv /\ ValidInv /\ ListedInv
      /\ ToSet(streams) \subseteq StreamClasses
      /\ Len(streams) \in Nat
  BY DEF IInv, TypeOK, ToSet
<1>2. ASSUME streams # <<>>
      PROVE  Trace \in frozen \intersect valid /\ Sound(Trace)
  <2>1. Trace \in valid
    BY <1>1, <1>2 DEF ListedInv
  <2>2. \A c \in ScopesOf(Trace) : type[c].sound
    BY <1>1, <2>1, TraceIsTame DEF ValidInv, ScopesOf
  <2>3. QED
    BY <1>1, <2>1, <2>2 DEF ValidInv, Sound
<1>3. Len(streams) > 1 => PacketHeaderFits
  BY <1>1 DEF ListedInv, PacketHeaderFits
<1>4. ASSUME NEW s \in ToSet(streams), InTrace(s)
      PROVE  /\ Members(s) \subseteq frozen \intersect valid
             /\ \A c \in Checked(s) :
                  /\ type[c].sound
                  /\ c[2] \in {"packet_context", "event_header"} /\ type[c].present => type[c].fits
             /\ \A x \in Members(s) : id[x] >= 0
  <2>1. Members(s) \subseteq valid /\ id[s] >= 0
    BY <1>1, <1>4 DEF ListedInv
  <2>2. \A c \in Checked(s) : type[c].sound
    BY <1>1, <2>1, CheckedAreTame DEF ValidInv
  <2>3. ASSUME NEW c \in Checked(s), c[2] \in {"packet_context", "event_header"},
               type[c].present
        PROVE  type[c].fits
    <3>1. c \in Scopes /\ c[1] \in Members(s) /\ Tame(c)
      BY CheckedAreTame
    <3>2. Members(s) \subseteq {s} \union EventClasses
      BY <1>1 DEF Members, TypeOK, ToSet
    <3>3. c[1] = s
      BY <2>3, <3>1, <3>2, Sorts DEF Scopes
    <3>4. c \in {<<s, "packet_context">>, <<s, "event_header">>}
      BY <2>3, <3>1, <3>3, ScopeSorts
    <3>5. QED
      BY <1>1, <2>3, <3>1, <3>4 DEF ListedInv
  <2>4. \A x \in Members(s) : id[x] >= 0
    BY <1>1, <2>1 DEF ValidInv, Members
  <2>5. QED
    BY <1>1, <2>1, <2>2, <2>3, <2>4 DEF ValidInv
<1>5. Trace \in frozen => clocks \subseteq frozen /\ {n \in Names : env[n] # None} \subseteq fixed
  BY <1>1 DEF FreezeInv
<1>6. QED
  BY <1>2, <1>3, <1>4, <1>5 DEF TraceIsValid

(***************************************************************************)
(* The initial state.                                                      *)
(***************************************************************************)

LEMMA InitInv ==
  Init => IInv
<1> SUFFICES ASSUME Init PROVE IInv
  OBVIOUS
<1>1. PICK client \in Clients : InitFor(client)
  BY DEF Init
<1>2. /\ client.made \subseteq StreamClasses \union EventClasses
      /\ client.type \in [Scopes -> FieldTypes] /\ client.sets \in Nat /\ client.refs \in Nat
  BY <1>1, ClassesAssumption
<1>3. /\ held = [x \in Objects |-> IF x \in client.made \union {Writer} THEN 1 ELSE 0]
      /\ heap = [ref |-> held,
                 parent |-> [x \in Objects \union {None} |-> IF x = Trace THEN Writer ELSE None],
                 gone |-> Objects \ (client.made \union {Writer, Trace})]
      /\ type = client.type /\ same = [c \in Scopes |-> {c}] /\ hard = {} /\ open = {}
  BY <1>1 DEF InitFor
<1>4. /\ streams = <<>> /\ events = [s \in StreamClasses |-> <<>>]
      /\ index = [s \in StreamClasses |-> <<>>]
      /\ ToSet(streams) = {} /\ \A s \in StreamClasses : ToSet(events[s]) = {}
  BY DEF Init, ToSet
<1>5. /\ held \in [Objects -> Nat] /\ heap \in HeapType /\ Shape(heap)
      /\ heap.ref = held
      /\ \A x \in Objects : heap.parent[x] = IF x = Trace THEN Writer ELSE None
      /\ heap.gone = Objects \ (client.made \union {Writer, Trace})
  BY <1>2, <1>3, Sorts DEF HeapType, Shape
<1>6. TypeOK
  <2>1. 1 \in 0..MaxHeld /\ 0 \in 0..MaxHeld
    BY ClassesAssumption
  <2>2. held \in [Objects -> 0..MaxHeld]
    BY <1>3, <2>1
  <2>3. streams \in Seq(StreamClasses) /\ events \in [StreamClasses -> Seq(EventClasses)]
    BY <1>4
  <2>4. QED
    BY <1>2, <1>3, <1>4, <1>5, <2>2, <2>3 DEF Init, TypeOK, HeapType
<1>7. Arrays
  BY <1>4, <1>5, Sorts DEF Arrays
<1>8. Counted(heap, held)
  <2>1. ASSUME NEW x \in Objects
        PROVE  Cardinality(HeldKids(heap, x)) = 0
    <3>1. heap.ref[Trace] = 0
      BY <1>2, <1>3, <1>5, Sorts
    <3>2. HeldKids(heap, x) = {}
      BY <1>5, <3>1, Sorts DEF HeldKids
    <3>3. QED
      BY <3>2, FS_EmptySet
  <2>2. QED
    BY <1>5, <2>1 DEF Counted
<1>9. GoneTogether(heap)
  <2>1. \A x \in Objects : RootOf(heap, x) = IF x = Trace THEN Writer ELSE x
    BY <1>5, RootsOfSorts, Sorts
  <2>2. ASSUME NEW x \in Objects
        PROVE  x \in heap.gone <=> heap.ref[RootOf(heap, x)] = 0
    <3>1. \A y \in Objects : heap.ref[y] = 0 <=> y \notin client.made \union {Writer}
      BY <1>3, <1>5
    <3>2. x \in heap.gone <=> x \notin client.made \union {Writer, Trace}
      BY <1>5
    <3>3. Writer \in Objects /\ Trace \notin client.made
      BY <1>2, Sorts
    <3>4. QED
      BY <2>1, <3>1, <3>2, <3>3
  <2>3. QED
    BY <2>2 DEF GoneTogether
<1>10. SameInv /\ FreezeInv /\ ClockInv /\ ValidInv
  BY <1>3, <1>4 DEF Init, SameInv, FreezeInv, ClockInv, ValidInv
<1>11. ListedInv
  BY <1>4 DEF ListedInv
<1>12. QED
  BY <1>5, <1>6, <1>7, <1>8, <1>9, <1>10, <1>11 DEF IInv

(***************************************************************************)
(* One lemma per call, or per group of calls that change the same things.  *)
(***************************************************************************)

\* A call that takes or puts references, and a step that does nothing.
LEMMA InvLives ==
  ASSUME IInv, Life', heap'.parent = heap.parent,
         UNCHANGED <<tree, forms, data, frozen, expected, clocks, fixed>>
  PROVE  IInv' /\ StaysFrozen
<1>1. TypeOK'
  BY DEF IInv, TypeOK, Life, HeapType, tree, forms, data
<1>2. Arrays'
  BY DEF IInv, Arrays, tree
<1>3. SameInv' /\ FreezeInv' /\ ClockInv' /\ ValidInv' /\ ListedInv'
  BY DEF IInv, SameInv, FreezeInv, ClockInv, ValidInv, ListedInv, Members, Tame, OnTime, InTrace,
         tree, forms, data
<1>4. StaysFrozen
  BY DEF StaysFrozen, tree, forms, data
<1>5. QED
  BY <1>1, <1>2, <1>3, <1>4 DEF IInv, Life

LEMMA InvSetId ==
  ASSUME IInv, NEW o \in StreamClasses \union EventClasses, NEW n \in Ids, SetId(o, n)
  PROVE  IInv' /\ StaysFrozen
<1>1. /\ o \notin frozen /\ id' = [id EXCEPT ![o] = n] /\ n \in Nat
      /\ UNCHANGED <<life, forms, data, streams, events, index, nextStream, nextEvent, valid,
                     frozen, expected, clocks, fixed>>
  BY ClassesAssumption DEF SetId
<1>2. /\ TypeOK /\ \A x \in (StreamClasses \union EventClasses) \ {o} : id'[x] = id[x]
  BY <1>1 DEF IInv, TypeOK
<1>3. TypeOK'
  BY <1>1, <1>2 DEF TypeOK, life, forms, data
<1>4. Arrays' /\ Life'
  BY <1>1, LifeOfInv DEF IInv, Arrays, Life, life
<1>5. SameInv' /\ FreezeInv' /\ ClockInv'
  BY <1>1 DEF IInv, SameInv, FreezeInv, ClockInv, Members, Tame, OnTime, forms, data
<1>6. ToSet(streams) \subseteq StreamClasses /\ \A s \in StreamClasses : ToSet(events[s]) \subseteq EventClasses
  BY <1>2 DEF TypeOK, ToSet
<1>7. ValidInv'
  BY <1>1, <1>2, <1>6 DEF IInv, FreezeInv, ValidInv, Tame, OnTime, forms, data
<1>8. ListedInv'
  <2>1. \A s \in ToSet(streams) : s \in frozen
    BY DEF IInv, ListedInv, ValidInv
  <2>2. QED
    BY <1>1, <1>2, <1>6, <2>1 DEF IInv, ListedInv, Members, Tame, OnTime, InTrace, life, forms, data
<1>9. StaysFrozen
  BY <1>1, <1>2 DEF StaysFrozen, TypeOK, forms, data
<1>10. QED
  BY <1>3, <1>4, <1>5, <1>7, <1>8, <1>9 DEF IInv, Life

(***************************************************************************)
(* Calls that change types.                                                *)
(***************************************************************************)

\* The timestamps of a type may change without a change of what else it is.
LEMMA UntimedTypes ==
  ASSUME NEW t, NEW u
  PROVE  Untimed(u) = Untimed(t) <=>
           /\ u.present = t.present /\ u.sound = t.sound
           /\ u.numbered = t.numbered /\ u.links = t.links
<1> DEFINE Rest(v) == [present |-> v.present, sound |-> v.sound, numbered |-> v.numbered,
                       links |-> v.links]
<1>1. Untimed(t) = Rest(t) /\ Untimed(u) = Rest(u)
  BY DEF Untimed
<1>2. ASSUME Rest(u) = Rest(t)
      PROVE  /\ u.present = t.present /\ u.sound = t.sound
             /\ u.numbered = t.numbered /\ u.links = t.links
  <2>1. /\ Rest(u).present = u.present /\ Rest(u).sound = u.sound
        /\ Rest(u).numbered = u.numbered /\ Rest(u).links = u.links
    OBVIOUS
  <2>2. /\ Rest(t).present = t.present /\ Rest(t).sound = t.sound
        /\ Rest(t).numbered = t.numbered /\ Rest(t).links = t.links
    OBVIOUS
  <2>3. QED
    BY <1>2, <2>1, <2>2
<1>3. QED
  BY <1>1, <1>2

\* What a call must leave alone of the types of frozen classes.
Respected ==
  \A c \in Scopes : c[1] \in frozen /\ OnTime(c)' =>
    /\ Untimed(type'[c]) = Untimed(type[c])
    /\ c \notin open' => c \notin open /\ type'[c] = type[c]

LEMMA InvForms ==
  ASSUME IInv, Respected, SameInv',
         UNCHANGED <<life, tree, own, word, env, frozen, expected, clocks, fixed>>,
         type' \in [Scopes -> FieldTypes], same' \in [Scopes -> SUBSET Scopes],
         hard' \subseteq Scopes, open' \subseteq Scopes,
         late \subseteq late', late' \subseteq frozen \intersect StreamClasses
  PROVE  IInv' /\ StaysFrozen
<1>1. TypeOK'
  BY DEF IInv, TypeOK, life, tree
<1>2. Arrays' /\ Life'
  BY LifeOfInv DEF IInv, Arrays, Life, life, tree
<1>3. \A c \in Scopes : c[1] \in frozen /\ Tame(c)' => Tame(c) /\ type'[c] = type[c]
  BY DEF Respected, Tame, OnTime
<1>4. FreezeInv'
  BY DEF IInv, FreezeInv, tree
<1>5. \A s \in frozen \intersect StreamClasses : Members(s) \subseteq frozen
  BY DEF IInv, FreezeInv, Members
<1>6. ClockInv'
  BY <1>3, <1>5 DEF IInv, ClockInv, Members, tree
<1>7. ValidInv'
  BY <1>3 DEF IInv, ValidInv, tree
<1>8. ListedInv'
  <2>1. /\ \A s \in ToSet(streams) : s \in frozen /\ s \in StreamClasses
        /\ streams # <<>> => Trace \in frozen
        /\ Len(streams) > 1 => streams # <<>>
    <3>1. ToSet(streams) \subseteq StreamClasses /\ Len(<<>>) = 0
      BY DEF IInv, TypeOK, ToSet
    <3>2. valid \subseteq frozen /\ ToSet(streams) \subseteq valid
      BY DEF IInv, ListedInv, ValidInv
    <3>3. streams # <<>> => Trace \in valid
      BY DEF IInv, ListedInv
    <3>4. QED
      BY <3>1, <3>2, <3>3
  <2>2. streams # <<>> => type'[<<Trace, "packet_header">>] = type[<<Trace, "packet_header">>]
    <3>1. <<Trace, "packet_header">> \notin open' /\ OnTime(<<Trace, "packet_header">>)'
      BY ScopeSorts, Sorts DEF SameInv, OnTime
    <3>2. QED
      BY <2>1, <3>1, ScopeSorts DEF Respected
  <2>3. ASSUME NEW s \in ToSet(streams), NEW c \in {<<s, "packet_context">>, <<s, "event_header">>},
               Tame(c)', type'[c].present
        PROVE  type'[c].fits
    <3>1. c \in Scopes /\ c[1] = s /\ s \in frozen
      BY <2>1, ScopeSorts
    <3>2. Tame(c) /\ type'[c] = type[c]
      BY <1>3, <2>3, <3>1
    <3>3. QED
      BY <2>3, <3>2 DEF IInv, ListedInv
  <2>4. QED
    BY <2>1, <2>2, <2>3 DEF IInv, ListedInv, Members, InTrace, tree, life
<1>9. StaysFrozen
  BY DEF StaysFrozen, Respected, tree
<1>10. QED
  BY <1>1, <1>2, <1>4, <1>6, <1>7, <1>8, <1>9 DEF IInv, Life

\* What is offered is a type with all the scopes that share it.
LEMMA Offered ==
  ASSUME IInv, NEW c \in Scopes, NEW o \in Offers(c)
  PROVE  /\ o[1] \in FieldTypes /\ o[2] \subseteq Scopes \ {c}
         /\ \A x \in o[2] : type[x] = o[1] /\ x[2] = c[2] /\ same[x] \ {c} = o[2]
<1>1. CASE o \in {<<t, {}>> : t \in TypesOf[c[2]]}
  <2>1. PICK t \in TypesOf[c[2]] : o = <<t, {}>>
    BY <1>1
  <2>2. t \in FieldTypes
    <3>1. c[2] \in {"packet_header", "packet_context", "event_header", "event_context",
                    "context", "payload"}
      BY DEF Scopes
    <3>2. QED
      BY <2>1, <3>1, ClassesAssumption
  <2>3. QED
    BY <2>1, <2>2
<1>2. CASE o \notin {<<t, {}>> : t \in TypesOf[c[2]]}
  <2>1. PICK d \in Scopes \ {c} : d[2] = c[2] /\ o = <<type[d], same[d] \ {c}>>
    BY <1>2 DEF Offers
  <2>2. o[1] = type[d] /\ o[2] = same[d] \ {c}
    BY <2>1
  <2>3. QED
    BY <2>1, <2>2 DEF IInv, TypeOK, SameInv
<1>3. QED
  BY <1>1, <1>2

\* The scopes of one type stay of one kind when one of them takes another type.
LEMMA GivesSame ==
  ASSUME IInv, NEW c \in Scopes, NEW t \in FieldTypes, NEW g \in SUBSET (Scopes \ {c}),
         \A x \in g : type[x] = t /\ x[2] = c[2] /\ same[x] \ {c} = g,
         Gives(c, t, g), UNCHANGED frozen,
         c[1] \in frozen => ~OnTime(c)', late \subseteq late'
  PROVE  /\ SameInv'
         /\ type' \in [Scopes -> FieldTypes] /\ same' \in [Scopes -> SUBSET Scopes]
         /\ hard' \subseteq Scopes /\ open' \subseteq Scopes
         /\ \A d \in Scopes \ {c} : type'[d] = type[d] /\ (d \in open' <=> d \in open)
<1>1. /\ TypeOK /\ SameInv
      /\ type' = [type EXCEPT ![c] = t]
      /\ \A x \in Scopes : same'[x] = IF x \in g \union {c} THEN g \union {c} ELSE same[x] \ {c}
      /\ same' = [x \in Scopes |-> IF x \in g \union {c} THEN g \union {c} ELSE same[x] \ {c}]
      /\ hard' = IF g \intersect hard = {} THEN hard \ {c} ELSE hard \union {c}
      /\ open' = IF g \intersect open = {} THEN open \ {c} ELSE open \union {c}
  BY DEF IInv, Gives
<1>2. /\ type' \in [Scopes -> FieldTypes] /\ same' \in [Scopes -> SUBSET Scopes]
      /\ hard' \subseteq Scopes /\ open' \subseteq Scopes
      /\ \A d \in Scopes : type'[d] = IF d = c THEN t ELSE type[d]
  BY <1>1 DEF TypeOK
<1>3. \A d \in Scopes \ {c} : (d \in open' <=> d \in open) /\ (d \in hard' <=> d \in hard)
  BY <1>1
\* All or none of the scopes that share a type have a flag.
<1>4. /\ \A x \in g, y \in g : (x \in hard <=> y \in hard) /\ (x \in open <=> y \in open)
      /\ \A x \in g : c \in hard' <=> x \in hard'
      /\ \A x \in g : c \in open' <=> x \in open'
  <2>1. \A x \in g, y \in g : y \in same[x]
    BY <1>1 DEF SameInv
  <2>2. \A x \in g, y \in g : (x \in hard <=> y \in hard) /\ (x \in open <=> y \in open)
    BY <1>1, <2>1 DEF SameInv
  <2>3. QED
    BY <1>1, <1>3, <2>2
<1>5. \A x \in Scopes : x \in same'[x]
  BY <1>1 DEF SameInv
<1>6. ASSUME NEW x \in Scopes, NEW d \in same'[x]
      PROVE  /\ same'[d] = same'[x] /\ type'[d] = type'[x] /\ d[2] = x[2]
             /\ d \in hard' <=> x \in hard'
             /\ d \in open' <=> x \in open'
  <2>1. CASE x \in g \union {c}
    <3>1. d \in g \union {c} /\ d \in Scopes
      BY <1>1, <1>6, <2>1
    <3>2. same'[d] = g \union {c} /\ same'[x] = g \union {c}
      BY <1>1, <2>1, <3>1
    <3>3. type'[d] = t /\ type'[x] = t
      BY <1>2, <2>1, <3>1
    <3>4. QED
      BY <1>3, <1>4, <2>1, <3>1, <3>2, <3>3
  <2>2. CASE x \notin g \union {c}
    <3>1. d \in same[x] /\ d # c /\ x # c /\ d \in Scopes
      BY <1>1, <1>2, <1>6, <2>2
    <3>2. /\ same[d] = same[x] /\ type[d] = type[x] /\ d[2] = x[2]
          /\ d \in hard <=> x \in hard
          /\ d \in open <=> x \in open
      BY <1>1, <3>1 DEF SameInv
    <3>3. d \notin g
      BY <1>1, <2>2, <3>1, <3>2 DEF SameInv
    <3>4. same'[d] = same[d] \ {c} /\ same'[x] = same[x] \ {c}
      BY <1>1, <2>2, <3>1, <3>3
    <3>5. QED
      BY <1>2, <1>3, <3>1, <3>2, <3>4
  <2>3. QED
    BY <2>1, <2>2
<1>7. ASSUME NEW d \in open'
      PROVE  d[1] \in StreamClasses
  <2>1. CASE d # c
    BY <1>1, <1>2, <1>3, <1>7, <2>1 DEF SameInv
  <2>2. CASE d = c
    <3>1. PICK x \in g : x \in open
      BY <1>1, <1>7, <2>2
    <3>2. x[1] \in StreamClasses /\ x \in Scopes /\ x[2] = c[2]
      BY <1>1, <3>1 DEF SameInv
    <3>3. x[2] \in {"packet_context", "event_header", "event_context"}
      BY <3>2, Sorts DEF Scopes
    <3>4. QED
      BY <2>2, <3>2, <3>3 DEF Scopes
  <2>3. QED
    BY <2>1, <2>2
<1>8. \A d \in Scopes : d[1] \in frozen' /\ OnTime(d)' => d \in hard'
  <2>1. \A d \in Scopes : OnTime(d)' => OnTime(d)
    BY DEF OnTime
  <2>2. QED
    BY <1>1, <1>3, <2>1 DEF SameInv
<1>9. SameInv'
  BY <1>5, <1>6, <1>7, <1>8 DEF SameInv
<1>10. QED
  BY <1>2, <1>3, <1>9

LEMMA InvSetType ==
  ASSUME IInv, NEW c \in Scopes, NEW o \in Offers(c), SetType(c, o)
  PROVE  IInv' /\ StaysFrozen
<1>1. /\ c[1] \notin frozen /\ Gives(c, o[1], o[2])
      /\ UNCHANGED <<life, tree, late, own, word, env, frozen, expected, clocks, fixed>>
  BY DEF SetType, data, life
<1>2. /\ SameInv'
      /\ type' \in [Scopes -> FieldTypes] /\ same' \in [Scopes -> SUBSET Scopes]
      /\ hard' \subseteq Scopes /\ open' \subseteq Scopes
      /\ \A d \in Scopes \ {c} : type'[d] = type[d] /\ (d \in open' <=> d \in open)
  BY <1>1, Offered, GivesSame
<1>3. Respected
  BY <1>1, <1>2 DEF Respected
<1>4. QED
  BY <1>1, <1>2, <1>3, InvForms DEF IInv, TypeOK

LEMMA InvStreamAddEventHeader ==
  ASSUME IInv, NEW s \in StreamClasses, NEW o \in Offers(<<s, "event_header">>),
         StreamAddEventHeader(s, o)
  PROVE  IInv' /\ StaysFrozen
<1> DEFINE c == <<s, "event_header">>
<1>1. /\ Gives(c, o[1], o[2])
      /\ late' = IF s \in frozen THEN late \union {s} ELSE late
      /\ UNCHANGED <<life, tree, own, word, env, frozen, expected, clocks, fixed>>
  BY DEF StreamAddEventHeader, life
<1>2. c \in Scopes /\ c[1] = s /\ (s \in frozen => ~OnTime(c)')
  BY <1>1, ScopeSorts DEF OnTime
<1>3. late \subseteq late' /\ late' \subseteq frozen \intersect StreamClasses
  BY <1>1 DEF IInv, TypeOK
<1> HIDE DEF c
<1>4. /\ SameInv'
      /\ type' \in [Scopes -> FieldTypes] /\ same' \in [Scopes -> SUBSET Scopes]
      /\ hard' \subseteq Scopes /\ open' \subseteq Scopes
      /\ \A d \in Scopes \ {c} : type'[d] = type[d] /\ (d \in open' <=> d \in open)
  BY <1>1, <1>2, <1>3, Offered, GivesSame DEF c
<1>5. Respected
  BY <1>1, <1>2, <1>4 DEF Respected
<1>6. QED
  BY <1>1, <1>3, <1>4, <1>5, InvForms

\* A type that nobody froze, and one that a call has opened.
LEMMA InvAlters ==
  ASSUME IInv, NEW c \in Scopes, NEW t \in FieldTypes, Alters(c, t),
         UNCHANGED <<life, tree, data, frozen, expected, clocks, fixed>>,
         c \in hard => c \in open /\ Untimed(t) = Untimed(type[c])
  PROVE  IInv' /\ StaysFrozen
<1>1. /\ type' = [x \in Scopes |-> IF x \in same[c] THEN t ELSE type[x]]
      /\ UNCHANGED <<same, hard, open, late, own, word, env>>
  BY DEF Alters, data
<1>2. TypeOK /\ SameInv /\ type' \in [Scopes -> FieldTypes]
  BY <1>1 DEF IInv, TypeOK
<1>3. ASSUME NEW x \in Scopes
      PROVE  type'[x] = IF x \in same[c] THEN t ELSE type[x]
  BY <1>1
<1>4. SameInv'
  <2>1. \A x \in Scopes : \A d \in same[x] : d \in Scopes /\ (d \in same[c] <=> x \in same[c])
    BY <1>2 DEF SameInv, TypeOK
  <2>2. \A x \in Scopes : \A d \in same[x] : type'[d] = type'[x]
    BY <1>2, <1>3, <2>1 DEF SameInv
  <2>3. QED
    BY <1>1, <1>2, <2>2 DEF SameInv, OnTime
<1>5. \A x \in same[c] : /\ x \in Scopes /\ type[x] = type[c]
                         /\ x \in hard <=> c \in hard
                         /\ x \in open <=> c \in open
  BY <1>2 DEF SameInv, TypeOK
<1>6. \A x \in Scopes : x[1] \in frozen /\ OnTime(x)' => x \in hard /\ OnTime(x)
  BY <1>1, <1>2 DEF SameInv, OnTime
<1>7. Respected
  <2>1. SUFFICES ASSUME NEW x \in Scopes, x[1] \in frozen, OnTime(x)'
                 PROVE  /\ Untimed(type'[x]) = Untimed(type[x])
                        /\ x \notin open => type'[x] = type[x]
    BY <1>1 DEF Respected
  <2>2. CASE x \in same[c]
    BY <1>3, <1>5, <1>6, <2>1, <2>2
  <2>3. CASE x \notin same[c]
    BY <1>3, <2>3
  <2>4. QED
    BY <2>2, <2>3
<1>8. QED
  BY <1>1, <1>2, <1>4, <1>7, InvForms DEF TypeOK

LEMMA InvChangeType ==
  ASSUME IInv, NEW c \in Scopes, NEW t \in FieldTypes, ChangeType(c, t)
  PROVE  IInv' /\ StaysFrozen
BY InvAlters DEF ChangeType, life

LEMMA InvSetTimestamp ==
  ASSUME IInv, NEW c \in Scopes, NEW k \in Clocks, SetTimestamp(c, k)
  PROVE  IInv' /\ StaysFrozen
<1>1. type[c] \in FieldTypes
  BY DEF IInv, TypeOK
<1>2. PICK others \in SUBSET type[c].clocks, fits \in BOOLEAN :
        Alters(c, [type[c] EXCEPT !.clocks = others \union {k}, !.fits = fits])
  BY DEF SetTimestamp
<1> DEFINE t == [type[c] EXCEPT !.clocks = others \union {k}, !.fits = fits]
<1>3. /\ t \in FieldTypes
      /\ t.present = type[c].present /\ t.sound = type[c].sound
      /\ t.numbered = type[c].numbered /\ t.links = type[c].links
  BY <1>1 DEF FieldTypes
<1>4. Alters(c, t)
  BY <1>2
<1> HIDE DEF t
<1>5. Untimed(t) = Untimed(type[c])
  BY <1>1, <1>3, UntimedTypes
<1>6. c \in open /\ UNCHANGED <<life, tree, data, frozen, expected, clocks, fixed>>
  BY DEF SetTimestamp
<1>7. QED
  BY <1>3, <1>4, <1>5, <1>6, InvAlters

LEMMA InvFieldCreate ==
  ASSUME IInv, NEW c \in Scopes, FieldCreate(c)
  PROVE  IInv' /\ StaysFrozen
<1>1. /\ hard' = hard \union same[c]
      /\ UNCHANGED <<life, tree, type, same, open, late, own, word, env, frozen, expected,
                     clocks, fixed>>
  BY DEF FieldCreate, data
<1>2. TypeOK /\ SameInv /\ same[c] \subseteq Scopes
  BY DEF IInv, TypeOK
<1>3. \A x \in Scopes : \A d \in same[x] : d \in same[c] <=> x \in same[c]
  BY <1>2 DEF SameInv, TypeOK
<1>4. SameInv'
  BY <1>1, <1>2, <1>3 DEF SameInv, OnTime
<1>5. Respected
  BY <1>1 DEF Respected
<1>6. QED
  BY <1>1, <1>2, <1>4, <1>5, InvForms DEF TypeOK

LEMMA InvStreamClassSetClock ==
  ASSUME IInv, NEW s \in StreamClasses, NEW c \in Clocks, StreamClassSetClock(s, c)
  PROVE  IInv' /\ StaysFrozen
<1>1. /\ s \notin frozen /\ own' = [own EXCEPT ![s] = c]
      /\ UNCHANGED <<life, tree, forms, late, word, env, frozen, expected, clocks, fixed>>
  BY DEF StreamClassSetClock
<1>2. TypeOK /\ \A x \in StreamClasses : x \in frozen => own'[x] = own[x]
  BY <1>1 DEF IInv, TypeOK
<1>3. TypeOK'
  BY <1>1, <1>2 DEF TypeOK, life, tree, forms
<1>4. Arrays' /\ Life'
  BY <1>1, LifeOfInv DEF IInv, Arrays, Life, life, tree
<1>5. SameInv' /\ FreezeInv' /\ ClockInv' /\ ValidInv' /\ ListedInv'
  BY <1>1, <1>2 DEF IInv, SameInv, FreezeInv, ClockInv, ValidInv, ListedInv, Members, Tame,
     OnTime, InTrace, life, tree, forms
<1>6. StaysFrozen
  BY <1>1, <1>2 DEF StaysFrozen, tree, forms
<1>7. QED
  BY <1>3, <1>4, <1>5, <1>6 DEF IInv, Life

LEMMA InvSetWord ==
  ASSUME IInv, NEW x \in {Trace} \union StreamClasses \union EventClasses \union Clocks,
         NEW w \in Words, SetWord(x, w)
  PROVE  IInv' /\ StaysFrozen
<1>1. /\ x \notin frozen /\ word' = [word EXCEPT ![x] = w]
      /\ UNCHANGED <<life, tree, forms, late, own, env, frozen, expected, clocks, fixed>>
  BY DEF SetWord
<1>2. TypeOK'
  BY <1>1 DEF IInv, TypeOK, life, tree, forms
<1>3. Arrays' /\ Life'
  BY <1>1, LifeOfInv DEF IInv, Arrays, Life, life, tree
<1>4. SameInv' /\ FreezeInv' /\ ClockInv' /\ ValidInv' /\ ListedInv'
  BY <1>1 DEF IInv, SameInv, FreezeInv, ClockInv, ValidInv, ListedInv, Members, Tame,
     OnTime, InTrace, life, tree, forms
<1>5. StaysFrozen
  BY <1>1 DEF StaysFrozen, tree, forms
<1>6. QED
  BY <1>2, <1>3, <1>4, <1>5 DEF IInv, Life

LEMMA InvTraceAddClockClass ==
  ASSUME IInv, NEW c \in Clocks, TraceAddClockClass(c)
  PROVE  IInv' /\ StaysFrozen
<1>1. /\ clocks' = clocks \union {c}
      /\ frozen' = IF Trace \in frozen THEN frozen \union {c} ELSE frozen
      /\ UNCHANGED <<life, tree, forms, data, expected, fixed>>
  BY DEF TraceAddClockClass
<1>2. frozen \subseteq frozen' /\ frozen' \subseteq frozen \union {c}
  BY <1>1
<1>3. /\ \A s \in StreamClasses : s \in frozen' <=> s \in frozen
      /\ Trace \in frozen' <=> Trace \in frozen
  BY <1>2, Sorts
<1>4. TypeOK'
  BY <1>1, <1>2 DEF IInv, TypeOK, life, tree, forms, data
<1>5. Arrays' /\ Life'
  BY <1>1, LifeOfInv DEF IInv, Arrays, Life, life, tree
<1>6. FreezeInv'
  BY <1>1, <1>2, <1>3 DEF IInv, FreezeInv, tree, data
<1>7. SameInv' /\ ClockInv' /\ ValidInv' /\ ListedInv'
  <2>1. \A d \in Scopes : d[1] \in frozen' => d[1] \in frozen
    BY <1>2, ScopeSorts, Sorts
  <2>2. SameInv'
    BY <1>1, <2>1 DEF IInv, SameInv, OnTime, forms, data
  <2>3. QED
    BY <1>1, <1>2, <1>3, <2>2 DEF IInv, ClockInv, ValidInv, ListedInv, Members, Tame, OnTime,
       InTrace, life, tree, forms, data
<1>8. StaysFrozen
  BY <1>1, <1>2 DEF StaysFrozen, tree, forms, data
<1>9. QED
  BY <1>4, <1>5, <1>6, <1>7, <1>8 DEF IInv, Life

LEMMA InvEnvironment ==
  ASSUME IInv, NEW n \in Names, NEW w \in Words,
         SetEnvironmentField(n, w) \/ ChangeEnvironmentValue(n, w)
  PROVE  IInv' /\ StaysFrozen
<1>1. /\ n \notin fixed /\ env' = [env EXCEPT ![n] = w]
      /\ fixed' = IF Trace \in frozen THEN fixed \union {n} ELSE fixed
      /\ UNCHANGED <<life, tree, forms, late, own, word, frozen, expected, clocks>>
  <2>1. CASE SetEnvironmentField(n, w)
    BY <2>1 DEF SetEnvironmentField, IInv, FreezeInv
  <2>2. CASE ChangeEnvironmentValue(n, w)
    BY <2>2 DEF ChangeEnvironmentValue, IInv, FreezeInv
  <2>3. QED
    BY <2>1, <2>2
<1>2. /\ w # None /\ TypeOK
      /\ \A m \in Names : env'[m] = IF m = n THEN w ELSE env[m]
  BY <1>1, Sorts DEF IInv, TypeOK
<1>3. TypeOK'
  BY <1>1, <1>2 DEF TypeOK, life, tree, forms
<1>4. Arrays' /\ Life'
  BY <1>1, LifeOfInv DEF IInv, Arrays, Life, life, tree
<1>5. FreezeInv'
  BY <1>1, <1>2 DEF IInv, FreezeInv, TypeOK, tree
<1>6. SameInv' /\ ClockInv' /\ ValidInv' /\ ListedInv'
  BY <1>1 DEF IInv, SameInv, ClockInv, ValidInv, ListedInv, Members, Tame, OnTime,
     InTrace, life, tree, forms
<1>7. StaysFrozen
  BY <1>1, <1>2 DEF StaysFrozen, TypeOK, tree, forms
<1>8. QED
  BY <1>3, <1>4, <1>5, <1>6, <1>7 DEF IInv, Life

\* The elements of a sequence that is appended to.
LEMMA AppendedSet ==
  ASSUME NEW S, NEW q \in Seq(S), NEW x \in S
  PROVE  /\ Append(q, x) \in Seq(S) /\ ToSet(Append(q, x)) = ToSet(q) \union {x}
         /\ Len(Append(q, x)) = Len(q) + 1
<1>1. /\ Append(q, x) \in Seq(S) /\ Len(Append(q, x)) = Len(q) + 1 /\ Len(q) \in Nat
      /\ \A i \in 1..Len(q) : Append(q, x)[i] = q[i]
      /\ Append(q, x)[Len(q) + 1] = x
  BY AppendProperties
<1>2. DOMAIN q = 1..Len(q) /\ DOMAIN Append(q, x) = 1..(Len(q) + 1)
  BY <1>1
<1>3. 1..(Len(q) + 1) = 1..Len(q) \union {Len(q) + 1} /\ Len(q) + 1 \notin 1..Len(q)
  BY <1>1
<1> DEFINE r == Append(q, x)
<1> HIDE DEF r
<1>4. ToSet(r) = {r[i] : i \in 1..Len(q) \union {Len(q) + 1}}
  BY <1>2, <1>3 DEF ToSet, r
<1>5. ToSet(q) = {q[i] : i \in 1..Len(q)}
  BY <1>2 DEF ToSet
<1>6. (\A i \in 1..Len(q) : r[i] = q[i]) /\ r[Len(q) + 1] = x
  BY <1>1 DEF r
<1>7. ToSet(r) = ToSet(q) \union {x}
  BY <1>4, <1>5, <1>6
<1>8. QED
  BY <1>1, <1>7 DEF r

\* The tree with one more event class in it.
LEMMA LifeAddEventClass ==
  ASSUME IInv, NEW s \in StreamClasses, NEW e \in EventClasses, StreamClassAddEventClass(s, e)
  PROVE  /\ Life' /\ heap'.parent = [heap.parent EXCEPT ![e] = s] /\ Arrays'
         /\ events' \in [StreamClasses -> Seq(EventClasses)] /\ DOMAIN index' = StreamClasses
         /\ \A x \in StreamClasses :
              ToSet(events[x])' = IF x = s THEN ToSet(events[x]) \union {e} ELSE ToSet(events[x])
<1>1. /\ heap' = Attached(heap, e, s) /\ heap.parent[e] = None
      /\ held[s] > 0 /\ held[e] > 0
      /\ events' = [events EXCEPT ![s] = Append(@, e)]
      /\ UNCHANGED <<held, streams>>
  BY DEF StreamClassAddEventClass, TakesEventClass
<1>2. PICK key : index' = [index EXCEPT ![s] =
                     [k \in DOMAIN @ \union {key} |-> IF k = key THEN e ELSE @[k]]]
  BY DEF StreamClassAddEventClass
<1>3. Life /\ held \in [Objects -> Nat] /\ TypeOK /\ Arrays /\ s \in Objects /\ e \in Objects
  BY LifeOfInv, Sorts DEF IInv
<1>4. /\ heap' \in HeapType /\ heap'.parent = [heap.parent EXCEPT ![e] = s]
      /\ Shape(heap') /\ Counted(heap', held) /\ GoneTogether(heap')
  BY <1>1, <1>3, HeldIsAlive, AttachedLife DEF Life
<1>5. Life'
  BY <1>1, <1>3, <1>4 DEF Life
<1>6. /\ events[s] \in Seq(EventClasses)
      /\ Append(events[s], e) \in Seq(EventClasses)
      /\ ToSet(Append(events[s], e)) = ToSet(events[s]) \union {e}
  BY <1>3, AppendedSet DEF TypeOK
<1>7. /\ events' \in [StreamClasses -> Seq(EventClasses)]
      /\ \A x \in StreamClasses : events'[x] = IF x = s THEN Append(events[s], e) ELSE events[x]
  BY <1>1, <1>3, <1>6 DEF TypeOK
<1>8. \A x \in StreamClasses :
        ToSet(events'[x]) = IF x = s THEN ToSet(events[x]) \union {e} ELSE ToSet(events[x])
  BY <1>6, <1>7
<1>9. DOMAIN index' = StreamClasses
  BY <1>2, <1>3 DEF TypeOK
<1>10. \A x \in Objects : heap'.parent[x] = IF x = e THEN s ELSE heap.parent[x]
  BY <1>3, <1>4 DEF Life, HeapType
<1>11. Arrays'
  <2>1. ASSUME NEW x \in StreamClasses
        PROVE  heap'.parent[x] = Trace => x \in ToSet(streams)'
    BY <1>1, <1>3, <1>10, Sorts DEF Arrays
  <2>2. ASSUME NEW x \in StreamClasses, NEW d \in EventClasses
        PROVE  heap'.parent[d] = x <=> d \in ToSet(events'[x])
    <3>1. heap.parent[d] = x <=> d \in ToSet(events[x])
      BY <1>3 DEF Arrays
    <3>2. heap'.parent[d] = IF d = e THEN s ELSE heap.parent[d]
      BY <1>10, Sorts
    <3>3. heap.parent[e] # x
      BY <1>1, Sorts
    <3>4. QED
      BY <1>8, <3>1, <3>2, <3>3
  <2>3. ASSUME NEW x \in StreamClasses, NEW n \in DOMAIN index'[x]
        PROVE  index'[x][n] \in ToSet(events'[x])
    <3>1. CASE x = s
      <4>1. index'[s] = [k \in DOMAIN index[s] \union {key} |-> IF k = key THEN e ELSE index[s][k]]
        BY <1>2, <1>3 DEF TypeOK
      <4>2. \A k \in DOMAIN index[s] : index[s][k] \in ToSet(events[s])
        BY <1>3 DEF Arrays
      <4>3. n \in DOMAIN index[s] \union {key}
        BY <3>1, <4>1
      <4>4. index'[s][n] = IF n = key THEN e ELSE index[s][n]
        BY <4>1, <4>3
      <4>5. ToSet(events'[s]) = ToSet(events[s]) \union {e}
        BY <1>8
      <4>6. QED
        BY <3>1, <4>2, <4>3, <4>4, <4>5
    <3>2. CASE x # s
      BY <1>2, <1>3, <1>8, <3>2 DEF TypeOK, Arrays
    <3>3. QED
      BY <3>1, <3>2
  <2>4. QED
    BY <2>1, <2>2, <2>3 DEF Arrays
<1>12. QED
  BY <1>4, <1>5, <1>7, <1>8, <1>9, <1>11

\* What is copied or mapped.
LEMMA CopiesAndStamps ==
  ASSUME IInv
  PROVE  /\ \A xs : \A c \in Copied(xs) : c \in Scopes /\ c[1] \in xs \ valid
         /\ \A s \in StreamClasses : \A c \in Unmapped(s) :
              /\ c \in Scopes /\ c[1] = s /\ c[2] \in {"packet_context", "event_header"}
              /\ own[s] \in Clocks
<1>1. ASSUME NEW xs, NEW c \in Copied(xs)
      PROVE  c \in Scopes /\ c[1] \in xs \ valid
  BY DEF Copied, ScopesOf
<1>2. ASSUME NEW s \in StreamClasses, NEW c \in Unmapped(s)
      PROVE  /\ c \in Scopes /\ c[1] = s /\ c[2] \in {"packet_context", "event_header"}
             /\ own[s] \in Clocks
  <2>1. c = <<s, "packet_context">> \/ c = <<s, "event_header">>
    BY DEF Unmapped
  <2>2. own[s] # None /\ own[s] \in Clocks \union {None}
    BY DEF Unmapped, IInv, TypeOK
  <2>3. QED
    BY <2>1, <2>2, ScopeSorts
<1>3. QED
  BY <1>1, <1>2

\* What the calls that freeze the classes xs do to types.
Settling(xs, copies, cs, k) ==
  /\ copies \subseteq Scopes /\ cs \subseteq Scopes
  /\ cs # {} => k \in Clocks
  /\ \A c \in copies : c[1] \in xs \ valid
  /\ \A c \in cs : c[2] \in {"packet_context", "event_header"}
  /\ \A c \in Scopes : c[1] \in frozen' => c[1] \in frozen \/ c[1] \in xs
  /\ TypesSettle(xs, copies, cs, k) /\ UNCHANGED late

\* Types that are copied, mapped and frozen: of a type that another frozen class
\* has, only the timestamps change, and it counts as open from then on.
LEMMA Settled ==
  ASSUME IInv, NEW xs, NEW copies, NEW cs, NEW k, Settling(xs, copies, cs, k)
  PROVE  /\ type' \in [Scopes -> FieldTypes] /\ same' \in [Scopes -> SUBSET Scopes]
         /\ hard' \subseteq Scopes /\ open' \subseteq Scopes
         /\ \A c \in Scopes :
              /\ type'[c].present = type[c].present /\ type'[c].sound = type[c].sound
              /\ type'[c].fits = type[c].fits /\ type'[c].numbered = type[c].numbered
              /\ type'[c].clocks \subseteq type[c].clocks \union Some(k)
              /\ cs = {} => type'[c] = type[c]
         /\ SameInv' /\ Respected
<1> DEFINE split == Split(copies)
           touched == UNION {split[x] : x \in cs}
           firm == UNION {same[c] : c \in UNION {ScopesOf(x) : x \in xs}}
           loose == UNION {split[c] : c \in cs \intersect (hard \union copies)}
           Mapped(t) == [t EXCEPT !.stamp = FALSE, !.clocks = @ \union {k}]
<1>1. /\ same' = split
      /\ type' = [c \in Scopes |-> IF c \in touched THEN Mapped(type[c]) ELSE type[c]]
      /\ hard' = hard \union firm
      /\ open' = (open \ copies) \union loose
      /\ copies \subseteq Scopes /\ cs \subseteq Scopes /\ (cs # {} => k \in Clocks)
      /\ \A c \in copies : c[1] \in xs \ valid
      /\ \A c \in cs : c[2] \in {"packet_context", "event_header"}
      /\ \A c \in Scopes : c[1] \in frozen' => c[1] \in frozen \/ c[1] \in xs
      /\ UNCHANGED late
  BY DEF TypesSettle, Settling
<1>2. TypeOK /\ SameInv /\ ValidInv
  BY DEF IInv
<1>3. \A x \in Scopes : split[x] = IF x \in copies THEN {x} ELSE same[x] \ copies
  BY DEF Split
<1>4. split \in [Scopes -> SUBSET Scopes]
  BY <1>2 DEF Split, TypeOK
<1> HIDE DEF split
\* The scopes are split into groups.
<1>5. ASSUME NEW x \in Scopes, NEW d \in split[x]
      PROVE  /\ x \in split[x] /\ d \in Scopes /\ d \in same[x] /\ split[d] = split[x]
             /\ d \in copies <=> x \in copies
  <2>1. x \in same[x]
    BY <1>2 DEF SameInv
  <2>2. CASE x \in copies
    BY <1>3, <2>1, <2>2
  <2>3. CASE x \notin copies
    <3>1. d \in same[x] /\ d \notin copies /\ d \in Scopes
      BY <1>2, <1>3, <2>3 DEF TypeOK
    <3>2. same[d] = same[x]
      BY <1>2, <3>1 DEF SameInv
    <3>3. QED
      BY <1>3, <2>1, <2>3, <3>1, <3>2
  <2>4. QED
    BY <2>2, <2>3
<1>6. ASSUME NEW x \in Scopes
      PROVE  x \in split[x]
  <2>1. x \in same[x]
    BY <1>2 DEF SameInv
  <2>2. QED
    BY <1>3, <2>1
<1>7. \A x \in Scopes : \A d \in split[x] :
        /\ d \in touched <=> x \in touched
        /\ d \in loose <=> x \in loose
  <2>1. ASSUME NEW x \in Scopes, NEW d \in split[x], NEW y \in Scopes
        PROVE  d \in split[y] <=> x \in split[y]
    BY <1>5, <1>6
  <2>2. cs \subseteq Scopes
    BY <1>1
  <2>3. QED
    BY <2>1, <2>2
<1>8. touched \subseteq Scopes /\ loose \subseteq Scopes
  BY <1>1, <1>4
<1>9. firm \subseteq Scopes
  BY <1>2 DEF TypeOK, ScopesOf
<1>10. \A x \in Scopes : \A d \in same[x] : d \in Scopes /\ (d \in firm <=> x \in firm)
  <2>1. ASSUME NEW x \in Scopes, NEW d \in same[x], NEW y \in Scopes
        PROVE  d \in Scopes /\ (d \in same[y] <=> x \in same[y])
    BY <1>2 DEF SameInv, TypeOK
  <2>2. UNION {ScopesOf(x) : x \in xs} \subseteq Scopes
    BY DEF ScopesOf
  <2>3. QED
    BY <2>1, <2>2
\* The types.
<1>11. ASSUME NEW t \in FieldTypes, k \in Clocks
       PROVE  /\ Mapped(t) \in FieldTypes
              /\ Mapped(t).present = t.present /\ Mapped(t).sound = t.sound
              /\ Mapped(t).fits = t.fits /\ Mapped(t).numbered = t.numbered
              /\ Mapped(t).links = t.links /\ Mapped(t).clocks = t.clocks \union {k}
  BY <1>11 DEF FieldTypes
<1> HIDE DEF Mapped
<1>12. touched # {} => k \in Clocks /\ Some(k) = {k}
  BY <1>1, Sorts DEF Some
<1>13. \A c \in Scopes : type[c] \in FieldTypes
  BY <1>2 DEF TypeOK
<1>14. ASSUME NEW c \in Scopes
       PROVE  /\ type'[c] = IF c \in touched THEN Mapped(type[c]) ELSE type[c]
              /\ type'[c] \in FieldTypes
              /\ type'[c].present = type[c].present /\ type'[c].sound = type[c].sound
              /\ type'[c].fits = type[c].fits /\ type'[c].numbered = type[c].numbered
              /\ type'[c].clocks \subseteq type[c].clocks \union Some(k)
              /\ Untimed(type'[c]) = Untimed(type[c])
  <2>1. type'[c] = IF c \in touched THEN Mapped(type[c]) ELSE type[c]
    BY <1>1
  <2>2. CASE c \in touched
    BY <1>11, <1>12, <1>13, <2>1, <2>2, UntimedTypes
  <2>3. CASE c \notin touched
    BY <1>13, <2>1, <2>3
  <2>4. QED
    BY <2>1, <2>2, <2>3
<1>15. type' \in [Scopes -> FieldTypes]
  BY <1>1, <1>14
<1>16. cs = {} => \A c \in Scopes : type'[c] = type[c]
  BY <1>14
<1> HIDE DEF touched, loose, firm
\* The flags.
<1>17. ASSUME NEW x \in Scopes, NEW d \in split[x]
       PROVE  /\ split[d] = split[x] /\ type'[d] = type'[x] /\ d[2] = x[2]
              /\ d \in hard' <=> x \in hard'
              /\ d \in open' <=> x \in open'
  <2>1. d \in Scopes /\ d \in same[x] /\ split[d] = split[x] /\ (d \in copies <=> x \in copies)
    BY <1>5
  <2>2. /\ type[d] = type[x] /\ d[2] = x[2]
        /\ d \in hard <=> x \in hard
        /\ d \in open <=> x \in open
    BY <1>2, <2>1 DEF SameInv
  <2>3. (d \in touched <=> x \in touched) /\ (d \in loose <=> x \in loose)
    BY <1>7
  <2>4. d \in firm <=> x \in firm
    BY <1>10, <2>1
  <2>5. type'[d] = type'[x]
    BY <1>14, <2>1, <2>2, <2>3
  <2>6. QED
    BY <1>1, <2>1, <2>2, <2>3, <2>4, <2>5
<1>18. ASSUME NEW c \in open'
       PROVE  c[1] \in StreamClasses
  <2>1. CASE c \in open
    BY <1>2, <2>1 DEF SameInv
  <2>2. CASE c \notin open
    <3>1. PICK x \in cs : c \in split[x]
      BY <1>1, <1>18, <2>2 DEF loose
    <3>2. c \in Scopes /\ c[2] = x[2] /\ x[2] \in {"packet_context", "event_header"}
      BY <1>1, <1>5, <1>17, <3>1
    <3>3. QED
      BY <3>2 DEF Scopes
  <2>3. QED
    BY <2>1, <2>2
<1>19. \A c \in Scopes : c[1] \in frozen' /\ OnTime(c)' => c \in hard'
  <2>1. ASSUME NEW c \in Scopes, c[1] \in frozen', OnTime(c)'
        PROVE  c \in hard'
    <3>1. OnTime(c)
      BY <1>1, <2>1 DEF OnTime
    <3>2. CASE c[1] \in frozen
      BY <1>1, <1>2, <3>1, <3>2 DEF SameInv
    <3>3. CASE c[1] \in xs
      <4>1. c \in same[c] /\ c \in ScopesOf(c[1])
        BY <1>2 DEF SameInv, ScopesOf
      <4>2. QED
        BY <1>1, <3>3, <4>1 DEF firm
    <3>4. QED
      BY <1>1, <2>1, <3>2, <3>3
  <2>2. QED
    BY <2>1
<1>20. SameInv'
  BY <1>1, <1>6, <1>17, <1>18, <1>19 DEF SameInv
<1>21. Respected
  <2>1. SUFFICES ASSUME NEW c \in Scopes, c[1] \in frozen, OnTime(c)', c \notin open'
                 PROVE  c \notin open /\ type'[c] = type[c]
    BY <1>14 DEF Respected
  <2>2. c \notin open
    <3>1. SUFFICES ASSUME c \in open PROVE FALSE
      OBVIOUS
    <3>2. c \in copies /\ c[1] \in StreamClasses
      BY <1>1, <1>2, <2>1, <3>1 DEF SameInv
    <3>3. QED
      BY <1>1, <1>2, <2>1, <3>2 DEF ValidInv
  <2>3. c \notin touched
    <3>1. SUFFICES ASSUME NEW x \in cs, c \in split[x] PROVE FALSE
      BY DEF touched
    <3>2. c \in same[x] /\ x \in Scopes
      BY <1>1, <1>5, <3>1
    <3>3. x \notin hard
      BY <1>1, <2>1, <3>1 DEF loose
    <3>4. c \in hard
      BY <1>1, <1>2, <2>1 DEF SameInv, OnTime
    <3>5. QED
      BY <1>2, <3>2, <3>3, <3>4 DEF SameInv
  <2>4. QED
    BY <1>14, <2>2, <2>3
<1>22. hard' \subseteq Scopes /\ open' \subseteq Scopes
  BY <1>1, <1>2, <1>8, <1>9 DEF TypeOK
<1>23. QED
  BY <1>1, <1>4, <1>14, <1>15, <1>16, <1>20, <1>21, <1>22

\* What a call that respects the types of frozen classes leaves alone.
LEMMA RespectedTypes ==
  ASSUME IInv, Respected, UNCHANGED late
  PROVE  \A c \in Scopes : c[1] \in frozen /\ Tame(c)' => Tame(c) /\ type'[c] = type[c]
BY DEF Respected, Tame, OnTime

LEMMA InvAddEventClass ==
  ASSUME IInv, NEW s \in StreamClasses, NEW e \in EventClasses, StreamClassAddEventClass(s, e)
  PROVE  IInv' /\ StaysFrozen
<1> DEFINE auto == id[e] < 0
           n == IF auto THEN nextEvent[s] ELSE id[e]
<1>1. /\ Life' /\ Arrays'
      /\ events' \in [StreamClasses -> Seq(EventClasses)] /\ DOMAIN index' = StreamClasses
      /\ \A x \in StreamClasses :
           ToSet(events[x])' = IF x = s THEN ToSet(events[x]) \union {e} ELSE ToSet(events[x])
  BY LifeAddEventClass
<1>2. /\ id' = [id EXCEPT ![e] = n]
      /\ nextEvent' = [nextEvent EXCEPT ![s] = IF auto THEN @ + 1 ELSE @]
      /\ valid' = IF InTrace(s) THEN valid \union {e} ELSE valid
      /\ frozen' = Freezing({e})
      /\ expected' = IF s \in frozen
                     THEN [expected EXCEPT ![s] = TheClock({e}, @)] ELSE expected
      /\ UNCHANGED <<held, streams, nextStream, data, clocks, fixed, sets, refs>>
      /\ s \in frozen => SingleClock({e}, expected[s])
      /\ InTrace(s) => Validates(e)
      /\ id[e] < 0 => e \notin frozen
      /\ TypesSettle({e}, IF InTrace(s) THEN Copied({e}) ELSE {}, {}, None)
  BY DEF StreamClassAddEventClass, TakesEventClass
<1>3. /\ TypeOK /\ SameInv /\ FreezeInv /\ ClockInv /\ ValidInv /\ ListedInv /\ Arrays
      /\ e \in Objects /\ s \in Objects /\ e \notin StreamClasses /\ e # Trace
  BY Sorts DEF IInv
<1>4. frozen' = frozen \union {e}
  <2>1. {e} \intersect StreamClasses = {} /\ Trace \notin {e}
    BY <1>3
  <2>2. UNION {Some(expected[x]) : x \in ({e} \intersect StreamClasses) \ frozen} = {}
    BY <2>1
  <2>3. QED
    BY <1>2, <2>1, <2>2 DEF Freezing
<1>5. /\ n \in Nat
      /\ id[e] >= 0 => n = id[e]
      /\ \A x \in StreamClasses \union EventClasses : id'[x] = IF x = e THEN n ELSE id[x]
      /\ id' \in [StreamClasses \union EventClasses -> Int]
      /\ nextEvent' \in [StreamClasses -> Nat]
  BY <1>2, <1>3 DEF TypeOK
<1> HIDE DEF n, auto
<1>6. s \in frozen => /\ TheClock({e}, expected[s]) \in Clocks \union {None}
                      /\ expected[s] # None => TheClock({e}, expected[s]) = expected[s]
                      /\ ClocksIn({e}) \subseteq Some(TheClock({e}, expected[s]))
  <2>1. expected[s] \in Clocks \union {None}
    BY <1>3 DEF TypeOK
  <2>2. QED
    BY <1>2, <1>3, <2>1, ClassesAssumption, OneClockFound
<1>7. /\ \A x \in StreamClasses : expected'[x] =
           IF x = s /\ s \in frozen THEN TheClock({e}, expected[s]) ELSE expected[x]
      /\ expected' \in [StreamClasses -> Clocks \union {None}]
  BY <1>2, <1>3, <1>6 DEF TypeOK
\* The types.
<1>8. /\ type' \in [Scopes -> FieldTypes] /\ same' \in [Scopes -> SUBSET Scopes]
      /\ hard' \subseteq Scopes /\ open' \subseteq Scopes
      /\ \A c \in Scopes : type'[c] = type[c]
      /\ SameInv' /\ Respected
  <2>1. PICK copies : copies = IF InTrace(s) THEN Copied({e}) ELSE {}
    OBVIOUS
  <2>2. copies \subseteq Scopes /\ \A c \in copies : c[1] \in {e} \ valid
    BY <2>1, CopiesAndStamps
  <2>3. UNCHANGED late /\ \A c \in Scopes : c[1] \in frozen' => c[1] \in frozen \/ c[1] \in {e}
    BY <1>2, <1>4 DEF data
  <2>4. PICK cs : cs = {}
    OBVIOUS
  <2>5. TypesSettle({e}, copies, cs, None)
    BY <1>2, <2>1, <2>4
  <2>6. Settling({e}, copies, cs, None)
    BY <2>2, <2>3, <2>4, <2>5 DEF Settling
  <2>7. QED
    BY <2>4, <2>6, Settled
<1>9. \A c \in Scopes : c[1] \in frozen /\ Tame(c)' => Tame(c) /\ type'[c] = type[c]
  <2>1. UNCHANGED late
    BY <1>2 DEF data
  <2>2. QED
    BY <1>8, <2>1, RespectedTypes
<1>10. ASSUME NEW x \in StreamClasses
       PROVE  heap'.parent[x] = heap.parent[x]
  <2>1. heap'.parent = [heap.parent EXCEPT ![e] = s] /\ heap \in HeapType
    BY LifeAddEventClass, LifeOfInv DEF Life
  <2>2. x \in Objects /\ x # e
    BY Sorts
  <2>3. QED
    BY <2>1, <2>2 DEF HeapType
<1>11. TypeOK'
  BY <1>1, <1>2, <1>3, <1>4, <1>5, <1>7, <1>8 DEF TypeOK, Life, HeapType, data
<1>12. FreezeInv'
  BY <1>1, <1>2, <1>3, <1>4, <1>7 DEF FreezeInv, data
<1>13. ClockInv'
  <2>1. SUFFICES ASSUME NEW x \in frozen \intersect StreamClasses
                 PROVE  /\ own[x] # None => expected'[x] = own[x]
                        /\ \A c \in Scopes : c[1] \in Members(x)' /\ Tame(c)' =>
                             type[c].clocks \subseteq Some(expected'[x])
    BY <1>2, <1>3, <1>4, <1>8 DEF ClockInv, data
  <2>2. /\ own[x] # None => expected[x] = own[x]
        /\ \A c \in Scopes : c[1] \in Members(x) /\ Tame(c) => type[c].clocks \subseteq Some(expected[x])
    BY <1>3 DEF ClockInv
  <2>3. \A c \in Scopes : c[1] \in Members(x) /\ Tame(c)' => Tame(c)
    BY <1>3, <1>9 DEF FreezeInv, Members
  <2>4. CASE x # s
    <3>1. Members(x)' = Members(x) /\ expected'[x] = expected[x]
      BY <1>1, <1>7, <2>4 DEF Members
    <3>2. QED
      BY <2>2, <2>3, <3>1
  <2>5. CASE x = s
    <3>1. Members(x)' = Members(x) \union {e} /\ expected'[x] = TheClock({e}, expected[s])
      BY <1>1, <1>7, <2>5 DEF Members
    <3>2. Some(expected[x]) \subseteq Some(expected'[x])
      BY <1>6, <2>5, <3>1 DEF Some
    <3>3. \A c \in Scopes : c[1] = e => type[c].clocks \subseteq Some(expected'[x])
      BY <1>6, <2>5, <3>1, ClocksInMembers
    <3>4. own[x] # None => expected'[x] = own[x]
      BY <1>6, <2>2, <2>5, <3>1
    <3>5. QED
      BY <2>2, <2>3, <3>1, <3>2, <3>3, <3>4
  <2>6. QED
    BY <2>4, <2>5
<1>14. ValidInv'
  <2>1. valid' \subseteq frozen'
    BY <1>2, <1>3, <1>4 DEF ValidInv
  <2>2. ASSUME NEW c \in Scopes, c[1] \in valid', Tame(c)'
        PROVE  type[c].sound
    <3>1. CASE c[1] \in valid
      BY <1>3, <1>9, <2>2, <3>1 DEF ValidInv
    <3>2. CASE c[1] \notin valid
      <4>1. c[1] = e /\ Validates(e)
        BY <1>2, <2>2, <3>2
      <4>2. QED
        BY <3>2, <4>1 DEF Validates, Sound, ScopesOf
    <3>3. QED
      BY <3>1, <3>2
  <2>3. \A x \in StreamClasses : \A d \in ToSet(events[x])' : id'[d] >= 0
    <3>1. \A x \in StreamClasses : ToSet(events[x]) \subseteq EventClasses
      BY <1>3 DEF TypeOK, ToSet
    <3>2. \A d \in EventClasses : id[d] >= 0 \/ d = e => id'[d] >= 0
      BY <1>5
    <3>3. \A x \in StreamClasses : \A d \in ToSet(events[x]) : id[d] >= 0
      BY <1>3 DEF ValidInv
    <3>4. QED
      BY <1>1, <3>1, <3>2, <3>3
  <2>4. frozen' \intersect StreamClasses \subseteq valid'
    BY <1>2, <1>3, <1>4 DEF ValidInv
  <2>5. QED
    BY <1>2, <1>3, <1>4, <1>8, <2>1, <2>2, <2>3, <2>4 DEF ValidInv, data
<1>15. ListedInv'
  <2>1. ToSet(streams) \subseteq StreamClasses
    BY <1>3 DEF TypeOK, ToSet
  <2>2. ASSUME NEW x \in ToSet(streams)
        PROVE  /\ x \in valid' /\ id'[x] >= 0
               /\ InTrace(x)' => Members(x)' \subseteq valid'
    <3>1. /\ x \in valid /\ id[x] >= 0 /\ x \in StreamClasses
          /\ InTrace(x) => Members(x) \subseteq valid
      BY <1>3, <2>1 DEF ListedInv
    <3>2. InTrace(x)' <=> InTrace(x)
      BY <3>1, <1>10 DEF InTrace
    <3>3. Members(x)' = IF x = s THEN Members(x) \union {e} ELSE Members(x)
      BY <1>1, <3>1 DEF Members
    <3>4. QED
      BY <1>2, <1>3, <1>5, <3>1, <3>2, <3>3
  <2>3. ASSUME NEW x \in ToSet(streams), NEW c \in {<<x, "packet_context">>, <<x, "event_header">>},
               Tame(c)', type[c].present
        PROVE  type[c].fits
    <3>1. c \in Scopes /\ c[1] = x /\ x \in frozen
      BY <1>3, <2>1, StreamScopes DEF ListedInv, ValidInv
    <3>2. QED
      BY <1>3, <1>9, <2>3, <3>1 DEF ListedInv
  <2>4. \A x \in ToSet(streams) :
          <<x, "packet_context">> \in Scopes /\ <<x, "event_header">> \in Scopes
    BY <2>1, ScopeSorts
  <2>5. QED
    BY <1>2, <1>3, <1>8, <2>2, <2>3, <2>4, ScopeSorts DEF ListedInv, data
<1>16. StaysFrozen
  <2>1. \A x \in frozen \intersect DOMAIN id : id[x] >= 0 => id'[x] = id[x]
    BY <1>3, <1>5 DEF TypeOK
  <2>2. \A x \in frozen \intersect StreamClasses : expected[x] # None => expected'[x] = expected[x]
    BY <1>6, <1>7
  <2>3. QED
    BY <1>2, <1>4, <1>8, <2>1, <2>2 DEF StaysFrozen, Respected, data
<1>17. QED
  BY <1>1, <1>11, <1>12, <1>13, <1>14, <1>15, <1>16, <1>8 DEF IInv, Life

\* A stream class that is mapped and frozen: its clock is found the first time
\* and stays.
LEMMA ClassFrozen ==
  ASSUME IInv, NEW s \in StreamClasses, NEW xs, s \in xs,
         s \notin frozen => SingleClock(Members(s), own[s]),
         TypesSettle(xs, Copied(xs), Unmapped(s), own[s]),
         expected' = [expected EXCEPT ![s] =
                        IF s \notin frozen THEN TheClock(Members(s), own[s]) ELSE @],
         frozen' \intersect StreamClasses = (frozen \intersect StreamClasses) \union {s},
         \A c \in Scopes : c[1] \in frozen' => c[1] \in frozen \/ c[1] \in xs,
         UNCHANGED <<events, late, own>>
  PROVE  /\ type' \in [Scopes -> FieldTypes] /\ same' \in [Scopes -> SUBSET Scopes]
         /\ hard' \subseteq Scopes /\ open' \subseteq Scopes
         /\ \A c \in Scopes :
              /\ type'[c].present = type[c].present /\ type'[c].sound = type[c].sound
              /\ type'[c].fits = type[c].fits /\ type'[c].numbered = type[c].numbered
         /\ SameInv' /\ Respected
         /\ \A c \in Scopes : c[1] \in frozen /\ Tame(c)' => Tame(c) /\ type'[c] = type[c]
         /\ expected' \in [StreamClasses -> Clocks \union {None}]
         /\ \A x \in StreamClasses : x # s => expected'[x] = expected[x]
         /\ s \in frozen => expected'[s] = expected[s]
         /\ ClockInv'
<1>1. /\ TypeOK /\ FreezeInv /\ ClockInv /\ own[s] \in Clocks \union {None}
      /\ \A x \in StreamClasses : ToSet(events[x]) \subseteq EventClasses
  BY DEF IInv, TypeOK, ToSet
<1>2. /\ Copied(xs) \subseteq Scopes /\ \A c \in Copied(xs) : c[1] \in xs \ valid
      /\ Unmapped(s) \subseteq Scopes
      /\ \A c \in Unmapped(s) : c[2] \in {"packet_context", "event_header"}
      /\ Unmapped(s) # {} => own[s] \in Clocks
  BY CopiesAndStamps
<1>3. /\ type' \in [Scopes -> FieldTypes] /\ same' \in [Scopes -> SUBSET Scopes]
      /\ hard' \subseteq Scopes /\ open' \subseteq Scopes
      /\ \A c \in Scopes :
           /\ type'[c].present = type[c].present /\ type'[c].sound = type[c].sound
           /\ type'[c].fits = type[c].fits /\ type'[c].numbered = type[c].numbered
           /\ type'[c].clocks \subseteq type[c].clocks \union Some(own[s])
      /\ SameInv' /\ Respected
  <2>1. Settling(xs, Copied(xs), Unmapped(s), own[s])
    BY <1>2 DEF Settling
  <2>2. QED
    BY <2>1, Settled
<1>4. \A c \in Scopes : c[1] \in frozen /\ Tame(c)' => Tame(c) /\ type'[c] = type[c]
  BY <1>3, RespectedTypes
<1>5. s \notin frozen =>
        /\ TheClock(Members(s), own[s]) \in Clocks \union {None}
        /\ own[s] # None => TheClock(Members(s), own[s]) = own[s]
        /\ ClocksIn(Members(s)) \subseteq Some(TheClock(Members(s), own[s]))
  BY <1>1, ClassesAssumption, OneClockFound
<1>6. /\ \A x \in StreamClasses : expected'[x] =
           IF x = s /\ s \notin frozen THEN TheClock(Members(s), own[s]) ELSE expected[x]
      /\ expected' \in [StreamClasses -> Clocks \union {None}]
  BY <1>1, <1>5 DEF TypeOK
<1>7. ClockInv'
  <2>1. SUFFICES ASSUME NEW x \in frozen' \intersect StreamClasses
                 PROVE  /\ own[x] # None => expected'[x] = own[x]
                        /\ \A c \in Scopes : c[1] \in Members(x) /\ Tame(c)' =>
                             type'[c].clocks \subseteq Some(expected'[x])
    BY DEF ClockInv, Members
  <2>2. CASE x = s /\ s \notin frozen
    <3>1. own[x] # None => expected'[x] = own[x]
      BY <1>5, <1>6, <2>2
    <3>2. ASSUME NEW c \in Scopes, c[1] \in Members(x)
          PROVE  type'[c].clocks \subseteq Some(expected'[x])
      <4>1. type[c].clocks \subseteq ClocksIn(Members(x))
        BY <3>2, ClocksInMembers
      <4>2. Some(own[s]) \subseteq Some(expected'[x])
        BY <2>2, <3>1 DEF Some
      <4>3. QED
        BY <1>3, <1>5, <1>6, <2>2, <4>1, <4>2
    <3>3. QED
      BY <3>1, <3>2
  <2>3. CASE ~(x = s /\ s \notin frozen)
    <3>1. x \in frozen /\ expected'[x] = expected[x]
      BY <1>6, <2>3
    <3>2. /\ own[x] # None => expected[x] = own[x]
          /\ \A c \in Scopes : c[1] \in Members(x) /\ Tame(c) =>
               type[c].clocks \subseteq Some(expected[x])
      BY <1>1, <3>1 DEF ClockInv
    <3>3. Members(x) \subseteq frozen
      BY <1>1, <3>1 DEF Members, FreezeInv
    <3>4. QED
      BY <1>4, <3>1, <3>2, <3>3
  <2>4. QED
    BY <2>2, <2>3
<1>8. QED
  BY <1>3, <1>4, <1>6, <1>7

\* A class that is refused keeps the identifier that it was given.
LEMMA InvRefusedStreamClass ==
  ASSUME IInv, NEW s \in StreamClasses, TakeId(s),
         UNCHANGED <<heap, held, streams, events, index, nextEvent, valid, forms, data, frozen,
                     expected, clocks, fixed>>
  PROVE  IInv' /\ StaysFrozen
<1>1. /\ TypeOK /\ Arrays /\ s \notin EventClasses
      /\ nextStream \in Nat /\ id \in [StreamClasses \union EventClasses -> Int]
  BY Sorts DEF IInv, TypeOK
<1>2. /\ nextStream' \in Nat /\ id' \in [StreamClasses \union EventClasses -> Int]
      /\ \A x \in StreamClasses \union EventClasses : id[x] >= 0 \/ x # s => id'[x] = id[x]
  BY <1>1 DEF TakeId, NewId
<1>3. TypeOK'
  BY <1>1, <1>2 DEF TypeOK, forms, data
<1>4. Arrays' /\ Life'
  BY <1>1, LifeOfInv DEF Arrays, Life
<1>5. SameInv' /\ FreezeInv' /\ ClockInv'
  BY DEF IInv, SameInv, FreezeInv, ClockInv, Members, Tame, OnTime, forms, data
<1>6. ToSet(streams) \subseteq StreamClasses /\ \A x \in StreamClasses : ToSet(events[x]) \subseteq EventClasses
  BY <1>1 DEF TypeOK, ToSet
<1>7. ValidInv'
  BY <1>1, <1>2, <1>6 DEF IInv, ValidInv, Tame, OnTime, forms, data
<1>8. ListedInv'
  BY <1>1, <1>2, <1>6 DEF IInv, ListedInv, Members, Tame, OnTime, InTrace, forms, data
<1>9. StaysFrozen
  BY <1>1, <1>2 DEF StaysFrozen, forms, data
<1>10. QED
  BY <1>3, <1>4, <1>5, <1>7, <1>8, <1>9 DEF IInv, Life

LEMMA InvListedStreamClass ==
  ASSUME IInv, NEW s \in StreamClasses, held[Trace] > 0 \/ held[Writer] > 0, AddStreamClass(s),
         streams' # streams
  PROVE  IInv' /\ StaysFrozen
<1> DEFINE xs == {Trace} \union Members(s)
<1>1. /\ held[s] > 0 /\ heap.parent[s] = None /\ TakesStreamClass(s) /\ TakeId(s)
      /\ IdIsFree(s) /\ PacketHeaderFits /\ PacketContextFits(s) /\ EventHeaderFits(s)
      /\ TypesSettle(xs, Copied(xs), Unmapped(s), own[s])
      /\ heap' = Attached(heap, s, Trace)
      /\ streams' = Append(streams, s)
      /\ valid' = valid \union {Trace} \union Members(s)
      /\ frozen' = Freezing({s, Trace})
      /\ fixed' = IF Trace \in frozen THEN fixed ELSE {n \in Names : env[n] # None}
      /\ expected' = IF s \in frozen
                     THEN [expected EXCEPT ![s] = IF Expected(s) = None THEN @ ELSE Expected(s)]
                     ELSE [expected EXCEPT ![s] = TheClock(Members(s), Expected(s))]
      /\ UNCHANGED <<held, events, index, nextEvent, late, own, word, env, clocks>>
  BY DEF AddStreamClass, data
<1>2. /\ TypeOK /\ Arrays /\ FreezeInv /\ ClockInv /\ ValidInv /\ ListedInv /\ Shape(heap)
      /\ s \in Objects /\ Trace \in Objects /\ Trace # s /\ Trace \notin StreamClasses
      /\ ToSet(streams) \subseteq StreamClasses
      /\ \A x \in StreamClasses : ToSet(events[x]) \subseteq EventClasses
      /\ \A x \in StreamClasses : \A d \in EventClasses : d # x /\ d # Trace
  BY Sorts DEF IInv, TypeOK, ToSet
\* The tree.
<1>3. heap.ref[RootOf(heap, Trace)] > 0 /\ heap.ref[s] > 0
  <2>1. RootOf(heap, Trace) = Writer /\ RootOf(heap, Writer) = Writer
    BY LifeOfInv, RootsOfSorts DEF Life
  <2>2. QED
    BY <1>1, <1>2, <2>1, HeldIsAlive, Sorts
<1>4. /\ heap' \in HeapType /\ heap'.parent = [heap.parent EXCEPT ![s] = Trace]
      /\ Shape(heap') /\ Counted(heap', held) /\ GoneTogether(heap')
  <2>1. Life /\ held \in [Objects -> Nat]
    BY LifeOfInv
  <2>2. QED
    BY <1>1, <1>3, <2>1, AttachedLife DEF Life
<1>5. Life'
  BY <1>1, <1>4, LifeOfInv DEF Life
<1>6. /\ streams' \in Seq(StreamClasses) /\ ToSet(streams)' = ToSet(streams) \union {s}
      /\ Len(streams') = Len(streams) + 1 /\ Len(streams) \in Nat
      /\ streams = <<>> <=> Len(streams) = 0
  <2>1. streams \in Seq(StreamClasses)
    BY <1>2 DEF TypeOK
  <2>2. ToSet(Append(streams, s)) = ToSet(streams) \union {s}
    BY <2>1, AppendedSet
  <2>3. ToSet(streams)' = ToSet(Append(streams, s))
    BY <1>1
  <2>4. QED
    BY <1>1, <2>1, <2>2, <2>3, AppendedSet
<1>7. \A x \in Objects : heap'.parent[x] = IF x = s THEN Trace ELSE heap.parent[x]
  BY <1>4, LifeOfInv DEF Life, HeapType
<1>8. Arrays'
  <2>1. ASSUME NEW x \in StreamClasses
        PROVE  heap'.parent[x] = Trace => x \in ToSet(streams)'
    BY <1>2, <1>6, <1>7, Sorts DEF Arrays
  <2>2. ASSUME NEW x \in StreamClasses, NEW d \in EventClasses
        PROVE  heap'.parent[d] = x <=> d \in ToSet(events[x])
    BY <1>2, <1>7, Sorts DEF Arrays
  <2>3. \A x \in StreamClasses : \A n \in DOMAIN index[x] : index[x][n] \in ToSet(events[x])
    BY <1>2 DEF Arrays
  <2>4. QED
    BY <1>1, <2>1, <2>2, <2>3 DEF Arrays
\* Identifiers.
<1>9. /\ id' \in [StreamClasses \union EventClasses -> Int] /\ nextStream' \in Nat /\ id'[s] >= 0
      /\ \A x \in StreamClasses \union EventClasses : id[x] >= 0 \/ x # s => id'[x] = id[x]
  BY <1>1, <1>2 DEF TakeId, NewId, TypeOK
\* What is frozen, and the clock.
<1>10. /\ frozen' = frozen \union {s, Trace} \union (IF Trace \in frozen THEN {} ELSE clocks)
       /\ s \notin frozen => expected[s] = None
  <2>1. \A x \in ({s, Trace} \intersect StreamClasses) \ frozen : x \in StreamClasses \ frozen
    OBVIOUS
  <2>2. \A x \in ({s, Trace} \intersect StreamClasses) \ frozen : Some(expected[x]) = {}
    BY <1>2, <2>1 DEF FreezeInv, Some
  <2>3. UNION {Some(expected[x]) : x \in ({s, Trace} \intersect StreamClasses) \ frozen} = {}
    BY <2>2
  <2>4. s \notin frozen => expected[s] = None
    BY <1>2 DEF FreezeInv
  <2>5. QED
    BY <1>1, <2>3, <2>4 DEF Freezing
<1>11. clocks \subseteq Clocks
  BY <1>2 DEF TypeOK
<1>12. /\ frozen' \intersect StreamClasses = (frozen \intersect StreamClasses) \union {s}
       /\ \A c \in Scopes : c[1] \in frozen' => c[1] \in frozen \/ c[1] \in xs
  <2>1. \A x \in clocks : x \notin Objects
    BY <1>11, Sorts
  <2>2. \A c \in Scopes : c[1] \in Objects
    BY ScopeSorts
  <2>3. QED
    BY <1>2, <1>10, <2>1, <2>2, Sorts DEF Members
<1>13. expected' = [expected EXCEPT ![s] =
                      IF s \notin frozen THEN TheClock(Members(s), own[s]) ELSE @]
  <2>1. CASE s \in frozen
    <3>1. own[s] # None => expected[s] = own[s]
      BY <1>2, <2>1 DEF ClockInv
    <3>2. Expected(s) = None
      BY <3>1 DEF Expected
    <3>3. QED
      BY <1>1, <2>1, <3>2
  <2>2. CASE s \notin frozen
    <3>1. Expected(s) = own[s]
      BY <1>10, <2>2 DEF Expected
    <3>2. QED
      BY <1>1, <2>2, <3>1
  <2>3. QED
    BY <2>1, <2>2
<1>14. s \notin frozen => SingleClock(Members(s), own[s])
  <2>1. s \notin frozen => Expected(s) = own[s]
    BY <1>10 DEF Expected
  <2>2. QED
    BY <1>1, <2>1 DEF TakesStreamClass
<1>15. s \in xs /\ UNCHANGED <<events, late, own>>
  BY <1>1 DEF Members
<1>16. \A x \in xs : Validates(x)
  BY <1>1 DEF TakesStreamClass
<1>17. valid' = valid \union xs
  BY <1>1
<1> HIDE DEF xs
<1>18. /\ type' \in [Scopes -> FieldTypes] /\ same' \in [Scopes -> SUBSET Scopes]
       /\ hard' \subseteq Scopes /\ open' \subseteq Scopes
       /\ \A c \in Scopes :
            /\ type'[c].present = type[c].present /\ type'[c].sound = type[c].sound
            /\ type'[c].fits = type[c].fits /\ type'[c].numbered = type[c].numbered
       /\ SameInv' /\ Respected
       /\ \A c \in Scopes : c[1] \in frozen /\ Tame(c)' => Tame(c) /\ type'[c] = type[c]
       /\ expected' \in [StreamClasses -> Clocks \union {None}]
       /\ \A x \in StreamClasses : x # s => expected'[x] = expected[x]
       /\ s \in frozen => expected'[s] = expected[s]
       /\ ClockInv'
  BY <1>1, <1>12, <1>13, <1>14, <1>15, ClassFrozen
<1>19. TypeOK'
  <2>1. frozen' \subseteq Objects \union Clocks
    BY <1>2, <1>10, <1>11 DEF TypeOK
  <2>2. valid' \subseteq Objects
    BY <1>2, <1>17, Sorts DEF TypeOK, xs, Members
  <2>3. late' \subseteq frozen' \intersect StreamClasses
    BY <1>1, <1>2, <1>10 DEF TypeOK
  <2>4. fixed' \subseteq Names
    BY <1>1, <1>2 DEF TypeOK
  <2>5. QED
    BY <1>1, <1>2, <1>5, <1>6, <1>9, <1>18, <2>1, <2>2, <2>3, <2>4 DEF TypeOK, Life, HeapType
<1>20. FreezeInv'
  <2>1. \A x \in StreamClasses : ToSet(events[x])' \subseteq frozen'
    BY <1>1, <1>2, <1>10 DEF FreezeInv
  <2>2. \A x \in StreamClasses \ frozen' : expected'[x] = None
    BY <1>2, <1>10, <1>18 DEF FreezeInv
  <2>3. \A n \in fixed' : env[n] # None /\ Trace \in frozen'
    BY <1>1, <1>2, <1>10 DEF FreezeInv
  <2>4. clocks \subseteq frozen' /\ \A n \in Names : env[n] # None => n \in fixed'
    BY <1>1, <1>2, <1>10 DEF FreezeInv
  <2>5. QED
    BY <1>1, <2>1, <2>2, <2>3, <2>4 DEF FreezeInv
<1>21. ValidInv'
  <2>1. valid' \subseteq frozen'
    BY <1>1, <1>2, <1>10 DEF ValidInv, FreezeInv, Members
  <2>2. frozen' \intersect StreamClasses \subseteq valid'
    BY <1>2, <1>12, <1>15, <1>17 DEF ValidInv
  <2>3. ASSUME NEW c \in Scopes, c[1] \in valid', Tame(c)'
        PROVE  type'[c].sound
    <3>1. CASE c[1] \in valid
      BY <1>2, <1>18, <2>3, <3>1 DEF ValidInv
    <3>2. CASE c[1] \notin valid
      BY <1>16, <1>17, <1>18, <2>3, <3>2 DEF Validates, Sound, ScopesOf
    <3>3. QED
      BY <3>1, <3>2
  <2>4. \A x \in StreamClasses : \A d \in ToSet(events[x]) : id'[d] >= 0
    BY <1>2, <1>9 DEF ValidInv
  <2>5. QED
    BY <1>1, <2>1, <2>2, <2>3, <2>4 DEF ValidInv
<1>22. ListedInv'
  <2>1. Trace \in valid'
    BY <1>1
  <2>2. Len(streams') > 1 =>
          LET t == type'[<<Trace, "packet_header">>] IN t.present /\ t.fits /\ t.numbered
    BY <1>1, <1>6, <1>18, ScopeSorts DEF PacketHeaderFits
  <2>3. \A x : Members(x)' = Members(x)
    BY <1>1 DEF Members
  <2>4. ASSUME NEW x \in ToSet(streams) \union {s}
        PROVE  /\ x \in valid' /\ id'[x] >= 0
               /\ InTrace(x)' => Members(x) \subseteq valid'
               /\ \A c \in {<<x, "packet_context">>, <<x, "event_header">>} :
                    Tame(c)' /\ type'[c].present => type'[c].fits
    <3>1. /\ x \in StreamClasses
          /\ \A c \in {<<x, "packet_context">>, <<x, "event_header">>} : c \in Scopes /\ c[1] = x
      BY <1>2, StreamScopes
    <3>2. CASE x = s
      <4>1. /\ type[<<s, "packet_context">>].present => type[<<s, "packet_context">>].fits
            /\ type[<<s, "event_header">>].present => type[<<s, "event_header">>].fits
        BY <1>1 DEF PacketContextFits, EventHeaderFits
      <4>2. Members(s) \subseteq valid'
        BY <1>1
      <4>3. QED
        BY <1>9, <1>15, <1>17, <1>18, <3>1, <3>2, <4>1, <4>2
    <3>3. CASE x # s
      <4>1. /\ x \in valid /\ id[x] >= 0
            /\ InTrace(x) => Members(x) \subseteq valid
            /\ \A c \in {<<x, "packet_context">>, <<x, "event_header">>} :
                 Tame(c) /\ type[c].present => type[c].fits
        BY <1>2, <3>3 DEF ListedInv
      <4>2. x \in frozen /\ (InTrace(x)' => InTrace(x))
        BY <1>2, <1>7, <3>1, <3>3, <4>1, Sorts DEF ValidInv, InTrace
      <4>3. QED
        BY <1>9, <1>17, <1>18, <3>1, <3>3, <4>1, <4>2
    <3>4. QED
      BY <3>2, <3>3
  <2>5. QED
    BY <1>6, <2>1, <2>2, <2>3, <2>4 DEF ListedInv
<1>23. StaysFrozen
  <2>1. \A x \in frozen \intersect DOMAIN id : id[x] >= 0 => id'[x] = id[x]
    BY <1>2, <1>9 DEF TypeOK
  <2>2. frozen \subseteq frozen' /\ valid \subseteq valid' /\ fixed \subseteq fixed'
    BY <1>1, <1>2, <1>10 DEF FreezeInv
  <2>3. \A x \in frozen \intersect StreamClasses : own'[x] = own[x] /\ expected'[x] = expected[x]
    BY <1>1, <1>18
  <2>4. QED
    BY <1>1, <1>18, <2>1, <2>2, <2>3 DEF StaysFrozen, Respected
<1>24. QED
  BY <1>5, <1>8, <1>18, <1>19, <1>20, <1>21, <1>22, <1>23 DEF IInv, Life

\* A class that is added again becomes a tree of its own, with its event classes:
\* it was held by the client, and counted by the trace.
LEMMA LifeAddAgain ==
  ASSUME IInv, NEW s \in StreamClasses, held[Trace] > 0, AddAgain(s)
  PROVE  /\ Life'
         /\ \A x \in Objects : heap'.parent[x] = IF x = s THEN None ELSE heap.parent[x]
<1>1. /\ Life /\ held \in [Objects -> Nat] /\ UNCHANGED held
      /\ held[s] > 0 /\ heap.parent[s] = Trace
      /\ heap' = [Dropped(heap, Trace) EXCEPT !.parent[s] = None]
      /\ s \in Objects /\ Trace \in Objects /\ Writer \in Objects
      /\ s # Trace /\ s # Writer /\ Trace # Writer /\ None \notin Objects
      /\ \A x \in Objects : heap.ref[x] \in Nat
  BY LifeOfInv, Sorts DEF AddAgain, InTrace, Life, HeapType
<1>2. heap.ref[s] > 0 /\ heap.ref[Writer] > 0 /\ RootOf(heap, Trace) = Writer
  <2>1. RootOf(heap, Trace) = Writer
    BY <1>1, RootsOfSorts DEF Life
  <2>2. QED
    BY <1>1, <2>1, HeldIsAlive
<1>3. heap.ref[Trace] > 1
  <2>1. heap.ref[Trace] = held[Trace] + Cardinality(HeldKids(heap, Trace)) /\ held[Trace] \in Nat
    BY <1>1 DEF Life, Counted
  <2>2. s \in HeldKids(heap, Trace)
    BY <1>1, <1>2 DEF HeldKids
  <2>3. Cardinality(HeldKids(heap, Trace)) \in Nat /\ Cardinality(HeldKids(heap, Trace)) # 0
    BY <2>2, KidsFinite, FS_EmptySet
  <2>4. QED
    BY <2>1, <2>3
<1>4. Run(heap, Line(heap, Trace), 1) = {Trace}
  BY <1>1, <1>3, OnLine, Sorts DEF Life
<1>5. Dropped(heap, Trace) =
        [heap EXCEPT !.ref = [x \in Objects |-> @[x] - IF x \in {Trace} THEN 1 ELSE 0]]
  BY <1>1, <1>2, <1>4 DEF Dropped
<1>6. /\ heap' \in HeapType /\ heap'.gone = heap.gone
      /\ \A x \in Objects : heap'.ref[x] = IF x = Trace THEN heap.ref[x] - 1 ELSE heap.ref[x]
      /\ \A x \in Objects \union {None} : heap'.parent[x] = IF x = s THEN None ELSE heap.parent[x]
  <2> DEFINE counts == [x \in Objects |-> heap.ref[x] - IF x \in {Trace} THEN 1 ELSE 0]
             parents == [heap.parent EXCEPT ![s] = None]
  <2>1. counts \in [Objects -> Nat]
    BY <1>1, <1>3
  <2>2. heap \in HeapType
    BY <1>1 DEF Life
  <2>3. /\ parents \in [Objects \union {None} -> Objects \union {None}]
        /\ \A x \in Objects \union {None} : parents[x] = IF x = s THEN None ELSE heap.parent[x]
    BY <1>1, <2>2 DEF HeapType
  <2>4. Dropped(heap, Trace) = [heap EXCEPT !.ref = counts]
    BY <1>5
  <2> HIDE DEF counts
  <2>5. heap' = [heap EXCEPT !.ref = counts, !.parent = parents]
    BY <1>1, <2>2, <2>4 DEF HeapType
  <2> HIDE DEF parents
  <2>6. heap' \in HeapType /\ heap'.gone = heap.gone /\ heap'.ref = counts /\ heap'.parent = parents
    BY <2>1, <2>2, <2>3, <2>5 DEF HeapType
  <2>7. \A x \in Objects : counts[x] = IF x = Trace THEN heap.ref[x] - 1 ELSE heap.ref[x]
    BY <1>1 DEF counts
  <2>8. QED
    BY <2>3, <2>6, <2>7
<1>7. Shape(heap')
  BY <1>1, <1>6, Sorts DEF Life, Shape
<1>8. Counted(heap', held')
  <2>1. ASSUME NEW x \in Objects
        PROVE  heap'.ref[x] = held[x] + Cardinality(HeldKids(heap', x))
    <3>1. /\ heap.ref[x] = held[x] + Cardinality(HeldKids(heap, x))
          /\ held[x] \in Nat /\ Cardinality(HeldKids(heap, x)) \in Nat
          /\ IsFiniteSet(HeldKids(heap, x))
      BY <1>1, KidsFinite DEF Life, Counted
    <3>2. \A c \in Objects : heap'.ref[c] > 0 <=> heap.ref[c] > 0
      BY <1>1, <1>3, <1>6
    <3>3. HeldKids(heap', x) = HeldKids(heap, x) \ {s}
      BY <1>1, <1>6, <3>2 DEF HeldKids
    <3>4. s \in HeldKids(heap, x) <=> x = Trace
      BY <1>1, <1>2 DEF HeldKids
    <3>5. CASE x = Trace
      <4>1. Cardinality(HeldKids(heap', x)) = Cardinality(HeldKids(heap, x)) - 1
        BY <3>1, <3>3, <3>4, <3>5, FS_RemoveElement
      <4>2. QED
        BY <1>6, <3>1, <3>5, <4>1
    <3>6. CASE x # Trace
      <4>1. HeldKids(heap', x) = HeldKids(heap, x)
        BY <3>3, <3>4, <3>6
      <4>2. QED
        BY <1>6, <3>1, <3>6, <4>1
    <3>7. QED
      BY <3>5, <3>6
  <2>2. QED
    BY <1>1, <2>1 DEF Counted
<1>9. GoneTogether(heap')
  <2>1. /\ RootOf(heap, Trace) = Writer
        /\ \A x \in StreamClasses : RootOf(heap, x) = IF heap.parent[x] = None THEN x ELSE Writer
        /\ \A e \in EventClasses :
             RootOf(heap, e) = IF heap.parent[e] = None THEN e ELSE RootOf(heap, heap.parent[e])
    BY <1>1, RootsOfSorts DEF Life
  <2>2. /\ RootOf(heap', Writer) = Writer /\ RootOf(heap', Trace) = Writer
        /\ \A x \in StreamClasses : RootOf(heap', x) = IF heap'.parent[x] = None THEN x ELSE Writer
        /\ \A e \in EventClasses :
             RootOf(heap', e) = IF heap'.parent[e] = None THEN e ELSE RootOf(heap', heap'.parent[e])
    BY <1>6, <1>7, RootsOfSorts
  <2> DEFINE Moved(x) == \/ RootOf(heap', x) = RootOf(heap, x)
                         \/ RootOf(heap, x) = Writer /\ RootOf(heap', x) = s
  <2>3. Moved(Writer) /\ Moved(Trace)
    BY <1>2, <2>1, <2>2, RootsOfSorts, <1>1 DEF Life
  <2>4. ASSUME NEW x \in StreamClasses
        PROVE  Moved(x)
    <3>1. heap'.parent[x] = IF x = s THEN None ELSE heap.parent[x]
      BY <1>6, Sorts
    <3>2. QED
      BY <1>1, <2>1, <2>2, <3>1
  <2>5. ASSUME NEW e \in EventClasses
        PROVE  Moved(e)
    <3>1. heap'.parent[e] = heap.parent[e]
      BY <1>6, Sorts
    <3>2. heap.parent[e] = None \/ heap.parent[e] \in StreamClasses
      BY <1>1 DEF Life, Shape
    <3>3. QED
      BY <2>1, <2>2, <2>4, <3>1, <3>2
  <2>6. \A x \in Objects : Moved(x)
    BY <2>3, <2>4, <2>5, Sorts
  <2>7. ASSUME NEW x \in Objects
        PROVE  x \in heap'.gone <=> heap'.ref[RootOf(heap', x)] = 0
    <3>1. x \in heap.gone <=> heap.ref[RootOf(heap, x)] = 0
      BY <1>1 DEF Life, GoneTogether
    <3>2. RootOf(heap', x) \in Objects /\ heap'.parent[RootOf(heap', x)] = None
      BY <1>6, <1>7, Roots
    <3>3. heap'.parent[Trace] # None
      BY <1>1, <1>7 DEF Shape
    <3>4. heap'.ref[RootOf(heap', x)] = heap.ref[RootOf(heap', x)]
      BY <1>6, <3>2, <3>3
    <3>5. QED
      BY <1>2, <1>6, <2>6, <3>1, <3>4
  <2>8. QED
    BY <2>7 DEF GoneTogether
<1>10. QED
  BY <1>1, <1>6, <1>7, <1>8, <1>9 DEF Life

LEMMA InvAddAgain ==
  ASSUME IInv, NEW s \in StreamClasses, held[Trace] > 0, AddAgain(s)
  PROVE  IInv' /\ StaysFrozen
<1>1. /\ Life' /\ UNCHANGED <<tree, forms, data, frozen, expected, clocks, fixed>>
      /\ \A x \in Objects : heap'.parent[x] = IF x = s THEN None ELSE heap.parent[x]
  BY LifeAddAgain DEF AddAgain
<1>2. TypeOK'
  BY <1>1 DEF IInv, TypeOK, Life, HeapType, tree, forms, data
<1>3. Arrays'
  BY <1>1, Sorts DEF IInv, Arrays, tree
<1>4. SameInv' /\ FreezeInv' /\ ClockInv' /\ ValidInv'
  BY <1>1 DEF IInv, SameInv, FreezeInv, ClockInv, ValidInv, Members, Tame, OnTime,
     tree, forms, data
<1>5. ListedInv'
  <2>1. ToSet(streams) \subseteq Objects
    BY Sorts DEF IInv, TypeOK, ToSet
  <2>2. \A x \in ToSet(streams) : InTrace(x)' => InTrace(x)
    BY <1>1, <2>1, Sorts DEF InTrace
  <2>3. QED
    BY <1>1, <2>2 DEF IInv, ListedInv, Members, Tame, OnTime, tree, forms, data
<1>6. StaysFrozen
  BY <1>1 DEF StaysFrozen, tree, forms, data
<1>7. QED
  BY <1>1, <1>2, <1>3, <1>4, <1>5, <1>6 DEF IInv, Life

LEMMA InvAddStreamClass ==
  ASSUME IInv, NEW s \in StreamClasses, TraceAddStreamClass(s) \/ WriterCreateStream(s)
  PROVE  IInv' /\ StaysFrozen
<1>1. CASE held[Trace] > 0 /\ AddAgain(s)
  BY <1>1, InvAddAgain
<1>2. CASE AddStreamClass(s) /\ (held[Trace] > 0 \/ held[Writer] > 0)
  <2>1. CASE UNCHANGED <<heap, streams, valid, forms, frozen, expected, fixed>>
    BY <1>2, <2>1, InvRefusedStreamClass DEF AddStreamClass
  <2>2. CASE streams' = Append(streams, s)
    <3>1. streams \in Seq(StreamClasses)
      BY DEF IInv, TypeOK
    <3>2. Len(Append(streams, s)) = Len(streams) + 1 /\ Len(streams) \in Nat
      BY <3>1, AppendedSet
    <3>3. Append(streams, s) # streams
      BY <3>2
    <3>4. QED
      BY <1>2, <2>2, <3>3, InvListedStreamClass
  <2>3. QED
    BY <1>2, <2>1, <2>2 DEF AddStreamClass
<1>3. QED
  BY <1>1, <1>2 DEF TraceAddStreamClass, WriterCreateStream

LEMMA InvEventCreate ==
  ASSUME IInv, NEW e \in EventClasses, EventCreate(e)
  PROVE  IInv' /\ StaysFrozen
<1> DEFINE s == heap.parent[e]
           xs == {s, e}
<1>1. /\ held[e] > 0 /\ held[e] < MaxHeld /\ s # None
      /\ s \notin frozen => SingleClock(Members(s), own[s])
      /\ Validates(s) /\ Validates(e)
      /\ TypesSettle(xs, Copied(xs), Unmapped(s), own[s])
      /\ held' = [held EXCEPT ![e] = @ + 1] /\ heap' = Taken(heap, e)
      /\ frozen' = Freezing({s})
      /\ valid' = valid \union xs
      /\ expected' = [expected EXCEPT ![s] =
                        IF s \notin frozen THEN TheClock(Members(s), own[s])
                        ELSE IF own[s] # None THEN own[s] ELSE @]
      /\ UNCHANGED <<streams, events, index, id, nextStream, nextEvent, late, own,
                     word, env, clocks, fixed, sets, refs>>
  <2>1. held[e] \in 1..(MaxHeld - 1) => held[e] > 0 /\ held[e] < MaxHeld
    BY ClassesAssumption
  <2>2. QED
    BY <2>1 DEF EventCreate, data
<1>2. /\ TypeOK /\ Arrays /\ FreezeInv /\ ClockInv /\ ValidInv /\ ListedInv /\ Shape(heap)
      /\ e \in Objects /\ ToSet(streams) \subseteq StreamClasses
  BY Sorts DEF IInv, TypeOK, ToSet
<1>3. s \in StreamClasses /\ s \in Objects /\ s # Trace
  BY <1>1, <1>2, Sorts DEF Shape
<1>4. e \in ToSet(events[s]) /\ e \in frozen
  BY <1>2, <1>3 DEF Arrays, FreezeInv
<1>5. Life' /\ heap'.parent = heap.parent
  BY <1>1, <1>2, HeldIsAlive, LifeGet
<1>6. s \in xs /\ xs \subseteq Objects /\ \A x \in xs : x = s \/ x = e
  BY <1>2, <1>3
<1> HIDE DEF s, xs
<1>7. frozen' = frozen \union {s}
  <2>1. \A x \in ({s} \intersect StreamClasses) \ frozen : Some(expected[x]) = {}
    BY <1>2 DEF FreezeInv, Some
  <2>2. UNION {Some(expected[x]) : x \in ({s} \intersect StreamClasses) \ frozen} = {}
    BY <2>1
  <2>3. QED
    BY <1>1, <1>3, <2>2 DEF Freezing
<1>8. expected' = [expected EXCEPT ![s] =
                     IF s \notin frozen THEN TheClock(Members(s), own[s]) ELSE @]
  <2>1. s \in frozen /\ own[s] # None => expected[s] = own[s]
    BY <1>2, <1>3 DEF ClockInv
  <2>2. QED
    BY <1>1, <2>1
<1>9. /\ frozen' \intersect StreamClasses = (frozen \intersect StreamClasses) \union {s}
      /\ \A c \in Scopes : c[1] \in frozen' => c[1] \in frozen \/ c[1] \in xs
  BY <1>3, <1>6, <1>7
<1>10. UNCHANGED <<events, late, own>>
  BY <1>1
<1>11. /\ type' \in [Scopes -> FieldTypes] /\ same' \in [Scopes -> SUBSET Scopes]
       /\ hard' \subseteq Scopes /\ open' \subseteq Scopes
       /\ \A c \in Scopes :
            /\ type'[c].present = type[c].present /\ type'[c].sound = type[c].sound
            /\ type'[c].fits = type[c].fits /\ type'[c].numbered = type[c].numbered
       /\ SameInv' /\ Respected
       /\ \A c \in Scopes : c[1] \in frozen /\ Tame(c)' => Tame(c) /\ type'[c] = type[c]
       /\ expected' \in [StreamClasses -> Clocks \union {None}]
       /\ \A x \in StreamClasses : x # s => expected'[x] = expected[x]
       /\ s \in frozen => expected'[s] = expected[s]
       /\ ClockInv'
  BY <1>1, <1>3, <1>6, <1>8, <1>9, <1>10, ClassFrozen
<1>12. TypeOK'
  <2>1. /\ frozen' \subseteq Objects \union Clocks /\ valid' \subseteq Objects
        /\ late' \subseteq frozen' \intersect StreamClasses
    BY <1>1, <1>2, <1>3, <1>6, <1>7 DEF TypeOK
  <2>2. QED
    BY <1>1, <1>2, <1>5, <1>11, <2>1 DEF TypeOK, Life, HeapType
<1>13. Arrays'
  BY <1>1, <1>2, <1>5 DEF Arrays
<1>14. FreezeInv'
  <2>1. \A x \in StreamClasses : ToSet(events[x])' \subseteq frozen'
    BY <1>1, <1>2, <1>7 DEF FreezeInv
  <2>2. \A x \in StreamClasses \ frozen' : expected'[x] = None
    BY <1>2, <1>7, <1>11 DEF FreezeInv
  <2>3. /\ \A n \in fixed : env[n] # None /\ Trace \in frozen
        /\ Trace \in frozen => clocks \subseteq frozen /\ \A n \in Names : env[n] # None => n \in fixed
    BY <1>2 DEF FreezeInv
  <2>4. Trace \in frozen' <=> Trace \in frozen
    BY <1>3, <1>7
  <2>5. QED
    BY <1>1, <1>7, <2>1, <2>2, <2>3, <2>4 DEF FreezeInv
<1>15. ValidInv'
  <2>1. valid' \subseteq frozen' /\ frozen' \intersect StreamClasses \subseteq valid'
    BY <1>1, <1>2, <1>4, <1>6, <1>7 DEF ValidInv
  <2>2. ASSUME NEW c \in Scopes, c[1] \in valid', Tame(c)'
        PROVE  type'[c].sound
    <3>1. CASE c[1] \in valid
      BY <1>2, <1>11, <2>2, <3>1 DEF ValidInv
    <3>2. CASE c[1] \notin valid
      BY <1>1, <1>6, <1>11, <2>2, <3>2 DEF Validates, Sound, ScopesOf
    <3>3. QED
      BY <3>1, <3>2
  <2>3. \A x \in StreamClasses : \A d \in ToSet(events[x]) : id[d] >= 0
    BY <1>2 DEF ValidInv
  <2>4. QED
    BY <1>1, <2>1, <2>2, <2>3 DEF ValidInv
<1>16. ListedInv'
  <2>1. /\ streams # <<>> => Trace \in valid'
        /\ Len(streams) > 1 =>
             LET t == type'[<<Trace, "packet_header">>] IN t.present /\ t.fits /\ t.numbered
    BY <1>1, <1>2, <1>11, ScopeSorts DEF ListedInv
  <2>2. ASSUME NEW x \in ToSet(streams)
        PROVE  /\ x \in valid' /\ id[x] >= 0
               /\ InTrace(x) => Members(x) \subseteq valid'
               /\ \A c \in {<<x, "packet_context">>, <<x, "event_header">>} :
                    Tame(c)' /\ type'[c].present => type'[c].fits
    <3>1. /\ x \in StreamClasses
          /\ \A c \in {<<x, "packet_context">>, <<x, "event_header">>} : c \in Scopes /\ c[1] = x
      BY <1>2, StreamScopes
    <3>2. /\ x \in valid /\ x \in frozen /\ id[x] >= 0
          /\ InTrace(x) => Members(x) \subseteq valid
          /\ \A c \in {<<x, "packet_context">>, <<x, "event_header">>} :
               Tame(c) /\ type[c].present => type[c].fits
      BY <1>2 DEF ListedInv, ValidInv
    <3>3. QED
      BY <1>1, <1>11, <3>1, <3>2
  <2>3. \A x : Members(x)' = Members(x) /\ (InTrace(x)' <=> InTrace(x))
    BY <1>1, <1>5 DEF Members, InTrace
  <2>4. QED
    BY <1>1, <2>1, <2>2, <2>3 DEF ListedInv
<1>17. StaysFrozen
  <2>1. \A x \in frozen \intersect StreamClasses : own'[x] = own[x] /\ expected'[x] = expected[x]
    BY <1>1, <1>11
  <2>2. QED
    BY <1>1, <1>7, <1>11, <2>1 DEF StaysFrozen, Respected
<1>18. QED
  BY <1>5, <1>11, <1>12, <1>13, <1>14, <1>15, <1>16, <1>17 DEF IInv, Life

(***************************************************************************)
(* All calls.                                                              *)
(***************************************************************************)

LEMMA InvLifetimes ==
  ASSUME IInv, Lifetimes
  PROVE  IInv' /\ StaysFrozen
<1>1. Life' /\ heap'.parent = heap.parent
  BY LifeLifetimes
<1>2. UNCHANGED <<tree, forms, data, frozen, expected, clocks, fixed>>
  BY DEF Lifetimes, WriterGetTrace, Put, GetParent, GetStreamClassByIndex, GetStreamClassById,
         GetEventClassByIndex, GetEventClassById, Get
<1>3. QED
  BY <1>1, <1>2, InvLives

LEMMA InvSetters ==
  ASSUME IInv, Setters
  PROVE  IInv' /\ StaysFrozen
<1>1. ASSUME NEW s \in StreamClasses, NEW n \in Ids, StreamClassSetId(s, n)
      PROVE  IInv' /\ StaysFrozen
  BY <1>1, InvSetId DEF StreamClassSetId
<1>2. ASSUME NEW e \in EventClasses, NEW n \in Ids, EventClassSetId(e, n)
      PROVE  IInv' /\ StaysFrozen
  BY <1>2, InvSetId DEF EventClassSetId
<1>3. ASSUME NEW o \in Offers(<<Trace, "packet_header">>), TraceSetPacketHeaderType(o)
      PROVE  IInv' /\ StaysFrozen
  BY <1>3, InvSetType, ScopeSorts DEF TraceSetPacketHeaderType
<1>4. ASSUME NEW s \in StreamClasses, NEW o \in Offers(<<s, "packet_context">>),
             StreamClassSetPacketContextType(s, o)
      PROVE  IInv' /\ StaysFrozen
  BY <1>4, InvSetType, ScopeSorts DEF StreamClassSetPacketContextType
<1>5. ASSUME NEW s \in StreamClasses, NEW o \in Offers(<<s, "event_header">>),
             StreamClassSetEventHeaderType(s, o) \/ StreamAddEventHeader(s, o)
      PROVE  IInv' /\ StaysFrozen
  BY <1>5, InvSetType, InvStreamAddEventHeader, ScopeSorts DEF StreamClassSetEventHeaderType
<1>6. ASSUME NEW s \in StreamClasses, NEW o \in Offers(<<s, "event_context">>),
             StreamClassSetEventContextType(s, o)
      PROVE  IInv' /\ StaysFrozen
  BY <1>6, InvSetType, ScopeSorts DEF StreamClassSetEventContextType
<1>7. ASSUME NEW e \in EventClasses, NEW o \in Offers(<<e, "context">>),
             EventClassSetContextType(e, o)
      PROVE  IInv' /\ StaysFrozen
  BY <1>7, InvSetType, ScopeSorts DEF EventClassSetContextType
<1>8. ASSUME NEW e \in EventClasses, NEW o \in Offers(<<e, "payload">>),
             EventClassSetPayloadType(e, o)
      PROVE  IInv' /\ StaysFrozen
  BY <1>8, InvSetType, ScopeSorts DEF EventClassSetPayloadType
<1>9. ASSUME NEW e \in EventClasses, NEW t \in TypesOf["payload"], EventClassAddField(e, t)
      PROVE  IInv' /\ StaysFrozen
  <2>1. t \in FieldTypes
    BY ClassesAssumption
  <2>2. QED
    BY <1>9, <2>1, InvChangeType, ScopeSorts DEF EventClassAddField
<1>10. ASSUME NEW c \in Scopes, NEW t \in TypesOf[c[2]], FieldTypeSet(c, t)
       PROVE  IInv' /\ StaysFrozen
  <2>1. c[2] \in {"packet_header", "packet_context", "event_header", "event_context",
                  "context", "payload"}
    BY DEF Scopes
  <2>2. t \in FieldTypes
    BY <2>1, ClassesAssumption
  <2>3. QED
    BY <1>10, <2>2, InvChangeType DEF FieldTypeSet
<1>11. ASSUME NEW c \in Scopes,
              FieldCreate(c) \/ \E k \in Clocks : SetTimestamp(c, k)
       PROVE  IInv' /\ StaysFrozen
  BY <1>11, InvFieldCreate, InvSetTimestamp
<1>12. ASSUME NEW x \in {Trace} \union StreamClasses \union EventClasses \union Clocks,
              NEW w \in Words, SetWord(x, w)
       PROVE  IInv' /\ StaysFrozen
  BY <1>12, InvSetWord
<1>13. QED
  BY <1>1, <1>2, <1>3, <1>4, <1>5, <1>6, <1>7, <1>8, <1>9, <1>10, <1>11, <1>12,
     InvStreamClassSetClock, InvTraceAddClockClass, InvEnvironment
     DEF Setters, TraceSetAttribute, StreamClassSetName, EventClassSetAttribute,
         ClockClassSetAttribute

\* Every step keeps the invariant and changes nothing that is frozen.
LEMMA Invariance ==
  IInv /\ [Next]_vars => IInv' /\ StaysFrozen
<1> SUFFICES ASSUME IInv, [Next]_vars PROVE IInv' /\ StaysFrozen
  OBVIOUS
<1>1. CASE Lifetimes
  BY <1>1, InvLifetimes
<1>2. CASE Setters
  BY <1>2, InvSetters
<1>3. ASSUME NEW s \in StreamClasses, NEW e \in EventClasses, StreamClassAddEventClass(s, e)
      PROVE  IInv' /\ StaysFrozen
  BY <1>3, InvAddEventClass
<1>4. ASSUME NEW s \in StreamClasses, TraceAddStreamClass(s) \/ WriterCreateStream(s)
      PROVE  IInv' /\ StaysFrozen
  BY <1>4, InvAddStreamClass
<1>5. ASSUME NEW e \in EventClasses, EventCreate(e)
      PROVE  IInv' /\ StaysFrozen
  BY <1>5, InvEventCreate
<1>6. CASE UNCHANGED vars
  <2>1. Life' /\ heap'.parent = heap.parent
    BY <1>6, LifeOfInv DEF Life, vars, life
  <2>2. UNCHANGED <<tree, forms, data, frozen, expected, clocks, fixed>>
    BY <1>6 DEF vars
  <2>3. QED
    BY <2>1, <2>2, InvLives
<1>7. QED
  BY <1>1, <1>2, <1>3, <1>4, <1>5, <1>6 DEF Next

(***************************************************************************)
(* The theorems.                                                           *)
(***************************************************************************)

LEMMA AlwaysInv ==
  Spec => []IInv
<1>1. Init => IInv
  BY InitInv
<1>2. IInv /\ [Next]_vars => IInv'
  BY Invariance
<1>3. QED
  BY <1>1, <1>2, PTL DEF Spec

\* The counts never fall below zero, the arrays hold what was put in, and every
\* type stays a type, whatever the calls of the client are.
THEOREM TypeCorrect == Spec => []TypeOK
<1>1. IInv => TypeOK
  BY DEF IInv
<1>2. QED
  BY <1>1, AlwaysInv, PTL

\* The objects of one tree live and die together: bt_ctf_object_put_ref() and
\* bt_ctf_object_try_spec_release() destroy a tree when the client has put its
\* last reference to any object of it, the whole of it, and not before.  A stream
\* class that was added to its trace again left the tree, with its event classes:
\* the trace keeps a pointer to it, which does not keep it alive.
THEOREM LiveTogether == Spec => []AliveTogether
BY InvAliveTogether, AlwaysInv, PTL

\* The types of a frozen stream class and of its event classes map to one clock
\* class, in whatever order classes were added, mapped and given to a trace:
\* each check of bt_ctf_stream_class_add_event_class(), bt_ctf_event_create()
\* and bt_ctf_trace_add_stream_class() sees what the others have decided.  It
\* holds also of types that classes share, but for those into which the mapping of
\* one class puts a timestamp when they are frozen already: these are open.
THEOREM ClockIsOne == Spec => []OneClock
BY InvOneClock, AlwaysInv, PTL

\* The classes that a trace lists and owns are frozen, valid and of the form that
\* the format asks for, each with an identifier; that the identifiers differ is
\* not claimed, for the call does not compare those that are set explicitly.
THEOREM ListedIsValid == Spec => []TraceIsValid
BY InvTraceIsValid, AlwaysInv, PTL

\* No call changes what an earlier call froze.  The types are those of the classes
\* themselves, whoever shares them: when another class is mapped, a frozen type
\* that has an unmapped timestamp gets a new one, and only its timestamps change
\* then and later.
THEOREM FrozenForGood == Spec => FrozenStays
<1>1. IInv /\ [Next]_vars => StaysFrozen
  BY Invariance
<1>2. IInv /\ [Next]_vars => [StaysFrozen]_vars
  BY <1>1
<1>3. QED
  BY <1>2, AlwaysInv, PTL DEF Spec, FrozenStays

=============================================================================
