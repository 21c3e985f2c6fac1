-------------------------- MODULE ValidationProofs --------------------------
(***************************************************************************)
(* The theorems about validation, for all layouts of all depths and        *)
(* whatever is asked of them: first what the validator keeps, which rests  *)
(* on where a search may end; then which place a search finds, by lemmas   *)
(* on places and the names on the way to them.                             *)
(***************************************************************************)
EXTENDS Validation, TLAPS, SequenceTheorems, WellFoundedInduction

\* A scope is a number from one to six, so that the places of a copy are no
\* objects of the given types.
LEMMA HereIsScope ==
  ASSUME NEW s \in Here
  PROVE  s \in Scopes /\ s \in Nat /\ s # 0
BY DEF Here, Scopes

\* A path string ends in a scope that there is.
LEMMA AbsoluteIsHere ==
  ASSUME NEW s, NEW tokens, NEW t \in Absolute(s, tokens)
  PROVE  t.root = s /\ s \in Here
<1>1. s \in Here
  BY DEF Absolute
<1>2. PICK p : t = Target(s, p)
  BY <1>1 DEF Absolute
<1>3. QED
  BY <1>1, <1>2 DEF Target

LEMMA FoundIsHere ==
  ASSUME NEW s \in Here, NEW q, NEW tokens, NEW t \in Found(s, q, tokens)
  PROVE  t.root \in Here
<1> DEFINE around == {k \in 0..(Len(q) - 1) : FromParent(s, q, k, tokens) # {}}
           before == {r \in 1..(s - 1) : Absolute(r, tokens) # {}}
<1>1. t \in IF around # {} THEN {Target(s, p) : p \in FromParent(s, q, Max(around), tokens)}
            ELSE IF before # {} THEN Absolute(Max(before), tokens) ELSE {}
  BY DEF Found
<1> HIDE DEF around, before
<1>2. CASE around # {}
  BY <1>1, <1>2 DEF Target
<1>3. CASE around = {}
  <2>1. t \in Absolute(Max(before), tokens)
    BY <1>1, <1>3
  <2>2. QED
    BY <2>1, AbsoluteIsHere
<1>4. QED
  BY <1>2, <1>3

\* The target of a sequence or a variant lies in its scope or in one before.
LEMMA TargetIsBefore ==
  ASSUME NEW s \in Here, NEW q, NEW t \in Resolved(s, q)
  PROVE  t.root \in Here /\ t.root \in 1..s
<1>1. t \in PathOf(s, q) /\ IsBefore(t, s, q)
  BY DEF Resolved
<1>2. t.root \in Here
  <2> DEFINE name == TypeAt(given[s], q).path
  <2>1. t \in CASE name.from = Relative -> Found(s, q, name.tokens)
                [] name.from \in Scopes -> Absolute(name.from, name.tokens)
                [] OTHER -> {}
    BY <1>1 DEF PathOf
  <2> HIDE DEF name
  <2>2. t \in Found(s, q, name.tokens) \/ t \in Absolute(name.from, name.tokens)
    BY <2>1 DEF Relative, Scopes
  <2>3. QED
    BY <2>2, FoundIsHere, AbsoluteIsHere
<1>3. t.root \in Scopes /\ s \in Scopes /\ t.root <= s
  BY <1>1, <1>2, HereIsScope DEF IsBefore
<1>4. QED
  BY <1>2, <1>3 DEF Scopes

(***************************************************************************)
(* What was given stays: where a search ends depends on nothing else.      *)
(***************************************************************************)
LEMMA SameHere ==
  ASSUME given' = given
  PROVE  Here' = Here
BY DEF Here

LEMMA SameSources ==
  ASSUME given' = given, NEW s
  PROVE  Sources(s)' = Sources(s) /\ NeedsCopy(s)' = NeedsCopy(s)
BY SameHere DEF Sources, NeedsCopy

LEMMA SameAbsolute ==
  ASSUME given' = given, NEW s, NEW tokens
  PROVE  Absolute(s, tokens)' = Absolute(s, tokens)
BY SameHere DEF Absolute

LEMMA SameFromParent ==
  ASSUME given' = given, NEW s, NEW q, NEW k, NEW tokens
  PROVE  FromParent(s, q, k, tokens)' = FromParent(s, q, k, tokens)
BY DEF FromParent

LEMMA SameFound ==
  ASSUME given' = given, NEW s, NEW q, NEW tokens
  PROVE  Found(s, q, tokens)' = Found(s, q, tokens)
<1>1. {k \in 0..(Len(q) - 1) : FromParent(s, q, k, tokens) # {}}'
        = {k \in 0..(Len(q) - 1) : FromParent(s, q, k, tokens) # {}}
  BY SameFromParent
<1>2. {r \in 1..(s - 1) : Absolute(r, tokens) # {}}'
        = {r \in 1..(s - 1) : Absolute(r, tokens) # {}}
  BY SameAbsolute
<1>3. \A k : FromParent(s, q, k, tokens)' = FromParent(s, q, k, tokens)
  BY SameFromParent
<1>4. \A r : Absolute(r, tokens)' = Absolute(r, tokens)
  BY SameAbsolute
<1>5. QED
  BY <1>1, <1>2, <1>3, <1>4 DEF Found

LEMMA SameResolved ==
  ASSUME given' = given, NEW s, NEW q
  PROVE  Resolved(s, q)' = Resolved(s, q)
<1>1. PathOf(s, q)' = PathOf(s, q)
  <2>1. \A tokens : Found(s, q, tokens)' = Found(s, q, tokens)
    BY SameFound
  <2>2. \A r, tokens : Absolute(r, tokens)' = Absolute(r, tokens)
    BY SameAbsolute
  <2>3. QED
    BY <2>1, <2>2 DEF PathOf
<1>2. QED
  BY <1>1 DEF Resolved, IsBefore

(***************************************************************************)
(* The sources of a class: all lie in copies when their paths are set.     *)
(***************************************************************************)
LEMMA SourceIsPair ==
  ASSUME NEW class, NEW sq \in SourcesOf(class)
  PROVE  /\ sq = <<sq[1], sq[2]>>
         /\ sq[1] \in ScopesOf(class) /\ sq[2] \in Sources(sq[1]) /\ NeedsCopy(sq[1])
<1>1. PICK s \in ScopesOf(class) : sq \in {s} \X Sources(s)
  BY DEF SourcesOf
<1>2. QED
  BY <1>1 DEF NeedsCopy

LEMMA PairIsSource ==
  ASSUME NEW class, NEW s \in ScopesOf(class), NEW q \in Sources(s)
  PROVE  <<s, q>> \in SourcesOf(class)
BY DEF SourcesOf

\* One class: each of its sources that has a target gets it, by a copy; what
\* was set before stays set.
LEMMA ClassSets ==
  ASSUME NEW class, class \in asked, class \notin valid, ValidateClass(class)
  PROVE  /\ copies' = copies \cup {s \in ScopesOf(class) : NeedsCopy(s)}
         /\ frozen' = frozen \cup {s \in ScopesOf(class) : NeedsCopy(s)}
         /\ DOMAIN path' = Linked(class) \cup DOMAIN path
         /\ \A o \in Linked(class) : path'[o] \in Resolved(o[1], o[2])
         /\ \A o \in DOMAIN path \ Linked(class) : path'[o] = path[o]
         /\ DOMAIN tag' = {sq \in Linked(class) : TypeAt(given[sq[1]], sq[2]).kind = "variant"}
                            \cup DOMAIN tag
         /\ valid' = IF /\ Complete(class, Linked(class))
                        /\ \A s \in ScopesOf(class) : IsSound(given[s])
                     THEN valid \cup {class} ELSE valid
<1> DEFINE made == {s \in ScopesOf(class) : NeedsCopy(s)}
           obj(sq) == ObjectIn(copies \cup made, sq[1], sq[2])
           targetOf(sq) == CHOOSE t \in Resolved(sq[1], sq[2]) : TRUE
           links == Linked(class)
           variants == {sq \in links : TypeAt(given[sq[1]], sq[2]).kind = "variant"}
           at2(o, S) == CHOOSE sq \in S : obj(sq) = o
           tagOf(o) == LET t == targetOf(at2(o, variants)) IN obj(<<t.root, t.place>>)
<1>1. /\ copies' = copies \cup made
      /\ frozen' = frozen \cup made
      /\ path' = Joined([o \in {obj(sq) : sq \in links} |-> targetOf(at2(o, links))], path)
      /\ tag' = Joined([o \in {obj(sq) : sq \in variants} |-> tagOf(o)], tag)
      /\ valid' = IF /\ Complete(class, links)
                     /\ \A s \in ScopesOf(class) : IsSound(given[s])
                  THEN valid \cup {class} ELSE valid
  BY DEF ValidateClass
<1>2. \A sq \in links : sq \in SourcesOf(class) /\ Resolved(sq[1], sq[2]) # {}
  BY DEF Linked, Reached
<1>3. \A sq \in links : obj(sq) = sq
  BY <1>2, SourceIsPair DEF ObjectIn
<1>4. {obj(sq) : sq \in links} = links /\ {obj(sq) : sq \in variants} = variants
  <2> HIDE DEF obj
  <2> QED
    BY <1>3
<1>5. \A o \in links : at2(o, links) = o
  <2> HIDE DEF obj, links
  <2> QED
    BY <1>3
<1>6. \A o \in links : targetOf(at2(o, links)) \in Resolved(o[1], o[2])
  <2> HIDE DEF at2, links
  <2> QED
    BY <1>2, <1>5
<1> HIDE DEF made, obj, targetOf, links, variants, at2, tagOf
<1>7. /\ DOMAIN path' = links \cup DOMAIN path
      /\ \A o \in links : path'[o] = targetOf(at2(o, links))
      /\ \A o \in DOMAIN path \ links : path'[o] = path[o]
  BY <1>1, <1>4 DEF Joined
<1>8. DOMAIN tag' = variants \cup DOMAIN tag
  BY <1>1, <1>4 DEF Joined
<1>9. QED
  BY <1>1, <1>6, <1>7, <1>8 DEF made, links, variants

(***************************************************************************)
(* The invariant.                                                          *)
(***************************************************************************)
LEMMA InitInv ==
  ASSUME ValidationAssumption, Init
  PROVE  IInv
<1>1. Flags
  BY DEF Init, Flags
<1>2. PathsLead
  BY DEF Init, PathsLead
<1>3. ValidIsCopied /\ ValidIsComplete
  BY DEF Init, ValidIsCopied, ValidIsComplete
<1>4. QED
  BY <1>1, <1>2, <1>3 DEF IInv

\* The validation of a class that was not asked for, or is valid, does nothing.
LEMMA SameInv ==
  ASSUME IInv, UNCHANGED <<given, asked, known, valid, copies, frozen, path, tag>>,
         at' = "replaced" => \A s \in Here : ClassOf[s] \in asked => s \in frozen
  PROVE  IInv'
<1>1. Here' = Here /\ \A s : Sources(s)' = Sources(s) /\ NeedsCopy(s)' = NeedsCopy(s)
  BY SameHere, SameSources
<1>2. \A s, q : Resolved(s, q)' = Resolved(s, q)
  BY SameResolved
<1>3. \A s, q : ObjectAt(s, q)' = ObjectAt(s, q)
  BY DEF ObjectAt, ObjectIn
<1>4. Flags'
  BY <1>1 DEF IInv, Flags
<1>5. PathsLead'
  BY <1>1, <1>2 DEF IInv, PathsLead
<1>6. ValidIsCopied'
  BY <1>1 DEF IInv, ValidIsCopied
<1>7. ValidIsComplete'
  BY <1>1, <1>3 DEF IInv, ValidIsComplete
<1>8. QED
  BY <1>4, <1>5, <1>6, <1>7 DEF IInv

\* A class whose copies are made, resolved and validated.
LEMMA ClassInv ==
  ASSUME IInv, NEW class, class \in asked, class \notin valid, ValidateClass(class),
         UNCHANGED <<given, asked, known>>, at' # "replaced"
  PROVE  IInv'
<1>1. Here' = Here /\ \A s : Sources(s)' = Sources(s) /\ NeedsCopy(s)' = NeedsCopy(s)
  BY SameHere, SameSources
<1>2. \A s, q : Resolved(s, q)' = Resolved(s, q)
  BY SameResolved
<1> DEFINE made == {s \in ScopesOf(class) : NeedsCopy(s)}
<1>3. /\ copies' = copies \cup made
      /\ frozen' = frozen \cup made
      /\ DOMAIN path' = Linked(class) \cup DOMAIN path
      /\ \A o \in Linked(class) : path'[o] \in Resolved(o[1], o[2])
      /\ \A o \in DOMAIN path \ Linked(class) : path'[o] = path[o]
      /\ DOMAIN tag' = {sq \in Linked(class) : TypeAt(given[sq[1]], sq[2]).kind = "variant"}
                         \cup DOMAIN tag
      /\ valid' = IF Complete(class, Linked(class)) /\ \A s \in ScopesOf(class) : IsSound(given[s])
                  THEN valid \cup {class} ELSE valid
  BY ClassSets
<1>4. /\ made \subseteq Here
      /\ \A s \in Here : ClassOf[s] = class => s \in ScopesOf(class)
      /\ \A s \in ScopesOf(class) : s \in Here /\ ClassOf[s] = class
  BY DEF ScopesOf
<1>5. \A sq \in Linked(class) : sq \in SourcesOf(class)
  BY DEF Linked, Reached
<1>6. Flags'
  BY <1>1, <1>3, <1>4 DEF IInv, Flags
<1>7. PathsLead'
  <2>1. ASSUME NEW o \in DOMAIN path'
        PROVE  \E s \in copies' : \E q \in Sources(s) : o = <<s, q>> /\ path'[o] \in Resolved(s, q)
    <3>1. CASE o \in Linked(class)
      <4>1. o = <<o[1], o[2]>> /\ o[1] \in made /\ o[2] \in Sources(o[1])
        BY <1>5, <3>1, SourceIsPair
      <4>2. path'[o] \in Resolved(o[1], o[2])
        BY <1>3, <3>1
      <4>3. QED
        BY <1>3, <4>1, <4>2
    <3>2. CASE o \notin Linked(class)
      <4>1. o \in DOMAIN path /\ path'[o] = path[o]
        BY <1>3, <2>1, <3>2
      <4>2. QED
        BY <1>3, <4>1 DEF IInv, PathsLead
    <3>3. QED
      BY <3>1, <3>2
  <2>2. DOMAIN tag' \subseteq DOMAIN path'
    BY <1>3 DEF IInv, PathsLead
  <2>3. QED
    BY <1>1, <1>2, <2>1, <2>2 DEF PathsLead
<1>8. ValidIsCopied'
  <2>1. \A s \in Here : ClassOf[s] \in valid' \ known /\ NeedsCopy(s) => s \in copies'
    BY <1>3, <1>4 DEF IInv, ValidIsCopied
  <2>2. QED
    BY <1>1, <2>1 DEF ValidIsCopied
<1>9. ValidIsComplete'
  <2>1. ASSUME NEW s \in Here, ClassOf[s] \in valid' \ known
        PROVE  /\ IsSound(given[s])
               /\ \A q \in Sources(s) :
                    /\ s \in copies' /\ <<s, q>> \in DOMAIN path'
                    /\ TypeAt(given[s], q).kind = "variant" => <<s, q>> \in DOMAIN tag'
    <3>1. CASE ClassOf[s] \in valid
      <4>1. IsSound(given[s])
        BY <2>1, <3>1 DEF IInv, ValidIsComplete
      <4>2. ASSUME NEW q \in Sources(s)
            PROVE  /\ s \in copies /\ <<s, q>> \in DOMAIN path
                   /\ TypeAt(given[s], q).kind = "variant" => <<s, q>> \in DOMAIN tag
        <5>1. s \in copies
          BY <2>1, <3>1 DEF IInv, ValidIsCopied, NeedsCopy
        <5>2. ObjectAt(s, q) = <<s, q>>
          BY <5>1 DEF ObjectAt, ObjectIn
        <5>3. QED
          BY <2>1, <3>1, <5>1, <5>2 DEF IInv, ValidIsComplete
      <4>3. QED
        BY <1>3, <4>1, <4>2
    <3>2. CASE ClassOf[s] \notin valid
      <4>1. ClassOf[s] = class /\ Complete(class, Linked(class)) /\ IsSound(given[s])
        BY <1>3, <1>4, <2>1, <3>2
      <4>2. ASSUME NEW q \in Sources(s)
            PROVE  s \in made /\ <<s, q>> \in Linked(class)
        <5>1. s \in ScopesOf(class)
          BY <1>4, <4>1
        <5>2. s \in made
          BY <5>1 DEF NeedsCopy
        <5>3. <<s, q>> \in SourcesOf(class)
          BY <5>1, PairIsSource
        <5>4. QED
          BY <4>1, <5>2, <5>3 DEF Complete
      <4>3. QED
        BY <1>3, <4>1, <4>2
    <3>3. QED
      BY <3>1, <3>2
  <2>2. \A s, q : s \in copies' => ObjectAt(s, q)' = <<s, q>>
    BY DEF ObjectAt, ObjectIn
  <2>3. QED
    BY <1>1, <2>1, <2>2 DEF ValidIsComplete
<1>10. QED
  BY <1>6, <1>7, <1>8, <1>9 DEF IInv

\* The classes take the result over, frozen.
LEMMA ReplaceInv ==
  ASSUME IInv, Replace
  PROVE  IInv'
<1>1. given' = given
  BY DEF Replace
<1>2. Here' = Here /\ \A s : Sources(s)' = Sources(s) /\ NeedsCopy(s)' = NeedsCopy(s)
  BY <1>1, SameHere, SameSources
<1>3. \A s, q : Resolved(s, q)' = Resolved(s, q)
  BY <1>1, SameResolved
<1>4. \A s, q : ObjectAt(s, q)' = ObjectAt(s, q)
  BY DEF Replace, ObjectAt, ObjectIn
<1>5. Flags'
  BY <1>2 DEF IInv, Flags, Replace
<1>6. PathsLead'
  BY <1>2, <1>3 DEF IInv, PathsLead, Replace
<1>7. ValidIsCopied'
  BY <1>2 DEF IInv, ValidIsCopied, Replace
<1>8. ValidIsComplete'
  BY <1>2, <1>4 DEF IInv, ValidIsComplete, Replace
<1>9. QED
  BY <1>5, <1>6, <1>7, <1>8 DEF IInv

LEMMA StepInv ==
  ASSUME IInv, [Next]_vars
  PROVE  IInv'
<1>1. CASE Validate
  <2>1. PICK class : ValidateClass(class) /\ UNCHANGED <<given, asked, known>> /\ at' # "replaced"
    <3>1. at \in Classes /\ ValidateClass(at) /\ UNCHANGED <<given, asked, known>>
      BY <1>1 DEF Validate
    <3>2. at' = CASE at = "trace" -> "stream" [] at = "stream" -> "event"
                  [] at = "event" -> "output"
      BY <1>1 DEF Validate
    <3>3. at' # "replaced"
      BY <3>1, <3>2 DEF Classes
    <3>4. QED
      BY <3>1, <3>3
  <2>2. CASE class \in asked /\ class \notin valid
    BY <2>1, <2>2, ClassInv
  <2>3. CASE ~(class \in asked /\ class \notin valid)
    <3>1. UNCHANGED <<valid, copies, frozen, path, tag>>
      BY <2>1, <2>3 DEF ValidateClass
    <3>2. QED
      BY <2>1, <3>1, SameInv
  <2>4. QED
    BY <2>2, <2>3
<1>2. CASE Replace
  BY <1>2, ReplaceInv
<1>3. CASE UNCHANGED vars
  <2>1. at' = "replaced" => \A s \in Here : ClassOf[s] \in asked => s \in frozen
    BY <1>3 DEF vars, IInv, Flags
  <2>2. QED
    BY <1>3, <2>1, SameInv DEF vars
<1>4. QED
  BY <1>1, <1>2, <1>3 DEF Next

\* What validation has resolved, copied and frozen at any time, whatever the
\* layout (bt_ctf_validate_class_types()).
THEOREM Invariance == Spec => []IInv
<1>1. Init => IInv
  BY InitInv, ValidationAssumption
<1>2. IInv /\ [Next]_vars => IInv'
  BY StepInv
<1>3. QED
  BY <1>1, <1>2, PTL DEF Spec

\* A class that bt_ctf_validate_class_types() reports valid has a path for each
\* of its sequences and variants, a tag for each variant and no unsound type.
THEOREM ValidHasAll == Spec => []ValidIsComplete
<1>1. IInv => ValidIsComplete
  BY DEF IInv
<1>2. QED
  BY <1>1, Invariance, PTL

\* The types a caller gave are never resolved, and what the classes take over
\* refers only to frozen types, those of other scopes included.
THEOREM CallersKeepTypes == Spec => []GivenUntouched
<1>1. IInv => GivenUntouched
  <2> SUFFICES ASSUME IInv PROVE GivenUntouched
    OBVIOUS
  <2>1. \A o \in DOMAIN path : \E s \in copies : \E q \in Sources(s) :
          o = <<s, q>> /\ path[o] \in Resolved(s, q) /\ s \in Here /\ s # 0
    BY HereIsScope DEF IInv, Flags, PathsLead
  <2>2. \A s, p : <<0, TypeAt(given[s], p).id>> \notin DOMAIN path
    BY <2>1
  <2>3. ASSUME at = "replaced", NEW s \in Here, ClassOf[s] \in asked, NEW q \in Sources(s),
               ObjectAt(s, q) \in DOMAIN tag
        PROVE  path[ObjectAt(s, q)].root \in frozen
    <3>1. ObjectAt(s, q) \in DOMAIN path
      BY <2>3 DEF IInv, PathsLead
    <3>2. ObjectAt(s, q) = <<s, q>>
      BY <2>2, <3>1 DEF ObjectAt, ObjectIn
    <3>3. path[ObjectAt(s, q)] \in Resolved(s, q)
      BY <2>1, <3>1, <3>2
    <3> DEFINE r == path[ObjectAt(s, q)].root
    <3>4. r \in Here /\ r \in 1..s
      BY <3>3, TargetIsBefore
    <3>5. ClassOf[r] \in asked \cup known
      BY <2>3, <3>4, HereIsScope, ValidationAssumption DEF IInv, Flags
    <3>6. QED
      BY <2>3, <3>4, <3>5 DEF IInv, Flags
  <2>4. at = "replaced" => \A s \in Here : ClassOf[s] \in asked => s \in frozen
    BY DEF IInv, Flags
  <2>5. QED
    BY <2>2, <2>3, <2>4 DEF GivenUntouched
<1>2. QED
  BY <1>1, Invariance, PTL

\* The path of a sequence or a variant leads to a field that is decoded before
\* it, an unsigned integer or an enumeration: the half of LinksAreRight that
\* validate_target_field_path() is there for.
THEOREM TargetsComeFirst == Spec => []LinksAreUsable
<1>1. IInv => LinksAreUsable
  <2> SUFFICES ASSUME IInv, NEW s \in Here \cap copies, NEW q \in Sources(s),
                      ObjectAt(s, q) \in DOMAIN path
               PROVE  /\ IsBefore(path[ObjectAt(s, q)], s, q)
                      /\ Suits(TypeAt(given[s], q),
                               TypeAt(given[path[ObjectAt(s, q)].root], path[ObjectAt(s, q)].place))
    BY DEF LinksAreUsable
  <2>1. ObjectAt(s, q) = <<s, q>>
    BY DEF ObjectAt, ObjectIn
  <2>2. path[ObjectAt(s, q)] \in Resolved(s, q)
    BY <2>1 DEF IInv, PathsLead
  <2>3. QED
    BY <2>2 DEF Resolved
<1>2. QED
  BY <1>1, Invariance, PTL

(***************************************************************************)
(* Numbers and sequences.                                                  *)
(***************************************************************************)

\* Induction over the natural numbers, for a set instead of a predicate.
LEMMA SetInduction ==
  ASSUME NEW S, 0 \in S, \A k \in Nat : k \in S => k + 1 \in S
  PROVE  Nat \subseteq S
<1> DEFINE R == {p \in Nat \X Nat : p[1] < p[2]}
<1>1. IsWellFoundedOn(R, Nat)
  BY NatLessThanWellFounded DEF OpToRel
<1>2. SUFFICES ASSUME Nat \ S # {} PROVE FALSE
  OBVIOUS
<1>3. PICK k \in Nat \ S : \A j \in Nat \ S : <<j, k>> \notin R
  <2> HIDE DEF R
  <2> QED
    BY <1>1, <1>2, WFMin, Nat \ S \subseteq Nat
<1>4. k - 1 \in Nat
  BY <1>3
<1>5. <<k - 1, k>> \in R
  BY <1>4, <1>3
<1>6. k - 1 \in S
  BY <1>3, <1>4, <1>5
<1>7. QED
  BY <1>3, <1>4, <1>6

\* Numbers with a bound have a maximum.
LEMMA BoundedMax ==
  ASSUME NEW n \in Nat, NEW S \in SUBSET (0..n), S # {}
  PROVE  Max(S) \in S /\ \A x \in S : x <= Max(S)
<1> DEFINE HasMax(T) == \E m \in T : \A x \in T : m >= x
           K == {k \in Nat : \A T \in SUBSET (0..k) : T # {} => HasMax(T)}
<1>1. 0 \in K
  <2> SUFFICES ASSUME NEW T \in SUBSET (0..0), T # {} PROVE HasMax(T)
    OBVIOUS
  <2>1. \A x \in T : x = 0
    OBVIOUS
  <2>2. 0 \in T
    BY <2>1
  <2>3. \A x \in T : 0 >= x
    BY <2>1
  <2>4. QED
    BY <2>2, <2>3
<1>2. ASSUME NEW k \in Nat, k \in K PROVE k + 1 \in K
  <2> SUFFICES ASSUME NEW T \in SUBSET (0..(k + 1)), T # {} PROVE HasMax(T)
    OBVIOUS
  <2>1. CASE k + 1 \in T
    BY <2>1
  <2>2. CASE k + 1 \notin T
    <3>1. T \in SUBSET (0..k)
      BY <2>2
    <3>2. QED
      BY <1>2, <3>1
  <2>3. QED
    BY <2>1, <2>2
<1>3. Nat \subseteq K
  <2> HIDE DEF K
  <2> QED
    BY <1>1, <1>2, SetInduction
<1>4. \E m \in S : \A x \in S : m >= x
  BY <1>3
<1>5. QED
  BY <1>4 DEF Max

\* A sequence is what it begins with and what is left.
LEMMA FirstAndRest ==
  ASSUME NEW S, NEW p \in Seq(S), NEW i \in 1..Len(p)
  PROVE  /\ SubSeq(p, i, Len(p)) = <<p[i]>> \o SubSeq(p, i + 1, Len(p))
         /\ SubSeq(p, 1, i) = Append(SubSeq(p, 1, i - 1), p[i])
<1>1. Len(p) \in Nat /\ i \in 1..Len(p) /\ Len(p) \in i..Len(p) /\ 1 \in 1..Len(p) /\ i \in 1..i
  OBVIOUS
<1>2. SubSeq(p, i, Len(p)) = <<p[i]>> \o SubSeq(p, i + 1, Len(p))
  BY <1>1, SubSeqRecursiveFirst
<1>3. SubSeq(p, 1, i) = SubSeq(p, 1, i - 1) \o <<p[i]>>
  BY <1>1, SubSeqRecursiveSecond
<1>4. SubSeq(p, 1, i - 1) \in Seq(S) /\ p[i] \in S
  BY <1>1
<1>5. SubSeq(p, 1, i - 1) \o <<p[i]>> = Append(SubSeq(p, 1, i - 1), p[i])
  BY <1>4, AppendIsConcat
<1>6. QED
  BY <1>2, <1>3, <1>5

LEMMA Halves ==
  ASSUME NEW S, NEW p \in Seq(S), NEW i \in 0..Len(p)
  PROVE  /\ SubSeq(p, 1, i) \in Seq(S) /\ Len(SubSeq(p, 1, i)) = i
         /\ SubSeq(p, i + 1, Len(p)) \in Seq(S) /\ Len(SubSeq(p, i + 1, Len(p))) = Len(p) - i
         /\ SubSeq(p, 1, i) \o SubSeq(p, i + 1, Len(p)) = p
         /\ \A j \in 1..i : SubSeq(p, 1, i)[j] = p[j]
         /\ \A j \in 1..(Len(p) - i) : SubSeq(p, i + 1, Len(p))[j] = p[i + j]
<1>1. Len(p) \in Nat /\ 1 \in 1..(Len(p) + 1) /\ i \in (1 - 1)..Len(p) /\ Len(p) \in i..Len(p)
  OBVIOUS
<1>2. SubSeq(p, 1, i) \o SubSeq(p, i + 1, Len(p)) = SubSeq(p, 1, Len(p))
  BY <1>1, ConcatAdjacentSubSeq
<1>3. SubSeq(p, 1, Len(p)) = p
  BY SubSeqFull
<1>4. /\ SubSeq(p, 1, i) \in Seq(S) /\ Len(SubSeq(p, 1, i)) = i
      /\ \A j \in 1..i : SubSeq(p, 1, i)[j] = p[j]
  BY <1>1
<1>5. /\ SubSeq(p, i + 1, Len(p)) \in Seq(S) /\ Len(SubSeq(p, i + 1, Len(p))) = Len(p) - i
      /\ \A j \in 1..(Len(p) - i) : SubSeq(p, i + 1, Len(p))[j] = p[i + j]
  BY <1>1
<1>6. QED
  BY <1>2, <1>3, <1>4, <1>5

\* The beginning of a sequence to which something was added.
LEMMA BeginningOfConcat ==
  ASSUME NEW S, NEW p \in Seq(S), NEW r \in Seq(S), NEW i \in 0..Len(p)
  PROVE  SubSeq(p \o r, 1, i) = SubSeq(p, 1, i)
<1>1. CASE i = 0
  <2>1. SubSeq(p \o r, 1, 0) = <<>> /\ SubSeq(p, 1, 0) = <<>>
    BY SubSeqEmpty
  <2>2. QED
    BY <1>1, <2>1
<1>2. CASE i # 0
  <2>1. i \in 1..Len(p) /\ 1 \in 1..Len(p)
    BY <1>2
  <2>2. QED
    BY <2>1, SubSeqOfConcat1
<1>3. QED
  BY <1>1, <1>2

LEMMA EndOfConcat ==
  ASSUME NEW S, NEW p \in Seq(S), NEW r \in Seq(S)
  PROVE  /\ SubSeq(p \o r, 1, Len(p)) = p
         /\ SubSeq(p \o r, Len(p) + 1, Len(p \o r)) = r
<1> DEFINE u == p \o r
<1>1. /\ Len(p) \in Nat /\ Len(r) \in Nat /\ u \in Seq(S) /\ Len(u) = Len(p) + Len(r)
      /\ \A i \in 1..Len(p) + Len(r) : u[i] = IF i <= Len(p) THEN p[i] ELSE r[i - Len(p)]
  BY ConcatProperties
<1> HIDE DEF u
<1>2. Len(p) \in 0..Len(u)
  BY <1>1
<1> DEFINE a == SubSeq(u, 1, Len(p))
           b == SubSeq(u, Len(p) + 1, Len(u))
<1>3. /\ a \in Seq(S) /\ Len(a) = Len(p)
      /\ \A j \in 1..Len(p) : a[j] = u[j]
      /\ b \in Seq(S) /\ Len(b) = Len(r)
      /\ \A j \in 1..Len(r) : b[j] = u[Len(p) + j]
  BY <1>1, <1>2, Halves
<1> HIDE DEF a, b
<1>4. a = p
  <2>1. \A j \in 1..Len(a) : a[j] = p[j]
    BY <1>1, <1>3
  <2>2. QED
    BY <1>3, <2>1, SeqEqual
<1>5. b = r
  <2>1. \A j \in 1..Len(b) : b[j] = r[j]
    <3> SUFFICES ASSUME NEW j \in 1..Len(r) PROVE b[j] = r[j]
      BY <1>3
    <3>1. Len(p) + j \in 1..Len(p) + Len(r) /\ ~(Len(p) + j <= Len(p)) /\ Len(p) + j - Len(p) = j
      BY <1>1
    <3>2. b[j] = u[Len(p) + j]
      BY <1>3
    <3>3. u[Len(p) + j] = r[Len(p) + j - Len(p)]
      BY <1>1, <3>1
    <3>4. QED
      BY <3>1, <3>2, <3>3
  <2>2. QED
    BY <1>3, <2>1, SeqEqual
<1>6. QED
  BY <1>4, <1>5 DEF a, b, u

(***************************************************************************)
(* The type at a place.                                                    *)
(***************************************************************************)

\* The types on the way to a place.
Down(f, t, p) ==
  f = [i \in 0..Len(p) |-> IF i = 0 THEN t ELSE ChildAt(f[i - 1], p[i])]

\* There is such a way: it grows by one type after the other.
LEMMA DownExists ==
  ASSUME NEW t, NEW p, Len(p) \in Nat
  PROVE  \E f : Down(f, t, p)
<1> DEFINE Def(f, i) == IF i = 0 THEN t ELSE ChildAt(f[i - 1], p[i])
           T == {j \in Nat : \E f : f = [i \in 0..j |-> Def(f, i)]}
<1>1. 0 \in T
  <2> DEFINE f == [i \in 0..0 |-> t]
  <2>1. f = [i \in 0..0 |-> Def(f, i)]
    OBVIOUS
  <2>2. QED
    BY <2>1
<1>2. ASSUME NEW j \in Nat, j \in T PROVE j + 1 \in T
  <2>1. PICK f : f = [i \in 0..j |-> Def(f, i)]
    BY <1>2
  <2> DEFINE g == [i \in 0..(j + 1) |-> IF i = j + 1 THEN ChildAt(f[j], p[i]) ELSE f[i]]
  <2>2. \A i \in 0..(j + 1) : g[i] = Def(g, i)
    <3> SUFFICES ASSUME NEW i \in 0..(j + 1) PROVE g[i] = Def(g, i)
      OBVIOUS
    <3>1. CASE i = j + 1
      <4>1. i - 1 = j /\ i # 0 /\ j \in 0..(j + 1) /\ j # j + 1
        BY <3>1
      <4>2. g[i - 1] = f[j] /\ g[i] = ChildAt(f[j], p[i])
        BY <3>1, <4>1
      <4>3. QED
        BY <4>1, <4>2
    <3>2. CASE i # j + 1
      <4>1. i \in 0..j /\ (i # 0 => i - 1 \in 0..(j + 1) /\ i - 1 # j + 1)
        BY <3>2
      <4>2. g[i] = f[i] /\ f[i] = Def(f, i) /\ (i # 0 => g[i - 1] = f[i - 1])
        BY <2>1, <3>2, <4>1
      <4>3. QED
        BY <4>2
    <3>3. QED
      BY <3>1, <3>2
  <2>3. g = [i \in 0..(j + 1) |-> Def(g, i)]
    BY <2>2
  <2> HIDE DEF g
  <2>4. QED
    BY <2>3
<1>3. Nat \subseteq T
  <2> HIDE DEF T
  <2> QED
    BY <1>1, <1>2, SetInduction
<1>4. QED
  BY <1>3 DEF Down

Steps(f, t, p) == f[0] = t /\ \A i \in 1..Len(p) : f[i] = ChildAt(f[i - 1], p[i])

LEMMA DownSteps ==
  ASSUME NEW t, NEW p, Len(p) \in Nat, NEW f, Down(f, t, p)
  PROVE  Steps(f, t, p)
<1> DEFINE Def(i) == IF i = 0 THEN t ELSE ChildAt(f[i - 1], p[i])
<1>1. f = [i \in 0..Len(p) |-> Def(i)]
  BY DEF Down
<1>2. \A i \in 0..Len(p) : f[i] = Def(i)
  <2> HIDE DEF Def
  <2> QED
    BY <1>1
<1>3. 0 \in 0..Len(p) /\ \A i \in 1..Len(p) : i \in 0..Len(p) /\ i # 0
  OBVIOUS
<1>4. QED
  BY <1>2, <1>3 DEF Steps

LEMMA DownTo ==
  ASSUME NEW t, NEW p, Len(p) \in Nat
  PROVE  \E f : Steps(f, t, p) /\ TypeAt(t, p) = f[Len(p)]
<1> DEFINE f == CHOOSE f : Down(f, t, p)
<1>1. TypeAt(t, p) = f[Len(p)]
  BY DEF TypeAt, Down
<1>2. Down(f, t, p)
  BY DownExists
<1> HIDE DEF f
<1>3. QED
  BY <1>1, <1>2, DownSteps

\* Any way down ends there.
LEMMA TypeAtIs ==
  ASSUME NEW t, NEW p, Len(p) \in Nat, NEW g, Steps(g, t, p)
  PROVE  TypeAt(t, p) = g[Len(p)]
<1>1. PICK f : Steps(f, t, p) /\ TypeAt(t, p) = f[Len(p)]
  BY DownTo
<1> DEFINE T == {j \in Nat : j <= Len(p) => f[j] = g[j]}
<1>2. 0 \in T
  BY <1>1 DEF Steps
<1>3. ASSUME NEW j \in Nat, j \in T PROVE j + 1 \in T
  <2> SUFFICES ASSUME j + 1 <= Len(p) PROVE f[j + 1] = g[j + 1]
    OBVIOUS
  <2>1. j + 1 \in 1..Len(p) /\ (j + 1) - 1 = j /\ f[j] = g[j]
    BY <1>3
  <2>2. f[j + 1] = ChildAt(f[(j + 1) - 1], p[j + 1]) /\ g[j + 1] = ChildAt(g[(j + 1) - 1], p[j + 1])
    BY <1>1, <2>1 DEF Steps
  <2>3. QED
    BY <2>1, <2>2
<1>4. Nat \subseteq T
  <2> HIDE DEF T
  <2> QED
    BY <1>2, <1>3, SetInduction
<1>5. QED
  BY <1>1, <1>4

LEMMA TypeAtRoot ==
  ASSUME NEW t
  PROVE  TypeAt(t, <<>>) = t
<1> DEFINE f == [i \in {0} |-> t]
<1>1. Len(<<>>) = 0 /\ f[0] = t /\ Steps(f, t, <<>>)
  BY DEF Steps
<1> HIDE DEF f
<1>2. QED
  BY <1>1, TypeAtIs

\* From a place one goes on from the type that is there.
LEMMA TypeAtConcat ==
  ASSUME NEW t, NEW p \in Seq(Nat), NEW r \in Seq(Nat)
  PROVE  TypeAt(t, p \o r) = TypeAt(TypeAt(t, p), r)
<1> DEFINE u == p \o r
<1>1. /\ Len(p) \in Nat /\ Len(r) \in Nat /\ Len(u) = Len(p) + Len(r)
      /\ \A i \in 1..Len(p) : u[i] = p[i]
      /\ \A i \in 1..Len(r) : u[Len(p) + i] = r[i]
  OBVIOUS
<1> HIDE DEF u
<1>2. PICK f : Steps(f, t, u) /\ TypeAt(t, u) = f[Len(u)]
  <2>1. Len(u) \in Nat
    BY <1>1
  <2>2. QED
    BY <2>1, DownTo
<1>3. TypeAt(t, p) = f[Len(p)]
  <2>1. \A i \in 1..Len(p) : i \in 1..Len(u) /\ u[i] = p[i]
    BY <1>1
  <2>2. Steps(f, t, p)
    BY <1>2, <2>1 DEF Steps
  <2>3. QED
    BY <1>1, <2>2, TypeAtIs
<1> DEFINE g == [i \in 0..Len(r) |-> f[Len(p) + i]]
<1>4. g[0] = TypeAt(t, p)
  BY <1>1, <1>3
<1>5. \A i \in 1..Len(r) : g[i] = ChildAt(g[i - 1], r[i])
  <2> SUFFICES ASSUME NEW i \in 1..Len(r) PROVE g[i] = ChildAt(g[i - 1], r[i])
    OBVIOUS
  <2>1. /\ Len(p) + i \in 1..Len(u) /\ (Len(p) + i) - 1 = Len(p) + (i - 1)
        /\ i \in 0..Len(r) /\ i - 1 \in 0..Len(r)
    BY <1>1
  <2>2. f[Len(p) + i] = ChildAt(f[(Len(p) + i) - 1], u[Len(p) + i])
    BY <1>2, <2>1 DEF Steps
  <2>3. g[i] = f[Len(p) + i] /\ g[i - 1] = f[Len(p) + (i - 1)] /\ u[Len(p) + i] = r[i]
    BY <1>1, <2>1
  <2>4. QED
    BY <2>1, <2>2, <2>3
<1>6. g[Len(r)] = f[Len(u)]
  BY <1>1
<1> HIDE DEF g
<1>7. TypeAt(TypeAt(t, p), r) = g[Len(r)]
  <2>1. Steps(g, TypeAt(t, p), r)
    BY <1>4, <1>5 DEF Steps
  <2>2. QED
    BY <1>1, <2>1, TypeAtIs
<1>8. QED
  BY <1>2, <1>6, <1>7 DEF u

LEMMA TypeAtAppend ==
  ASSUME NEW t, NEW p \in Seq(Nat), NEW x \in Nat
  PROVE  TypeAt(t, Append(p, x)) = ChildAt(TypeAt(t, p), x)
<1>1. Append(p, x) = p \o <<x>> /\ <<x>> \in Seq(Nat)
  BY AppendIsConcat
<1>2. TypeAt(t, p \o <<x>>) = TypeAt(TypeAt(t, p), <<x>>)
  BY <1>1, TypeAtConcat
<1>3. TypeAt(TypeAt(t, p), <<x>>) = ChildAt(TypeAt(t, p), x)
  <2> DEFINE here == TypeAt(t, p)
             f == [i \in {0, 1} |-> IF i = 0 THEN here ELSE ChildAt(here, x)]
  <2>1. Len(<<x>>) = 1 /\ <<x>>[1] = x /\ f[0] = here /\ f[1] = ChildAt(f[0], x)
    OBVIOUS
  <2> HIDE DEF f, here
  <2>2. Steps(f, here, <<x>>)
    BY <2>1 DEF Steps
  <2>3. TypeAt(here, <<x>>) = f[1]
    BY <2>1, <2>2, TypeAtIs
  <2>4. QED
    BY <2>1, <2>3 DEF here
<1>4. QED
  BY <1>1, <1>2, <1>3

(***************************************************************************)
(* Places.                                                                 *)
(***************************************************************************)

LEMMA BeyondConcat ==
  ASSUME NEW S, NEW p \in Seq(S), NEW r \in Seq(S), NEW i \in 0..Len(r)
  PROVE  SubSeq(p \o r, 1, Len(p) + i) = p \o SubSeq(r, 1, i)
<1>1. /\ SubSeq(r, 1, i) \in Seq(S) /\ SubSeq(r, i + 1, Len(r)) \in Seq(S)
      /\ SubSeq(r, 1, i) \o SubSeq(r, i + 1, Len(r)) = r /\ Len(SubSeq(r, 1, i)) = i
  BY Halves
<1> DEFINE a == SubSeq(r, 1, i)
           b == SubSeq(r, i + 1, Len(r))
<1>2. a \in Seq(S) /\ b \in Seq(S) /\ a \o b = r /\ Len(a) = i
  BY <1>1
<1> HIDE DEF a, b
<1>3. p \o r = (p \o a) \o b
  <2>1. (p \o a) \o b = p \o (a \o b)
    <3>1. a \in Seq(S) /\ b \in Seq(S)
      BY <1>2
    <3>2. QED
      BY ONLY SMTT(30), p \in Seq(S), <3>1, ConcatAssociative
  <2>2. QED
    BY <1>2, <2>1
<1>4. p \o a \in Seq(S) /\ Len(p \o a) = Len(p) + i
  BY <1>2, ConcatProperties
<1>5. SubSeq((p \o a) \o b, 1, Len(p \o a)) = p \o a
  BY <1>2, <1>4, EndOfConcat
<1>6. QED
  BY <1>3, <1>4, <1>5 DEF a

IsPlace(t, p) ==
  /\ p \in Seq(Nat)
  /\ \A i \in 1..Len(p) : p[i] \in IndexesOf(TypeAt(t, SubSeq(p, 1, i - 1)))

LEMMA RootIsPlace ==
  ASSUME NEW t
  PROVE  IsPlace(t, <<>>)
BY DEF IsPlace

LEMMA PlaceConcat ==
  ASSUME NEW t, NEW p \in Seq(Nat), NEW r \in Seq(Nat)
  PROVE  IsPlace(t, p \o r) <=> IsPlace(t, p) /\ IsPlace(TypeAt(t, p), r)
<1> DEFINE u == p \o r
<1>1. /\ Len(p) \in Nat /\ Len(r) \in Nat /\ Len(u) = Len(p) + Len(r) /\ u \in Seq(Nat)
      /\ \A i \in 1..Len(p) : u[i] = p[i]
      /\ \A i \in 1..Len(r) : u[Len(p) + i] = r[i]
  OBVIOUS
<1>2. ASSUME NEW i \in 1..Len(p)
      PROVE  TypeAt(t, SubSeq(u, 1, i - 1)) = TypeAt(t, SubSeq(p, 1, i - 1))
  <2>1. i - 1 \in 0..Len(p)
    OBVIOUS
  <2>2. QED
    BY <2>1, BeginningOfConcat
<1>3. ASSUME NEW i \in 1..Len(r)
      PROVE  TypeAt(t, SubSeq(u, 1, (Len(p) + i) - 1)) = TypeAt(TypeAt(t, p), SubSeq(r, 1, i - 1))
  <2>1. i - 1 \in 0..Len(r) /\ (Len(p) + i) - 1 = Len(p) + (i - 1)
    BY <1>1
  <2>2. SubSeq(u, 1, Len(p) + (i - 1)) = p \o SubSeq(r, 1, i - 1)
    BY <2>1, BeyondConcat
  <2>3. SubSeq(r, 1, i - 1) \in Seq(Nat)
    BY <2>1, Halves
  <2>4. TypeAt(t, p \o SubSeq(r, 1, i - 1)) = TypeAt(TypeAt(t, p), SubSeq(r, 1, i - 1))
    BY <2>3, TypeAtConcat
  <2>5. QED
    BY <2>1, <2>2, <2>4
<1> HIDE DEF u
<1>4. ASSUME IsPlace(t, u)
      PROVE  IsPlace(t, p) /\ IsPlace(TypeAt(t, p), r)
  <2>1. ASSUME NEW i \in 1..Len(p) PROVE p[i] \in IndexesOf(TypeAt(t, SubSeq(p, 1, i - 1)))
    <3>1. i \in 1..Len(u)
      BY <1>1
    <3>2. u[i] \in IndexesOf(TypeAt(t, SubSeq(u, 1, i - 1)))
      BY <1>4, <3>1 DEF IsPlace
    <3>3. QED
      BY <1>1, <1>2, <3>2
  <2>2. ASSUME NEW i \in 1..Len(r)
        PROVE  r[i] \in IndexesOf(TypeAt(TypeAt(t, p), SubSeq(r, 1, i - 1)))
    <3>1. Len(p) + i \in 1..Len(u)
      BY <1>1
    <3>2. u[Len(p) + i] \in IndexesOf(TypeAt(t, SubSeq(u, 1, (Len(p) + i) - 1)))
      BY <1>4, <3>1 DEF IsPlace
    <3>3. QED
      BY <1>1, <1>3, <3>2
  <2>3. QED
    BY <2>1, <2>2 DEF IsPlace
<1>5. ASSUME IsPlace(t, p), IsPlace(TypeAt(t, p), r)
      PROVE  IsPlace(t, u)
  <2>1. ASSUME NEW i \in 1..Len(u) PROVE u[i] \in IndexesOf(TypeAt(t, SubSeq(u, 1, i - 1)))
    <3>1. CASE i \in 1..Len(p)
      <4>1. p[i] \in IndexesOf(TypeAt(t, SubSeq(p, 1, i - 1)))
        BY <1>5, <3>1 DEF IsPlace
      <4>2. QED
        BY <1>1, <1>2, <3>1, <4>1
    <3>2. CASE i \notin 1..Len(p)
      <4> DEFINE j == i - Len(p)
      <4>1. j \in 1..Len(r) /\ i = Len(p) + j
        BY <1>1, <3>2
      <4> HIDE DEF j
      <4>2. r[j] \in IndexesOf(TypeAt(TypeAt(t, p), SubSeq(r, 1, j - 1)))
        BY <1>5, <4>1 DEF IsPlace
      <4>3. u[Len(p) + j] = r[j]
            /\ TypeAt(t, SubSeq(u, 1, (Len(p) + j) - 1)) = TypeAt(TypeAt(t, p), SubSeq(r, 1, j - 1))
        BY <1>1, <1>3, <4>1
      <4>4. QED
        BY <4>1, <4>2, <4>3
    <3>3. QED
      BY <3>1, <3>2
  <2>2. QED
    BY <1>1, <2>1 DEF IsPlace
<1>6. QED
  BY <1>4, <1>5 DEF u

LEMMA PlaceAppend ==
  ASSUME NEW t, NEW p \in Seq(Nat), NEW x \in Nat
  PROVE  IsPlace(t, Append(p, x)) <=> IsPlace(t, p) /\ x \in IndexesOf(TypeAt(t, p))
<1>1. Append(p, x) = p \o <<x>> /\ <<x>> \in Seq(Nat)
  BY AppendIsConcat
<1>2. IsPlace(t, p \o <<x>>) <=> IsPlace(t, p) /\ IsPlace(TypeAt(t, p), <<x>>)
  BY <1>1, PlaceConcat
<1>3. IsPlace(TypeAt(t, p), <<x>>) <=> x \in IndexesOf(TypeAt(t, p))
  <2>1. /\ Len(<<x>>) = 1 /\ <<x>>[1] = x /\ SubSeq(<<x>>, 1, 1 - 1) = <<>>
        /\ TypeAt(TypeAt(t, p), <<>>) = TypeAt(t, p)
    BY TypeAtRoot, SubSeqEmpty
  <2>2. \A i \in 1..1 : i = 1
    OBVIOUS
  <2> DEFINE w == <<x>>
  <2>3. /\ Len(w) = 1 /\ w[1] = x /\ SubSeq(w, 1, 1 - 1) = <<>> /\ w \in Seq(Nat)
        /\ TypeAt(TypeAt(t, p), <<>>) = TypeAt(t, p)
    BY <1>1, <2>1
  <2> HIDE DEF w
  <2> DEFINE here == TypeAt(t, p)
             At(i) == w[i] \in IndexesOf(TypeAt(here, SubSeq(w, 1, i - 1)))
  <2>6. At(1) <=> x \in IndexesOf(here)
    BY <2>3
  <2>7. IsPlace(here, w) <=> \A i \in 1..1 : At(i)
    BY <2>3 DEF IsPlace
  <2> HIDE DEF At
  <2>4. IsPlace(here, w) <=> x \in IndexesOf(here)
    BY <2>2, <2>6, <2>7
  <2>5. QED
    BY <2>4 DEF w
<1>4. QED
  BY <1>1, <1>2, <1>3

\* A place leads through places.
LEMMA PlaceParts ==
  ASSUME NEW t, NEW p, IsPlace(t, p), NEW i \in 0..Len(p)
  PROVE  /\ IsPlace(t, SubSeq(p, 1, i))
         /\ IsPlace(TypeAt(t, SubSeq(p, 1, i)), SubSeq(p, i + 1, Len(p)))
<1>1. p \in Seq(Nat)
  BY DEF IsPlace
<1>2. /\ SubSeq(p, 1, i) \in Seq(Nat) /\ SubSeq(p, i + 1, Len(p)) \in Seq(Nat)
      /\ SubSeq(p, 1, i) \o SubSeq(p, i + 1, Len(p)) = p
  BY <1>1, Halves
<1>3. QED
  BY <1>2, PlaceConcat

\* A type that is well made, and so is all below it.
Made(u) ==
  /\ DOMAIN u.kids = 1..Len(u.kids) /\ Len(u.kids) \in 0..(Far - 1)
  /\ \A i \in DOMAIN u.kids : u.kids[i].name \in STRING

Tame(t) == \A p : IsPlace(t, p) => Made(TypeAt(t, p)) /\ Len(p) <= MaxDepth

LEMMA IndexesAreNumbers ==
  ASSUME NEW u, Made(u)
  PROVE  IndexesOf(u) \subseteq Nat
BY DEF Made, IndexesOf, Element

LEMMA TameBelow ==
  ASSUME NEW t, Tame(t), NEW p, IsPlace(t, p)
  PROVE  Tame(TypeAt(t, p))
<1> SUFFICES ASSUME NEW r, IsPlace(TypeAt(t, p), r)
             PROVE  Made(TypeAt(TypeAt(t, p), r)) /\ Len(r) <= MaxDepth
  BY DEF Tame
<1>1. p \in Seq(Nat) /\ r \in Seq(Nat)
  BY DEF IsPlace
<1>2. IsPlace(t, p \o r) /\ TypeAt(t, p \o r) = TypeAt(TypeAt(t, p), r)
  BY <1>1, PlaceConcat, TypeAtConcat
<1>3. Made(TypeAt(t, p \o r)) /\ Len(p \o r) <= MaxDepth
  BY <1>2 DEF Tame
<1>4. Len(p \o r) = Len(p) + Len(r) /\ Len(p) \in Nat /\ Len(r) \in Nat
  BY <1>1, ConcatProperties
<1>5. QED
  BY <1>2, <1>3, <1>4, ValidationAssumption

(***************************************************************************)
(* The places of a type, level by level.                                   *)
(***************************************************************************)

\* The places one step below.
NextLevel(t, P) == UNION {{Append(p, i) : i \in IndexesOf(TypeAt(t, p))} : p \in P}

LevelsOf(f, t) == f[0] = {<<>>} /\ \A d \in 1..MaxDepth : f[d] = NextLevel(t, f[d - 1])

LEMMA LevelsExist ==
  ASSUME NEW t
  PROVE  \E f : LevelsOf(f, t) /\ PlacesOf(t) = UNION {f[d] : d \in 0..MaxDepth}
<1> DEFINE Def(f, d) == IF d = 0 THEN {<<>>} ELSE NextLevel(t, f[d - 1])
           T == {j \in Nat : \E f : f = [d \in 0..j |-> Def(f, d)]}
           Is(f) == f = [d \in 0..MaxDepth |->
                      IF d = 0 THEN {<<>>}
                      ELSE UNION {{Append(p, i) : i \in IndexesOf(TypeAt(t, p))} : p \in f[d - 1]}]
<1>1. 0 \in T
  <2> DEFINE f == [d \in 0..0 |-> {<<>>}]
  <2>1. f = [d \in 0..0 |-> Def(f, d)]
    OBVIOUS
  <2>2. QED
    BY <2>1
<1>2. ASSUME NEW j \in Nat, j \in T PROVE j + 1 \in T
  <2>1. PICK f : f = [d \in 0..j |-> Def(f, d)]
    BY <1>2
  <2> DEFINE g == [d \in 0..(j + 1) |-> IF d = j + 1 THEN NextLevel(t, f[j]) ELSE f[d]]
  <2>2. \A d \in 0..(j + 1) : g[d] = Def(g, d)
    <3> SUFFICES ASSUME NEW d \in 0..(j + 1) PROVE g[d] = Def(g, d)
      OBVIOUS
    <3>1. CASE d = j + 1
      <4>1. d - 1 = j /\ d # 0 /\ j \in 0..(j + 1) /\ j # j + 1
        BY <3>1
      <4>2. g[d - 1] = f[j] /\ g[d] = NextLevel(t, f[j])
        BY <3>1, <4>1
      <4>3. QED
        BY <4>1, <4>2
    <3>2. CASE d # j + 1
      <4>1. d \in 0..j /\ (d # 0 => d - 1 \in 0..(j + 1) /\ d - 1 # j + 1)
        BY <3>2
      <4>2. g[d] = f[d] /\ f[d] = Def(f, d) /\ (d # 0 => g[d - 1] = f[d - 1])
        BY <2>1, <3>2, <4>1
      <4>3. QED
        BY <4>2
    <3>3. QED
      BY <3>1, <3>2
  <2>3. g = [d \in 0..(j + 1) |-> Def(g, d)]
    BY <2>2
  <2> HIDE DEF g
  <2>4. QED
    BY <2>3
<1>3. Nat \subseteq T
  <2> HIDE DEF T
  <2> QED
    BY <1>1, <1>2, SetInduction
<1>4. MaxDepth \in Nat
  BY ValidationAssumption
<1>5. \E f : Is(f)
  BY <1>3, <1>4 DEF NextLevel
<1> DEFINE f == CHOOSE f : Is(f)
<1>6. PlacesOf(t) = UNION {f[d] : d \in 0..MaxDepth}
  BY DEF PlacesOf
<1>7. Is(f)
  <2> HIDE DEF Is
  <2> QED
    BY <1>5
<1>8. \A d \in 0..MaxDepth : f[d] = Def(f, d)
  <2>1. f = [d \in 0..MaxDepth |-> Def(f, d)]
    BY <1>7 DEF NextLevel
  <2> HIDE DEF Def, f
  <2>2. QED
    BY <2>1
<1> HIDE DEF f
<1>9. LevelsOf(f, t)
  <2>1. 0 \in 0..MaxDepth /\ \A d \in 1..MaxDepth : d \in 0..MaxDepth /\ d # 0
    BY <1>4
  <2>2. QED
    BY <1>8, <2>1 DEF LevelsOf
<1>10. QED
  BY <1>6, <1>9

\* A level has the places of its length.
LEMMA LevelsHave ==
  ASSUME NEW t, NEW f, LevelsOf(f, t),
         \A d \in 0..MaxDepth : \A p \in f[d] : Made(TypeAt(t, p))
  PROVE  \A d \in 0..MaxDepth : \A p : p \in f[d] <=> IsPlace(t, p) /\ Len(p) = d
<1> DEFINE T == {j \in Nat : j <= MaxDepth => \A p : p \in f[j] <=> IsPlace(t, p) /\ Len(p) = j}
<1>0. MaxDepth \in Nat
  BY ValidationAssumption
<1>1. 0 \in T
  <2>1. \A p : IsPlace(t, p) /\ Len(p) = 0 <=> p = <<>>
    <3>1. \A p \in Seq(Nat) : Len(p) = 0 <=> p = <<>>
      BY EmptySeq
    <3>2. QED
      BY <3>1, RootIsPlace DEF IsPlace
  <2>2. QED
    BY <2>1 DEF LevelsOf
<1>2. ASSUME NEW j \in Nat, j \in T PROVE j + 1 \in T
  <2> SUFFICES ASSUME j + 1 <= MaxDepth, NEW p
               PROVE  p \in f[j + 1] <=> IsPlace(t, p) /\ Len(p) = j + 1
    OBVIOUS
  <2>1. j + 1 \in 1..MaxDepth /\ j \in 0..MaxDepth /\ (j + 1) - 1 = j
    BY <1>0
  <2>2. \A q : q \in f[j] <=> IsPlace(t, q) /\ Len(q) = j
    BY <1>2, <2>1
  <2>3. f[j + 1] = NextLevel(t, f[j])
    BY <2>1 DEF LevelsOf
  <2>4. ASSUME p \in f[j + 1] PROVE IsPlace(t, p) /\ Len(p) = j + 1
    <3> DEFINE Below(q) == {Append(q, i) : i \in IndexesOf(TypeAt(t, q))}
    <3>7. p \in UNION {Below(q) : q \in f[j]}
      BY <2>3, <2>4 DEF NextLevel
    <3>8. PICK q \in f[j] : p \in Below(q)
      BY <3>7
    <3>1. PICK i \in IndexesOf(TypeAt(t, q)) : p = Append(q, i)
      BY <3>8
    <3>2. IsPlace(t, q) /\ Len(q) = j /\ q \in Seq(Nat)
      BY <2>2 DEF IsPlace
    <3>3. i \in Nat
      BY <2>1, IndexesAreNumbers
    <3>4. IsPlace(t, Append(q, i))
      BY <3>2, <3>3, PlaceAppend
    <3>5. Len(Append(q, i)) = j + 1
      BY <3>2, <3>3
    <3>6. QED
      BY <3>1, <3>4, <3>5
  <2>5. ASSUME IsPlace(t, p), Len(p) = j + 1 PROVE p \in f[j + 1]
    <3> DEFINE q == SubSeq(p, 1, j)
               i == p[j + 1]
    <3>1. p \in Seq(Nat) /\ j + 1 \in 1..Len(p) /\ j \in 0..Len(p) /\ Len(p) = j + 1
      BY <2>5 DEF IsPlace
    <3>2. q \in Seq(Nat) /\ Len(q) = j /\ i \in Nat
      BY <3>1, Halves
    <3>3. p = Append(q, i)
      <4>1. SubSeq(p, 1, j + 1) = Append(SubSeq(p, 1, (j + 1) - 1), p[j + 1])
        BY <3>1, FirstAndRest
      <4>2. SubSeq(p, 1, j + 1) = p
        BY <3>1, SubSeqFull
      <4>3. QED
        BY <2>1, <4>1, <4>2
    <3> HIDE DEF q, i
    <3>4. IsPlace(t, q) /\ i \in IndexesOf(TypeAt(t, q))
      BY <2>5, <3>2, <3>3, PlaceAppend
    <3>5. q \in f[j]
      BY <2>2, <3>2, <3>4
    <3>6. QED
      BY <2>3, <3>3, <3>4, <3>5 DEF NextLevel
  <2>6. QED
    BY <2>4, <2>5
<1>3. Nat \subseteq T
  <2> HIDE DEF T
  <2> QED
    BY <1>1, <1>2, SetInduction
<1>4. QED
  BY <1>0, <1>3

\* The places of a type that is well made are those one can go to.
LEMMA PlacesAre ==
  ASSUME NEW t, WellMade(t)
  PROVE  Tame(t) /\ \A p : p \in PlacesOf(t) <=> IsPlace(t, p)
<1>0. MaxDepth \in Nat /\ MaxDepth \in 0..MaxDepth
  BY ValidationAssumption
<1>1. PICK f : LevelsOf(f, t) /\ PlacesOf(t) = UNION {f[d] : d \in 0..MaxDepth}
  BY LevelsExist
<1>2. \A p \in PlacesOf(t) : /\ Made(TypeAt(t, p))
                             /\ Len(p) = MaxDepth => IndexesOf(TypeAt(t, p)) = {}
  BY DEF WellMade, Made
<1>3. \A d \in 0..MaxDepth : \A p \in f[d] : p \in PlacesOf(t)
  BY <1>1
<1>4. \A d \in 0..MaxDepth : \A p : p \in f[d] <=> IsPlace(t, p) /\ Len(p) = d
  BY <1>1, <1>2, <1>3, LevelsHave
<1>5. ASSUME NEW p, IsPlace(t, p) PROVE Len(p) \in 0..MaxDepth
  <2> SUFFICES ASSUME Len(p) > MaxDepth PROVE FALSE
    <3>1. Len(p) \in Nat
      BY <1>5 DEF IsPlace
    <3>2. QED
      BY <1>0, <3>1
  <2>1. p \in Seq(Nat) /\ Len(p) \in Nat
    BY <1>5 DEF IsPlace
  <2>2. MaxDepth \in 0..Len(p) /\ MaxDepth + 1 \in 1..Len(p) /\ (MaxDepth + 1) - 1 = MaxDepth
    BY <1>0, <2>1
  <2> DEFINE q == SubSeq(p, 1, MaxDepth)
  <2>3. IsPlace(t, q) /\ Len(q) = MaxDepth
    BY <1>5, <2>1, <2>2, PlaceParts, Halves
  <2>4. p[MaxDepth + 1] \in IndexesOf(TypeAt(t, SubSeq(p, 1, (MaxDepth + 1) - 1)))
    BY <1>5, <2>2 DEF IsPlace
  <2>5. p[MaxDepth + 1] \in IndexesOf(TypeAt(t, q))
    BY <2>2, <2>4
  <2> HIDE DEF q
  <2>6. q \in PlacesOf(t)
    BY <1>0, <1>3, <1>4, <2>3
  <2>7. QED
    BY <1>2, <2>3, <2>5, <2>6
<1>6. \A p : p \in PlacesOf(t) <=> IsPlace(t, p)
  BY <1>1, <1>4, <1>5
<1>7. Tame(t)
  BY <1>0, <1>2, <1>5, <1>6 DEF Tame
<1>8. QED
  BY <1>6, <1>7

(***************************************************************************)
(* The names on the way to a place.                                        *)
(***************************************************************************)

\* A step adds the name of a member.
Named(t, p, i, before) ==
  IF p[i] = Element THEN before
  ELSE Append(before, TypeAt(t, SubSeq(p, 1, i - 1)).kids[p[i]].name)

Naming(f, t, p) ==
  f[0] = <<>> /\ \A i \in 1..Len(p) : f[i] = Named(t, p, i, f[i - 1])

LEMMA NamingExists ==
  ASSUME NEW t, NEW p, Len(p) \in Nat
  PROVE  \E f : Naming(f, t, p) /\ NamesTo(t, p) = f[Len(p)]
<1> DEFINE Def(f, i) == IF i = 0 THEN <<>> ELSE Named(t, p, i, f[i - 1])
           T == {j \in Nat : \E f : f = [i \in 0..j |-> Def(f, i)]}
           Is(f) == f = [i \in 0..Len(p) |->
                      IF i = 0 THEN <<>>
                      ELSE IF p[i] = Element THEN f[i - 1]
                      ELSE Append(f[i - 1], TypeAt(t, SubSeq(p, 1, i - 1)).kids[p[i]].name)]
<1>1. 0 \in T
  <2> DEFINE f == [i \in 0..0 |-> <<>>]
  <2>1. f = [i \in 0..0 |-> Def(f, i)]
    OBVIOUS
  <2>2. QED
    BY <2>1
<1>2. ASSUME NEW j \in Nat, j \in T PROVE j + 1 \in T
  <2>1. PICK f : f = [i \in 0..j |-> Def(f, i)]
    BY <1>2
  <2> DEFINE g == [i \in 0..(j + 1) |-> IF i = j + 1 THEN Named(t, p, i, f[j]) ELSE f[i]]
  <2>2. \A i \in 0..(j + 1) : g[i] = Def(g, i)
    <3> SUFFICES ASSUME NEW i \in 0..(j + 1) PROVE g[i] = Def(g, i)
      OBVIOUS
    <3>1. CASE i = j + 1
      <4>1. i - 1 = j /\ i # 0 /\ j \in 0..(j + 1) /\ j # j + 1
        BY <3>1
      <4>2. g[i - 1] = f[j] /\ g[i] = Named(t, p, i, f[j])
        BY <3>1, <4>1
      <4>3. QED
        BY <4>1, <4>2
    <3>2. CASE i # j + 1
      <4>1. i \in 0..j /\ (i # 0 => i - 1 \in 0..(j + 1) /\ i - 1 # j + 1)
        BY <3>2
      <4>2. g[i] = f[i] /\ f[i] = Def(f, i) /\ (i # 0 => g[i - 1] = f[i - 1])
        BY <2>1, <3>2, <4>1
      <4>3. QED
        BY <4>2
    <3>3. QED
      BY <3>1, <3>2
  <2>3. g = [i \in 0..(j + 1) |-> Def(g, i)]
    BY <2>2
  <2> HIDE DEF g
  <2>4. QED
    BY <2>3
<1>3. Nat \subseteq T
  <2> HIDE DEF T
  <2> QED
    BY <1>1, <1>2, SetInduction
<1>4. \E f : Is(f)
  BY <1>3 DEF Named
<1> DEFINE f == CHOOSE f : Is(f)
<1>5. NamesTo(t, p) = f[Len(p)]
  BY DEF NamesTo
<1>6. Is(f)
  <2> HIDE DEF Is
  <2> QED
    BY <1>4
<1>7. \A i \in 0..Len(p) : f[i] = Def(f, i)
  <2>1. f = [i \in 0..Len(p) |-> Def(f, i)]
    BY <1>6 DEF Named
  <2> HIDE DEF Def, f
  <2>2. QED
    BY <2>1
<1> HIDE DEF f
<1>8. Naming(f, t, p)
  <2>1. 0 \in 0..Len(p) /\ \A i \in 1..Len(p) : i \in 0..Len(p) /\ i # 0
    OBVIOUS
  <2>2. QED
    BY <1>7, <2>1 DEF Naming
<1>9. QED
  BY <1>5, <1>8

LEMMA NamesAreAs ==
  ASSUME NEW t, NEW p, Len(p) \in Nat, NEW g, Naming(g, t, p)
  PROVE  NamesTo(t, p) = g[Len(p)]
<1>1. PICK f : Naming(f, t, p) /\ NamesTo(t, p) = f[Len(p)]
  BY NamingExists
<1> DEFINE T == {j \in Nat : j <= Len(p) => f[j] = g[j]}
<1>2. 0 \in T
  BY <1>1 DEF Naming
<1>3. ASSUME NEW j \in Nat, j \in T PROVE j + 1 \in T
  <2> SUFFICES ASSUME j + 1 <= Len(p) PROVE f[j + 1] = g[j + 1]
    OBVIOUS
  <2>1. j + 1 \in 1..Len(p) /\ (j + 1) - 1 = j /\ f[j] = g[j]
    BY <1>3
  <2>2. /\ f[j + 1] = Named(t, p, j + 1, f[(j + 1) - 1])
        /\ g[j + 1] = Named(t, p, j + 1, g[(j + 1) - 1])
    BY <1>1, <2>1 DEF Naming
  <2>3. QED
    BY <2>1, <2>2
<1>4. Nat \subseteq T
  <2> HIDE DEF T
  <2> QED
    BY <1>2, <1>3, SetInduction
<1>5. QED
  BY <1>1, <1>4

LEMMA NamesRoot ==
  ASSUME NEW t
  PROVE  NamesTo(t, <<>>) = <<>>
<1> DEFINE f == [i \in {0} |-> <<>>]
<1>1. Len(<<>>) = 0 /\ f[0] = <<>> /\ Naming(f, t, <<>>)
  BY DEF Naming
<1> HIDE DEF f
<1>2. QED
  BY <1>1, NamesAreAs

LEMMA NamesAppend ==
  ASSUME NEW t, NEW p \in Seq(Nat), NEW x \in Nat
  PROVE  NamesTo(t, Append(p, x)) =
           IF x = Element THEN NamesTo(t, p) ELSE Append(NamesTo(t, p), TypeAt(t, p).kids[x].name)
<1> DEFINE u == Append(p, x)
           n == Len(p)
<1>1. /\ n \in Nat /\ Len(u) = n + 1 /\ u[n + 1] = x /\ u \in Seq(Nat)
      /\ \A i \in 1..n : u[i] = p[i]
  BY AppendProperties
<1>2. \A i \in 1..(n + 1) : SubSeq(u, 1, i - 1) = SubSeq(p, 1, i - 1)
  <2> SUFFICES ASSUME NEW i \in 1..(n + 1) PROVE SubSeq(u, 1, i - 1) = SubSeq(p, 1, i - 1)
    OBVIOUS
  <2>1. u = p \o <<x>> /\ <<x>> \in Seq(Nat) /\ i - 1 \in 0..Len(p)
    BY AppendIsConcat
  <2>2. SubSeq(p \o <<x>>, 1, i - 1) = SubSeq(p, 1, i - 1)
    BY <2>1, BeginningOfConcat
  <2>3. QED
    BY <2>1, <2>2
<1>3. SubSeq(p, 1, (n + 1) - 1) = p
  BY SubSeqFull
<1> HIDE DEF u
<1>4. PICK f : Naming(f, t, u) /\ NamesTo(t, u) = f[n + 1]
  <2>1. Len(u) \in Nat
    BY <1>1
  <2>2. QED
    BY <1>1, <2>1, NamingExists
<1>5. Naming(f, t, p)
  <2>1. f[0] = <<>>
    BY <1>4 DEF Naming
  <2>2. ASSUME NEW i \in 1..n PROVE f[i] = Named(t, p, i, f[i - 1])
    <3>1. i \in 1..Len(u) /\ i \in 1..(n + 1)
      BY <1>1
    <3>2. f[i] = Named(t, u, i, f[i - 1])
      BY <1>4, <3>1 DEF Naming
    <3>3. QED
      BY <1>1, <1>2, <3>1, <3>2 DEF Named
  <2>3. QED
    BY <2>1, <2>2 DEF Naming
<1>6. NamesTo(t, p) = f[n]
  BY <1>1, <1>5, NamesAreAs
<1>7. f[n + 1] = Named(t, u, n + 1, f[n])
  <2>1. n + 1 \in 1..Len(u) /\ (n + 1) - 1 = n
    BY <1>1
  <2>2. f[n + 1] = Named(t, u, n + 1, f[(n + 1) - 1])
    BY <1>4, <2>1 DEF Naming
  <2>3. QED
    BY <2>1, <2>2
<1>8. SubSeq(u, 1, (n + 1) - 1) = p
  <2>1. n + 1 \in 1..(n + 1)
    BY <1>1
  <2>2. QED
    BY <1>2, <1>3, <2>1
<1>9. QED
  BY <1>1, <1>4, <1>6, <1>7, <1>8 DEF Named, u

\* The names are strings.
LEMMA NamesAre ==
  ASSUME NEW t, Tame(t), NEW p, IsPlace(t, p)
  PROVE  NamesTo(t, p) \in Seq(STRING)
<1> DEFINE T == {j \in Nat : j <= Len(p) => NamesTo(t, SubSeq(p, 1, j)) \in Seq(STRING)}
<1>0. p \in Seq(Nat) /\ Len(p) \in Nat
  BY DEF IsPlace
<1>1. 0 \in T
  <2>1. SubSeq(p, 1, 0) = <<>>
    BY SubSeqEmpty
  <2>2. NamesTo(t, SubSeq(p, 1, 0)) = <<>>
    BY <2>1, NamesRoot
  <2>3. <<>> \in Seq(STRING)
    OBVIOUS
  <2>4. QED
    BY <2>2, <2>3
<1>2. ASSUME NEW j \in Nat, j \in T PROVE j + 1 \in T
  <2> SUFFICES ASSUME j + 1 <= Len(p) PROVE NamesTo(t, SubSeq(p, 1, j + 1)) \in Seq(STRING)
    OBVIOUS
  <2> DEFINE q == SubSeq(p, 1, j)
             x == p[j + 1]
  <2>1. j + 1 \in 1..Len(p) /\ j \in 0..Len(p) /\ (j + 1) - 1 = j
    BY <1>0
  <2>2. SubSeq(p, 1, j + 1) = Append(q, x)
    <3>1. SubSeq(p, 1, j + 1) = Append(SubSeq(p, 1, (j + 1) - 1), p[j + 1])
      BY <1>0, <2>1, FirstAndRest
    <3>2. QED
      BY <2>1, <3>1
  <2>3. q \in Seq(Nat) /\ x \in Nat /\ IsPlace(t, SubSeq(p, 1, j + 1))
    <3>1. q \in Seq(Nat)
      BY <1>0, <2>1, Halves
    <3>2. x \in Nat
      BY <1>0, <2>1
    <3>3. j + 1 \in 0..Len(p)
      BY <2>1
    <3>4. QED
      BY <3>1, <3>2, <3>3, PlaceParts
  <2>4. NamesTo(t, q) \in Seq(STRING)
    BY <1>2, <2>1
  <2> HIDE DEF q, x
  <2>5. IsPlace(t, q) /\ x \in IndexesOf(TypeAt(t, q))
    BY <2>2, <2>3, PlaceAppend
  <2>6. NamesTo(t, Append(q, x)) =
          IF x = Element THEN NamesTo(t, q) ELSE Append(NamesTo(t, q), TypeAt(t, q).kids[x].name)
    BY <2>3, NamesAppend
  <2>7. CASE x = Element
    BY <2>2, <2>4, <2>6, <2>7
  <2>8. CASE x # Element
    <3>1. x \in DOMAIN TypeAt(t, q).kids
      BY <2>5, <2>8 DEF IndexesOf
    <3>2. TypeAt(t, q).kids[x].name \in STRING
      BY <2>5, <3>1 DEF Tame, Made
    <3> DEFINE before == NamesTo(t, q)
               name == TypeAt(t, q).kids[x].name
    <3>3. NamesTo(t, SubSeq(p, 1, j + 1)) = Append(before, name)
      BY <2>2, <2>6, <2>8
    <3>4. before \in Seq(STRING) /\ name \in STRING
      BY <2>4, <3>2
    <3> HIDE DEF before, name
    <3>5. Append(before, name) \in Seq(STRING)
      BY <3>4, AppendProperties
    <3>6. QED
      BY <3>3, <3>5
  <2>9. QED
    BY <2>7, <2>8
<1>3. Nat \subseteq T
  <2> HIDE DEF T
  <2> QED
    BY <1>1, <1>2, SetInduction
<1>4. NamesTo(t, SubSeq(p, 1, Len(p))) \in Seq(STRING)
  BY <1>0, <1>3
<1>5. QED
  BY <1>0, <1>4, SubSeqFull

\* What is appended at the end is appended to all.
Extends(S, a, b, x) == Append(a \o b, x) = a \o Append(b, x) /\ a \o b \in Seq(S)

LEMMA ConcatAppend ==
  ASSUME NEW S, NEW a \in Seq(S), NEW b \in Seq(S), NEW x \in S
  PROVE  Extends(S, a, b, x)
<1>1. <<x>> \in Seq(S) /\ a \o b \in Seq(S)
  BY ConcatProperties
<1>2. Append(a \o b, x) = (a \o b) \o <<x>> /\ Append(b, x) = b \o <<x>>
  BY <1>1, AppendIsConcat
<1>3. (a \o b) \o <<x>> = a \o (b \o <<x>>)
  BY <1>1, ConcatAssociative
<1>4. QED
  BY <1>1, <1>2, <1>3 DEF Extends

\* The name of a step, which comes before the names of those after it.
NameOf(t, x) == IF x = Element THEN <<>> ELSE <<t.kids[x].name>>

LEMMA NamesFront ==
  ASSUME NEW t, Tame(t), NEW x \in Nat, x \in IndexesOf(t),
         NEW r, IsPlace(ChildAt(t, x), r)
  PROVE  /\ NamesTo(t, <<x>> \o r) = NameOf(t, x) \o NamesTo(ChildAt(t, x), r)
         /\ NameOf(t, x) \in Seq(STRING) /\ NamesTo(ChildAt(t, x), r) \in Seq(STRING)
<1> DEFINE c == ChildAt(t, x)
           first == NameOf(t, x)
           T == {j \in Nat : j <= Len(r) =>
                   NamesTo(t, <<x>> \o SubSeq(r, 1, j)) = first \o NamesTo(c, SubSeq(r, 1, j))}
<1>0. r \in Seq(Nat) /\ Len(r) \in Nat /\ <<x>> \in Seq(Nat) /\ <<>> \in Seq(Nat)
  BY DEF IsPlace
<1>1. TypeAt(t, <<x>>) = c /\ IsPlace(t, <<x>>) /\ TypeAt(t, <<>>) = t /\ IsPlace(t, <<>>)
  <2>1. Append(<<>>, x) = <<x>>
    OBVIOUS
  <2>2. TypeAt(t, <<>>) = t /\ IsPlace(t, <<>>)
    BY TypeAtRoot, RootIsPlace
  <2>3. TypeAt(t, Append(<<>>, x)) = ChildAt(TypeAt(t, <<>>), x)
    BY <1>0, TypeAtAppend
  <2>4. IsPlace(t, Append(<<>>, x))
    BY <1>0, <2>2, PlaceAppend
  <2>5. QED
    BY <2>1, <2>2, <2>3, <2>4
<1>2. Tame(c)
  BY <1>1, TameBelow
<1>3. first \in Seq(STRING) /\ NamesTo(t, <<x>>) = first
  <2>1. Append(<<>>, x) = <<x>>
    OBVIOUS
  <2>2. NamesTo(t, Append(<<>>, x)) = IF x = Element THEN NamesTo(t, <<>>)
                            ELSE Append(NamesTo(t, <<>>), TypeAt(t, <<>>).kids[x].name)
    BY <1>0, NamesAppend
  <2>3. NamesTo(t, <<>>) = <<>>
    BY NamesRoot
  <2>4. x # Element => t.kids[x].name \in STRING
    <3>1. Made(t)
      BY <1>1 DEF Tame
    <3>2. QED
      BY <3>1 DEF Made, IndexesOf
  <2>5. CASE x = Element
    BY <2>1, <2>2, <2>3, <2>5 DEF NameOf
  <2>6. CASE x # Element
    <3> DEFINE name == t.kids[x].name
    <3>1. NamesTo(t, <<x>>) = Append(<<>>, name) /\ first = <<name>> /\ name \in STRING
      BY <1>1, <2>1, <2>2, <2>3, <2>4, <2>6 DEF NameOf
    <3> HIDE DEF name, first
    <3>2. Append(<<>>, name) = <<name>>
      OBVIOUS
    <3>6. name \in STRING
      BY ONLY <3>1
    <3>7. <<>> \in Seq(STRING)
      OBVIOUS
    <3>3. <<>> \in Seq(STRING) /\ name \in STRING
      BY ONLY <3>6, <3>7
    <3>4. Append(<<>>, name) \in Seq(STRING)
      BY ONLY <3>3, AppendProperties
    <3>5. QED
      BY <3>1, <3>2, <3>4
  <2>7. QED
    BY <2>5, <2>6
<1>4. \A j \in 0..Len(r) : NamesTo(c, SubSeq(r, 1, j)) \in Seq(STRING)
  BY <1>2, PlaceParts, NamesAre
<1> HIDE DEF c, first
<1>5. 0 \in T
  <2>1. SubSeq(r, 1, 0) = <<>> /\ NamesTo(c, <<>>) = <<>>
    BY SubSeqEmpty, NamesRoot
  <2>2. <<x>> \o <<>> = <<x>> /\ first \o <<>> = first
    BY <1>0, <1>3, ConcatEmptySeq
  <2>3. QED
    BY <1>3, <2>1, <2>2
<1>6. ASSUME NEW j \in Nat, j \in T PROVE j + 1 \in T
  <2> DEFINE q == SubSeq(r, 1, j)
             y == r[j + 1]
             s == SubSeq(r, 1, j + 1)
  <2> SUFFICES ASSUME j + 1 <= Len(r)
               PROVE  NamesTo(t, <<x>> \o s) = first \o NamesTo(c, s)
    OBVIOUS
  <2>1. j + 1 \in 1..Len(r) /\ j \in 0..Len(r) /\ (j + 1) - 1 = j /\ j + 1 \in 0..Len(r)
    BY <1>0
  <2>2. s = Append(q, y)
    <3>1. s = Append(SubSeq(r, 1, (j + 1) - 1), r[j + 1])
      BY <1>0, <2>1, FirstAndRest
    <3>2. QED
      BY <2>1, <3>1
  <2>3. q \in Seq(Nat) /\ y \in Nat /\ IsPlace(c, s)
    <3>1. q \in Seq(Nat)
      BY <1>0, <2>1, Halves
    <3>2. y \in Nat
      BY <1>0, <2>1
    <3>3. IsPlace(c, s)
      BY <2>1, PlaceParts DEF c
    <3>4. QED
      BY <3>1, <3>2, <3>3
  <2>4. NamesTo(t, <<x>> \o q) = first \o NamesTo(c, q)
    BY <1>6, <2>1
  <2>5. NamesTo(c, q) \in Seq(STRING)
    BY <1>4, <2>1
  <2> HIDE DEF q, y, s
  <2>6. IsPlace(c, q) /\ y \in IndexesOf(TypeAt(c, q))
    BY <2>2, <2>3, PlaceAppend
  <2>7. /\ <<x>> \o s = Append(<<x>> \o q, y) /\ <<x>> \o q \in Seq(Nat)
    <3> DEFINE w == <<x>>
    <3>1. w \in Seq(Nat) /\ q \in Seq(Nat) /\ y \in Nat
      BY <1>0, <2>3
    <3> HIDE DEF w
    <3>2. Append(w \o q, y) = w \o Append(q, y) /\ w \o q \in Seq(Nat)
      <4>1. Extends(Nat, w, q, y)
        BY ONLY <3>1, ConcatAppend
      <4>2. QED
        BY ONLY <4>1 DEF Extends
    <3>3. QED
      BY <2>2, <3>2 DEF w
  <2>8. TypeAt(t, <<x>> \o q) = TypeAt(c, q)
    BY <1>0, <1>1, <2>3, TypeAtConcat
  <2>9. /\ NamesTo(t, Append(<<x>> \o q, y)) =
              IF y = Element THEN NamesTo(t, <<x>> \o q)
              ELSE Append(NamesTo(t, <<x>> \o q), TypeAt(t, <<x>> \o q).kids[y].name)
        /\ NamesTo(c, Append(q, y)) =
              IF y = Element THEN NamesTo(c, q)
              ELSE Append(NamesTo(c, q), TypeAt(c, q).kids[y].name)
    BY <2>3, <2>7, NamesAppend
  <2>10. CASE y = Element
    BY <2>2, <2>4, <2>7, <2>9, <2>10
  <2>11. CASE y # Element
    <3> DEFINE n == TypeAt(c, q).kids[y].name
               ns == NamesTo(c, q)
    <3>1. n \in STRING
      <4>1. Made(TypeAt(c, q)) /\ y \in DOMAIN TypeAt(c, q).kids
        BY <1>2, <2>6, <2>11 DEF Tame, IndexesOf
      <4>2. QED
        BY <4>1 DEF Made
    <3>2. NamesTo(t, <<x>> \o s) = Append(first \o ns, n) /\ NamesTo(c, s) = Append(ns, n)
      BY <2>2, <2>4, <2>7, <2>8, <2>9, <2>11
    <3>3. ns \in Seq(STRING)
      BY <2>5
    <3> HIDE DEF n, ns
    <3>4. Append(first \o ns, n) = first \o Append(ns, n)
      <4>1. first \in Seq(STRING) /\ ns \in Seq(STRING) /\ n \in STRING
        BY <1>3, <3>1, <3>3
      <4>2. Extends(STRING, first, ns, n)
        BY ONLY <4>1, ConcatAppend
      <4>3. QED
        BY ONLY <4>2 DEF Extends
    <3>5. QED
      BY <3>2, <3>4
  <2>12. QED
    BY <2>10, <2>11
<1>7. Nat \subseteq T
  <2> HIDE DEF T
  <2> QED
    BY <1>5, <1>6, SetInduction
<1>8. SubSeq(r, 1, Len(r)) = r /\ Len(r) \in 0..Len(r)
  BY <1>0, SubSeqFull
<1>9. NamesTo(t, <<x>> \o SubSeq(r, 1, Len(r))) = first \o NamesTo(c, SubSeq(r, 1, Len(r)))
  BY SMTT(30), <1>0, <1>7
<1>10. NamesTo(c, SubSeq(r, 1, Len(r))) \in Seq(STRING)
  BY <1>4, <1>8
<1>11. NamesTo(t, <<x>> \o r) = first \o NamesTo(c, r) /\ NamesTo(c, r) \in Seq(STRING)
  BY <1>8, <1>9, <1>10
<1>12. QED
  BY <1>3, <1>11 DEF c, first

\* A way that ends at a named member has a name at least.
LEMMA NamesLast ==
  ASSUME NEW t, Tame(t), NEW p, IsPlace(t, p), p # <<>>, Last(p) # Element
  PROVE  NamesTo(t, p) # <<>>
<1>1. p \in Seq(Nat) /\ Len(p) \in Nat /\ Len(p) \in 1..Len(p)
  BY DEF IsPlace
<1> DEFINE n == Len(p)
           q == SubSeq(p, 1, n - 1)
           x == p[n]
<1>2. p = Append(q, x)
  <2>1. SubSeq(p, 1, n) = Append(SubSeq(p, 1, n - 1), p[n])
    BY <1>1, FirstAndRest
  <2>2. QED
    BY <1>1, <2>1, SubSeqFull
<1>3. q \in Seq(Nat) /\ x \in Nat /\ IsPlace(t, q)
  <2>1. n - 1 \in 0..Len(p)
    BY <1>1
  <2>2. QED
    BY <1>1, <2>1, PlaceParts, Halves
<1>4. x # Element
  BY DEF Last
<1> HIDE DEF q, x
<1>5. NamesTo(t, p) = Append(NamesTo(t, q), TypeAt(t, q).kids[x].name)
  BY <1>2, <1>3, <1>4, NamesAppend
<1>6. NamesTo(t, q) \in Seq(STRING)
  BY <1>3, NamesAre
<1>7. x \in IndexesOf(TypeAt(t, q))
  BY <1>2, <1>3, PlaceAppend
<1>8. TypeAt(t, q).kids[x].name \in STRING
  BY <1>3, <1>4, <1>7 DEF Tame, Made, IndexesOf
<1> DEFINE ns == NamesTo(t, q)
           name == TypeAt(t, q).kids[x].name
<1>9. NamesTo(t, p) = Append(ns, name) /\ ns \in Seq(STRING) /\ name \in STRING
  BY <1>5, <1>6, <1>8
<1> HIDE DEF ns, name
<1>10. ns \in Seq(STRING) /\ name \in STRING
  BY ONLY <1>9
<1>11. Append(ns, name) # <<>>
  BY ONLY <1>10, AppendProperties
<1>12. QED
  BY <1>9, <1>11

(***************************************************************************)
(* Where the tokens of a path lead.                                        *)
(***************************************************************************)

Setout(tokens, src) == [place |-> <<>>, tokens |-> tokens, src |-> src]

\* All that one round leads to.
Round(t, W) == UNION {Goes(t, w) : w \in W}

Rounds(f, t, tokens, src) ==
  f[0] = {Setout(tokens, src)} /\ \A d \in 1..MaxDepth : f[d] = Round(t, f[d - 1])

LEMMA RoundsExist ==
  ASSUME NEW t, NEW tokens, NEW src
  PROVE  \E f : /\ Rounds(f, t, tokens, src)
                /\ Walk(t, tokens, src) = {w.place : w \in {v \in f[MaxDepth] : v.tokens = <<>>}}
<1> DEFINE Def(f, d) == IF d = 0 THEN {Setout(tokens, src)} ELSE Round(t, f[d - 1])
           T == {j \in Nat : \E f : f = [d \in 0..j |-> Def(f, d)]}
           Is(f) == f = [d \in 0..MaxDepth |->
                      IF d = 0 THEN {[place |-> <<>>, tokens |-> tokens, src |-> src]}
                      ELSE UNION {Goes(t, w) : w \in f[d - 1]}]
<1>1. 0 \in T
  <2> DEFINE f == [d \in 0..0 |-> {Setout(tokens, src)}]
  <2>1. f = [d \in 0..0 |-> Def(f, d)]
    OBVIOUS
  <2>2. QED
    BY <2>1
<1>2. ASSUME NEW j \in Nat, j \in T PROVE j + 1 \in T
  <2>1. PICK f : f = [d \in 0..j |-> Def(f, d)]
    BY <1>2
  <2> DEFINE g == [d \in 0..(j + 1) |-> IF d = j + 1 THEN Round(t, f[j]) ELSE f[d]]
  <2>2. \A d \in 0..(j + 1) : g[d] = Def(g, d)
    <3> SUFFICES ASSUME NEW d \in 0..(j + 1) PROVE g[d] = Def(g, d)
      OBVIOUS
    <3>1. CASE d = j + 1
      <4>1. d - 1 = j /\ d # 0 /\ j \in 0..(j + 1) /\ j # j + 1
        BY <3>1
      <4>2. g[d - 1] = f[j] /\ g[d] = Round(t, f[j])
        BY <3>1, <4>1
      <4>3. QED
        BY <4>1, <4>2
    <3>2. CASE d # j + 1
      <4>1. d \in 0..j /\ (d # 0 => d - 1 \in 0..(j + 1) /\ d - 1 # j + 1)
        BY <3>2
      <4>2. g[d] = f[d] /\ f[d] = Def(f, d) /\ (d # 0 => g[d - 1] = f[d - 1])
        BY <2>1, <3>2, <4>1
      <4>3. QED
        BY <4>2
    <3>3. QED
      BY <3>1, <3>2
  <2>3. g = [d \in 0..(j + 1) |-> Def(g, d)]
    BY <2>2
  <2> HIDE DEF g
  <2>4. QED
    BY <2>3
<1>3. Nat \subseteq T
  <2> HIDE DEF T
  <2> QED
    BY <1>1, <1>2, SetInduction
<1>4. MaxDepth \in Nat
  BY ValidationAssumption
<1>5. \E f : Is(f)
  BY <1>3, <1>4 DEF Round, Setout
<1> DEFINE f == CHOOSE f : Is(f)
<1>6. Walk(t, tokens, src) = {w.place : w \in {v \in f[MaxDepth] : v.tokens = <<>>}}
  BY DEF Walk
<1>7. Is(f)
  <2> HIDE DEF Is
  <2> QED
    BY <1>5
<1>8. \A d \in 0..MaxDepth : f[d] = Def(f, d)
  <2>1. f = [d \in 0..MaxDepth |-> Def(f, d)]
    BY <1>7 DEF Round, Setout
  <2> HIDE DEF Def, f
  <2>2. QED
    BY <2>1
<1> HIDE DEF f
<1>9. Rounds(f, t, tokens, src)
  <2>1. 0 \in 0..MaxDepth /\ \A d \in 1..MaxDepth : d \in 0..MaxDepth /\ d # 0
    BY <1>4
  <2>2. QED
    BY <1>8, <2>1 DEF Rounds
<1>10. QED
  BY <1>6, <1>9

Walker == [place : Seq(Nat), tokens : Seq(STRING), src : Nat]

\* A walker is at a place; what it has left to find completes the names on its
\* way to the tokens; when nothing is left it stands at a named member.
OnTheWay(t, tokens, w) ==
  /\ w \in Walker
  /\ IsPlace(t, w.place)
  /\ NamesTo(t, w.place) \o w.tokens = tokens
  /\ w.tokens = <<>> => w.place # <<>> /\ Last(w.place) # Element

LEMMA GoesOn ==
  ASSUME NEW t, Tame(t), NEW tokens \in Seq(STRING), NEW w, OnTheWay(t, tokens, w),
         NEW v \in Goes(t, w)
  PROVE  OnTheWay(t, tokens, v)
<1> DEFINE here == TypeAt(t, w.place)
           names == NamesTo(t, w.place)
           p == w.place
<1>1. /\ p \in Seq(Nat) /\ w.tokens \in Seq(STRING) /\ w.src \in Nat
      /\ w = [place |-> p, tokens |-> w.tokens, src |-> w.src]
  BY DEF OnTheWay, Walker
<1>2. IsPlace(t, p) /\ names \in Seq(STRING) /\ Made(here)
  BY NamesAre DEF OnTheWay, Tame
<1>3. CASE w.tokens = <<>>
  <2>1. v = w
    BY <1>3 DEF Goes
  <2>2. QED
    BY <2>1
<1>4. CASE w.tokens # <<>> /\ here.kind \in {"array", "sequence"}
  <2>1. v = [w EXCEPT !.place = Append(@, Element)]
    BY <1>4 DEF Goes
  <2>2. v = [place |-> Append(p, Element), tokens |-> w.tokens, src |-> w.src]
    BY <1>1, <2>1
  <2>3. Element \in Nat /\ Element \in IndexesOf(here)
    BY <1>4 DEF Element, IndexesOf
  <2>4. IsPlace(t, Append(p, Element)) /\ NamesTo(t, Append(p, Element)) = names
        /\ Append(p, Element) \in Seq(Nat)
    BY <1>1, <1>2, <2>3, PlaceAppend, NamesAppend, AppendProperties
  <2>5. QED
    BY <1>1, <1>4, <2>2, <2>4 DEF OnTheWay, Walker
<1>5. CASE w.tokens # <<>> /\ here.kind \notin {"array", "sequence"}
  <2>1. PICK i \in DOMAIN here.kids :
          /\ here.kids[i].name = Head(w.tokens)
          /\ v = [place |-> Append(p, i), tokens |-> Tail(w.tokens), src |-> Far]
    BY <1>5 DEF Goes
  <2>2. i \in Nat /\ i # Element /\ i \in IndexesOf(here)
    BY <1>2, <1>5 DEF Made, Element, IndexesOf
  <2>3. IsPlace(t, Append(p, i)) /\ Append(p, i) \in Seq(Nat)
    <3>1. Append(p, i) \in Seq(Nat)
      BY <1>1, <2>2, AppendProperties
    <3>2. IsPlace(t, Append(p, i))
      BY <1>1, <1>2, <2>2, PlaceAppend
    <3>3. QED
      BY <3>1, <3>2
  <2>4. NamesTo(t, Append(p, i)) = Append(names, Head(w.tokens))
    <3>1. p \in Seq(Nat) /\ i \in Nat /\ i # Element
      BY <1>1, <2>2
    <3>2. NamesTo(t, Append(p, i)) = IF i = Element THEN NamesTo(t, p)
                                     ELSE Append(NamesTo(t, p), TypeAt(t, p).kids[i].name)
      BY ONLY <3>1, NamesAppend
    <3>3. QED
      BY <2>1, <3>1, <3>2
  <2> DEFINE ts == w.tokens
  <2>5. ts \in Seq(STRING) /\ ts # <<>> /\ names \in Seq(STRING) /\ names \o ts = tokens
    BY <1>1, <1>2, <1>5 DEF OnTheWay
  <2>6. Append(names, Head(ts)) \o Tail(ts) = tokens /\ Tail(ts) \in Seq(STRING)
    <3> HIDE DEF ts, names
    <3>1. Head(ts) \in STRING /\ Tail(ts) \in Seq(STRING)
      BY ONLY <2>5, HeadTailProperties
    <3>2. ts = <<Head(ts)>> \o Tail(ts)
      <4>1. 1 \in 1..Len(ts) /\ Len(ts) \in 1..Len(ts)
        BY <2>5, EmptySeq
      <4>2. SubSeq(ts, 1, Len(ts)) = <<ts[1]>> \o SubSeq(ts, 1 + 1, Len(ts))
        BY <2>5, <4>1, FirstAndRest
      <4>3. SubSeq(ts, 1, Len(ts)) = ts /\ Tail(ts) = SubSeq(ts, 2, Len(ts)) /\ Head(ts) = ts[1]
        BY <2>5, SubSeqFull, TailIsSubSeq
      <4>4. QED
        BY <4>2, <4>3
    <3> DEFINE h == <<Head(ts)>>
    <3>3. h \in Seq(STRING) /\ Append(names, Head(ts)) = names \o h
      BY <2>5, <3>1, AppendIsConcat
    <3>4. ts = h \o Tail(ts)
      BY <3>2
    <3> HIDE DEF h
    <3>5. (names \o h) \o Tail(ts) = names \o (h \o Tail(ts))
      <4> DEFINE rest == Tail(ts)
      <4>1. names \in Seq(STRING) /\ h \in Seq(STRING) /\ rest \in Seq(STRING)
        BY <2>5, <3>1, <3>3
      <4> HIDE DEF rest
      <4>2. (names \o h) \o rest = names \o (h \o rest)
        BY ONLY SMTT(30), <4>1, ConcatAssociative
      <4>3. QED
        BY <4>2 DEF rest
    <3>6. QED
      BY <2>5, <3>1, <3>3, <3>4, <3>5
  <2>7. Append(p, i) # <<>> /\ Last(Append(p, i)) = i
    BY <1>1, <2>2, AppendProperties DEF Last
  <2>8. v.place = Append(p, i) /\ v.tokens = Tail(ts) /\ v \in Walker
    BY <2>1, <2>3, <2>6 DEF Walker, Far
  <2> HIDE DEF ts, names, p
  <2>9. QED
    BY <2>2, <2>3, <2>4, <2>6, <2>7, <2>8 DEF OnTheWay, ts
<1>6. QED
  BY <1>3, <1>4, <1>5

\* The tokens are the names on the way to where they lead.
LEMMA WalkEndsRight ==
  ASSUME NEW t, Tame(t), NEW tokens \in Seq(STRING), tokens # <<>>, NEW src \in Nat,
         NEW p \in Walk(t, tokens, src)
  PROVE  IsPlace(t, p) /\ NamesTo(t, p) = tokens /\ p # <<>> /\ Last(p) # Element
<1>1. PICK f : /\ Rounds(f, t, tokens, src)
               /\ Walk(t, tokens, src) = {w.place : w \in {v \in f[MaxDepth] : v.tokens = <<>>}}
  BY RoundsExist
<1> DEFINE T == {j \in Nat : j <= MaxDepth => \A w \in f[j] : OnTheWay(t, tokens, w)}
<1>2. 0 \in T
  <2>1. <<>> \o tokens = tokens
    BY ConcatEmptySeq
  <2>2. OnTheWay(t, tokens, Setout(tokens, src))
    BY <2>1, RootIsPlace, NamesRoot DEF OnTheWay, Setout, Walker
  <2>3. QED
    BY <1>1, <2>2 DEF Rounds
<1>3. ASSUME NEW j \in Nat, j \in T PROVE j + 1 \in T
  <2> SUFFICES ASSUME j + 1 <= MaxDepth, NEW v \in f[j + 1] PROVE OnTheWay(t, tokens, v)
    OBVIOUS
  <2>1. MaxDepth \in Nat
    BY ValidationAssumption
  <2>2. j + 1 \in 1..MaxDepth /\ (j + 1) - 1 = j
    BY <2>1
  <2>3. f[j + 1] = Round(t, f[(j + 1) - 1])
    BY <1>1, <2>2 DEF Rounds
  <2>4. v \in Round(t, f[j])
    BY <2>2, <2>3
  <2>5. PICK w \in f[j] : v \in Goes(t, w)
    BY <2>4 DEF Round
  <2>6. OnTheWay(t, tokens, w)
    BY <1>3, <2>1, <2>2
  <2>7. QED
    BY <2>5, <2>6, GoesOn
<1>4. Nat \subseteq T
  <2> HIDE DEF T
  <2> QED
    BY <1>2, <1>3, SetInduction
<1>5. PICK w \in f[MaxDepth] : w.tokens = <<>> /\ p = w.place
  BY <1>1
<1>6. OnTheWay(t, tokens, w)
  BY <1>4, <1>5, ValidationAssumption
<1>7. NamesTo(t, p) \in Seq(STRING) /\ NamesTo(t, p) \o <<>> = tokens
  BY <1>5, <1>6, NamesAre DEF OnTheWay
<1>8. NamesTo(t, p) \o <<>> = NamesTo(t, p)
  BY <1>7, ConcatEmptySeq
<1>9. QED
  BY <1>5, <1>6, <1>7, <1>8 DEF OnTheWay

\* The walker on its way to p: it has the rest of the names before it.
Along(t, p, src, d, w) ==
  /\ w \in Walker
  /\ w.place = SubSeq(p, 1, d)
  /\ w.tokens = NamesTo(TypeAt(t, SubSeq(p, 1, d)), SubSeq(p, d + 1, Len(p)))
  /\ w.src = Far \/ (d = 0 /\ w.src = src)

\* The first member must not come after src.
May(p, src) == src = Far \/ (p[1] # Element /\ p[1] <= src)

LEMMA HeadTailOfConcat ==
  ASSUME NEW S, NEW x \in S, NEW r \in Seq(S)
  PROVE  Head(<<x>> \o r) = x /\ Tail(<<x>> \o r) = r
<1> DEFINE u == <<x>> \o r
<1>1. /\ u \in Seq(S) /\ Len(u) = Len(r) + 1 /\ u[1] = x /\ Len(r) \in Nat
      /\ \A i \in 1..Len(r) : u[i + 1] = r[i]
  OBVIOUS
<1> HIDE DEF u
<1>2. u # <<>>
  BY <1>1
<1>3. Tail(u) \in Seq(S) /\ Len(Tail(u)) = Len(r) /\ \A i \in 1..Len(Tail(u)) : Tail(u)[i] = u[i + 1]
  BY <1>1, <1>2, HeadTailProperties
<1>4. Tail(u) = r
  <2> DEFINE v == Tail(u)
  <2>1. v \in Seq(S) /\ Len(v) = Len(r) /\ \A i \in 1..Len(v) : v[i] = r[i]
    BY <1>1, <1>3
  <2> HIDE DEF v
  <2>2. v = r
    BY <2>1, SeqEqual
  <2>3. QED
    BY <2>2 DEF v
<1>5. Head(u) = x
  BY <1>1, <1>2
<1>6. QED
  BY <1>4, <1>5 DEF u

LEMMA AlongGoesOn ==
  ASSUME NEW t, Tame(t), NEW p, IsPlace(t, p), p # <<>>, Last(p) # Element,
         NEW src \in Nat, May(p, src), NEW d \in 0..(Len(p) - 1), NEW w, Along(t, p, src, d, w)
  PROVE  \E v \in Goes(t, w) : Along(t, p, src, d + 1, v)
<1> DEFINE n == Len(p)
           q == SubSeq(p, 1, d)
           here == TypeAt(t, q)
           x == p[d + 1]
           rest == SubSeq(p, (d + 1) + 1, n)
           after == NamesTo(ChildAt(here, x), rest)
<1>1. /\ p \in Seq(Nat) /\ n \in Nat /\ d \in Nat /\ d \in 0..n /\ d + 1 \in 1..n /\ d + 1 \in 0..n
      /\ (d + 1) - 1 = d
  BY DEF IsPlace
<1>2. q \in Seq(Nat) /\ x \in Nat /\ rest \in Seq(Nat)
  BY <1>1, Halves
<1>3. SubSeq(p, 1, d + 1) = Append(q, x) /\ SubSeq(p, d + 1, n) = <<x>> \o rest
  <2>1. SubSeq(p, 1, d + 1) = Append(SubSeq(p, 1, (d + 1) - 1), p[d + 1])
    BY <1>1, FirstAndRest
  <2>2. SubSeq(p, d + 1, n) = <<p[d + 1]>> \o SubSeq(p, (d + 1) + 1, n)
    BY <1>1, FirstAndRest
  <2>3. QED
    BY <1>1, <2>1, <2>2
<1>4. IsPlace(t, q) /\ IsPlace(here, SubSeq(p, d + 1, n)) /\ IsPlace(t, SubSeq(p, 1, d + 1))
      /\ IsPlace(TypeAt(t, SubSeq(p, 1, d + 1)), rest)
  BY <1>1, PlaceParts
<1>5. TypeAt(t, SubSeq(p, 1, d + 1)) = ChildAt(here, x)
  BY ZenonT(30), <1>2, <1>3, TypeAtAppend
<1>6. x \in IndexesOf(here)
  BY <1>2, <1>3, <1>4, PlaceAppend
<1>7. Tame(here) /\ Made(here)
  BY <1>4, TameBelow DEF Tame
<1>8. /\ NamesTo(here, <<x>> \o rest) = NameOf(here, x) \o after
      /\ NameOf(here, x) \in Seq(STRING) /\ after \in Seq(STRING)
  <2>1. IsPlace(ChildAt(here, x), rest)
    BY <1>4, <1>5
  <2> HIDE DEF here, x, rest
  <2>2. QED
    BY <1>2, <1>6, <1>7, <2>1, NamesFront
<1>9. w.tokens = NameOf(here, x) \o after
  BY <1>3, <1>8 DEF Along
<1>10. w.tokens # <<>>
  <2> DEFINE r == SubSeq(p, d + 1, n)
  <2>1. r # <<>> /\ Last(r) = Last(p)
    <3>1. Len(r) = n - d /\ r[n - d] = p[d + (n - d)] /\ n - d # 0 /\ d + (n - d) = n
      BY <1>1, Halves
    <3>2. QED
      BY <3>1 DEF Last
  <2>2. IsPlace(here, r)
    BY <1>4
  <2> HIDE DEF r, here
  <2>3. NamesTo(here, r) # <<>>
    BY <1>7, <2>1, <2>2, NamesLast
  <2>4. QED
    BY <2>3 DEF Along, r, here
<1>11. /\ w.place = q /\ w.tokens \in Seq(STRING) /\ w.src \in Nat
       /\ w = [place |-> q, tokens |-> w.tokens, src |-> w.src]
  BY DEF Along, Walker
<1>12. Append(q, x) \in Seq(Nat)
  BY <1>2, AppendProperties
<1>13. CASE here.kind \in {"array", "sequence"}
  <2> DEFINE v == [w EXCEPT !.place = Append(@, Element)]
  <2>1. v \in Goes(t, w)
    BY <1>10, <1>11, <1>13 DEF Goes
  <2>2. x = Element
    BY <1>6, <1>13 DEF IndexesOf
  <2>3. v = [place |-> Append(q, x), tokens |-> w.tokens, src |-> w.src]
    <3> DEFINE b == w.tokens
               c == w.src
    <3>1. w = [place |-> q, tokens |-> b, src |-> c] /\ x = Element
      BY <1>11, <2>2
    <3> HIDE DEF q, x, b, c
    <3>2. [w EXCEPT !.place = Append(@, Element)] = [place |-> Append(q, x), tokens |-> b, src |-> c]
      BY SMTT(30), <3>1
    <3>3. QED
      BY <3>2 DEF b, c
  <2>4. w.tokens = after
    <3>1. NameOf(here, x) = <<>>
      BY <2>2 DEF NameOf
    <3>2. <<>> \o after = after
      BY <1>8, ConcatEmptySeq
    <3>3. QED
      BY <1>9, <3>1, <3>2
  <2>5. w.src = Far
    <3>1. d = 0 => p[1] = Element
      BY <2>2
    <3>2. d = 0 => src = Far
      BY <3>1 DEF May
    <3>3. QED
      BY <3>2 DEF Along
  <2>6. Along(t, p, src, d + 1, v)
    <3>1. v \in Walker
      BY <1>11, <1>12, <2>3 DEF Walker
    <3>2. v.place = SubSeq(p, 1, d + 1) /\ v.src = Far
      BY <1>3, <2>3, <2>5
    <3>3. v.tokens = NamesTo(TypeAt(t, SubSeq(p, 1, d + 1)), SubSeq(p, (d + 1) + 1, Len(p)))
      BY <1>5, <2>3, <2>4
    <3>4. QED
      BY <3>1, <3>2, <3>3 DEF Along
  <2>7. QED
    BY <2>1, <2>6
<1>14. CASE here.kind \notin {"array", "sequence"}
  <2> DEFINE name == here.kids[x].name
             v == [place |-> Append(q, x), tokens |-> Tail(w.tokens), src |-> Far]
  <2>1. x \in DOMAIN here.kids /\ x # Element /\ x < Far /\ name \in STRING
    <3> HIDE DEF here, x
    <3>1. x \in DOMAIN here.kids
      BY <1>6, <1>14 DEF IndexesOf
    <3>2. x \in 1..Len(here.kids) /\ Len(here.kids) \in 0..(Far - 1)
      BY <1>7, <3>1 DEF Made
    <3>3. here.kids[x].name \in STRING
      BY <1>7, <3>1 DEF Made
    <3>4. x # Element /\ x < Far
      <4> DEFINE L == Len(here.kids)
      <4>1. x \in 1..L /\ L \in 0..(Far - 1)
        BY <3>2
      <4> HIDE DEF L
      <4>2. QED
        BY ONLY <4>1 DEF Element, Far
    <3>5. QED
      BY <3>1, <3>3, <3>4
  <2>2. Head(w.tokens) = name /\ Tail(w.tokens) = after
    <3>1. NameOf(here, x) = <<name>>
      BY <2>1 DEF NameOf
    <3>2. w.tokens = <<name>> \o after /\ name \in STRING /\ after \in Seq(STRING)
      BY <1>8, <1>9, <2>1, <3>1
    <3> HIDE DEF name, after
    <3>3. Head(<<name>> \o after) = name /\ Tail(<<name>> \o after) = after
      BY ONLY <3>2, HeadTailOfConcat
    <3>4. QED
      BY <3>2, <3>3
  <2>3. x <= w.src
    <3>1. CASE w.src = Far
      BY <1>2, <2>1, <3>1 DEF Far
    <3>2. CASE w.src # Far
      <4>1. d = 0 /\ w.src = src /\ src # Far
        BY <3>2 DEF Along
      <4>2. x = p[1] /\ p[1] <= src
        BY <4>1 DEF May
      <4>3. QED
        BY <4>1, <4>2
    <3>3. QED
      BY <3>1, <3>2
  <2>4. v \in Goes(t, w)
    BY <1>10, <1>11, <1>14, <2>1, <2>2, <2>3 DEF Goes
  <2>5. Along(t, p, src, d + 1, v)
    <3>1. v \in Walker
      BY <1>8, <1>12, <2>2 DEF Walker, Far
    <3>2. v.place = SubSeq(p, 1, d + 1) /\ v.src = Far
      BY <1>3
    <3>3. v.tokens = NamesTo(TypeAt(t, SubSeq(p, 1, d + 1)), SubSeq(p, (d + 1) + 1, Len(p)))
      BY <1>5, <2>2
    <3> HIDE DEF v
    <3>4. QED
      BY <3>1, <3>2, <3>3 DEF Along
  <2>6. QED
    BY <2>4, <2>5
<1>15. QED
  BY <1>13, <1>14

\* Every named place that its names and src allow is found.
LEMMA WalkFinds ==
  ASSUME NEW t, Tame(t), NEW p, IsPlace(t, p), p # <<>>, Last(p) # Element,
         NEW src \in Nat, May(p, src)
  PROVE  p \in Walk(t, NamesTo(t, p), src)
<1> DEFINE n == Len(p)
           tokens == NamesTo(t, p)
<1>0. p \in Seq(Nat) /\ n \in Nat /\ n <= MaxDepth /\ MaxDepth \in Nat
  BY ValidationAssumption DEF IsPlace, Tame
<1>1. PICK f : /\ Rounds(f, t, tokens, src)
               /\ Walk(t, tokens, src) = {w.place : w \in {v \in f[MaxDepth] : v.tokens = <<>>}}
  BY RoundsExist
<1> DEFINE T == {j \in Nat : j <= n => \E w \in f[j] : Along(t, p, src, j, w)}
<1>2. 0 \in T
  <2>1. SubSeq(p, 1, 0) = <<>> /\ SubSeq(p, 0 + 1, n) = p /\ TypeAt(t, <<>>) = t
    BY <1>0, SubSeqEmpty, SubSeqFull, TypeAtRoot
  <2>2. tokens \in Seq(STRING)
    BY NamesAre
  <2>3. Along(t, p, src, 0, Setout(tokens, src))
    <3> DEFINE w == Setout(tokens, src)
    <3>1. w \in Walker /\ w.place = <<>> /\ w.tokens = NamesTo(t, p) /\ w.src = src
      BY <2>2 DEF Setout, Walker
    <3> HIDE DEF w
    <3>2. Along(t, p, src, 0, w)
      BY <2>1, <3>1 DEF Along
    <3>3. QED
      BY <3>2 DEF w
  <2>4. QED
    BY <1>1, <2>3 DEF Rounds
<1>3. ASSUME NEW j \in Nat, j \in T PROVE j + 1 \in T
  <2> SUFFICES ASSUME j + 1 <= n PROVE \E v \in f[j + 1] : Along(t, p, src, j + 1, v)
    OBVIOUS
  <2>1. j + 1 \in 1..MaxDepth /\ (j + 1) - 1 = j /\ j \in 0..(Len(p) - 1)
    BY <1>0
  <2>2. PICK w \in f[j] : Along(t, p, src, j, w)
    BY <1>0, <1>3
  <2>3. PICK v \in Goes(t, w) : Along(t, p, src, j + 1, v)
    BY <2>1, <2>2, AlongGoesOn
  <2>4. f[j + 1] = Round(t, f[(j + 1) - 1])
    BY <1>1, <2>1 DEF Rounds
  <2>5. v \in f[j + 1]
    BY <2>1, <2>2, <2>3, <2>4 DEF Round
  <2>6. QED
    BY <2>3, <2>5
<1>4. Nat \subseteq T
  <2> HIDE DEF T
  <2> QED
    BY <1>2, <1>3, SetInduction
<1>5. PICK w \in f[n] : Along(t, p, src, n, w)
  BY <1>0, <1>4
<1>6. w.place = p /\ w.tokens = <<>>
  <2>1. SubSeq(p, 1, n) = p /\ SubSeq(p, n + 1, n) = <<>>
    BY <1>0, SubSeqFull, SubSeqEmpty
  <2>2. QED
    BY <1>5, <2>1, NamesRoot DEF Along
<1> DEFINE U == {j \in Nat : n + j <= MaxDepth => w \in f[n + j]}
<1>7. 0 \in U
  BY <1>0, <1>5
<1>8. ASSUME NEW j \in Nat, j \in U PROVE j + 1 \in U
  <2> SUFFICES ASSUME n + (j + 1) <= MaxDepth PROVE w \in f[n + (j + 1)]
    OBVIOUS
  <2> DEFINE k == n + (j + 1)
  <2>1. k \in 1..MaxDepth /\ k - 1 = n + j /\ n + j <= MaxDepth
    BY <1>0
  <2>2. w \in f[n + j]
    BY <1>8, <2>1
  <2>3. f[k] = Round(t, f[k - 1])
    BY <1>1, <2>1 DEF Rounds
  <2>4. w \in Goes(t, w)
    BY <1>6 DEF Goes
  <2> HIDE DEF k
  <2>5. w \in f[k]
    BY <2>1, <2>2, <2>3, <2>4 DEF Round
  <2>6. QED
    BY <2>5 DEF k
<1>9. Nat \subseteq U
  <2> HIDE DEF U
  <2> QED
    BY <1>7, <1>8, SetInduction
<1>10. MaxDepth - n \in Nat /\ n + (MaxDepth - n) = MaxDepth
  BY <1>0
<1>11. w \in f[MaxDepth]
  <2> DEFINE j == MaxDepth - n
  <2>1. j \in U /\ n + j = MaxDepth
    BY <1>9, <1>10
  <2> HIDE DEF j
  <2>2. QED
    BY <1>0, <2>1
<1>12. QED
  BY <1>1, <1>6, <1>11

\* No tokens lead nowhere.
LEMMA WalkStays ==
  ASSUME NEW t, NEW src, NEW p \in Walk(t, <<>>, src)
  PROVE  p = <<>>
<1>1. PICK f : /\ Rounds(f, t, <<>>, src)
               /\ Walk(t, <<>>, src) = {w.place : w \in {v \in f[MaxDepth] : v.tokens = <<>>}}
  BY RoundsExist
<1> DEFINE start == Setout(<<>>, src)
           T == {j \in Nat : j <= MaxDepth => f[j] = {start}}
<1>2. 0 \in T
  BY <1>1 DEF Rounds
<1>3. start.place = <<>> /\ start.tokens = <<>>
  BY DEF Setout
<1>4. ASSUME NEW j \in Nat, j \in T PROVE j + 1 \in T
  <2> SUFFICES ASSUME j + 1 <= MaxDepth PROVE f[j + 1] = {start}
    OBVIOUS
  <2>1. MaxDepth \in Nat
    BY ValidationAssumption
  <2>2. j + 1 \in 1..MaxDepth /\ (j + 1) - 1 = j /\ j <= MaxDepth
    BY <2>1
  <2>3. f[j + 1] = Round(t, f[(j + 1) - 1])
    BY <1>1, <2>2 DEF Rounds
  <2>4. f[j + 1] = Round(t, {start})
    BY <1>4, <2>2, <2>3
  <2>5. Goes(t, start) = {start}
    BY <1>3 DEF Goes
  <2> HIDE DEF start
  <2>6. Round(t, {start}) = {start}
    BY <2>5 DEF Round
  <2>7. QED
    BY <2>4, <2>6
<1>5. Nat \subseteq T
  <2> HIDE DEF T
  <2> QED
    BY <1>2, <1>4, SetInduction
<1>6. f[MaxDepth] = {start}
  BY <1>5, ValidationAssumption
<1> HIDE DEF start
<1>7. QED
  BY <1>1, <1>3, <1>6

(***************************************************************************)
(* The target that is found is the nearest.                                *)
(***************************************************************************)

LEMMA LayoutsAreTame ==
  ASSUME given \in Layouts, NEW s \in Here
  PROVE  /\ given[s].kind = "struct" /\ WellMade(given[s]) /\ Tame(given[s])
         /\ \A p : p \in PlacesOf(given[s]) <=> IsPlace(given[s], p)
<1>1. given[s].kind = "struct" /\ WellMade(given[s])
  BY LayoutsAssumption DEF Here
<1>2. QED
  BY <1>1, PlacesAre

LEMMA SourceIsPlace ==
  ASSUME given \in Layouts, NEW s \in Here, NEW q \in Sources(s)
  PROVE  /\ IsPlace(given[s], q) /\ q \in Seq(Nat) /\ Len(q) \in Nat \ {0}
         /\ TypeAt(given[s], q).path.tokens \in Seq(STRING)
<1>1. q \in PlacesOf(given[s]) /\ TypeAt(given[s], q).kind \in {"sequence", "variant"}
  BY DEF Sources
<1>2. IsPlace(given[s], q) /\ given[s].kind = "struct" /\ WellMade(given[s])
  BY <1>1, LayoutsAreTame
<1>3. q \in Seq(Nat) /\ Len(q) \in Nat
  BY <1>2 DEF IsPlace
<1>4. q # <<>>
  BY <1>1, <1>2, TypeAtRoot
<1>5. Len(q) # 0
  BY <1>3, <1>4, EmptySeq
<1>6. TypeAt(given[s], q).path.tokens \in Seq(STRING)
  BY <1>1, <1>2 DEF WellMade
<1>7. QED
  BY <1>2, <1>3, <1>5, <1>6

\* Two places share their way as far as they do not part.
Shares(p, q, c) ==
  /\ c \in 0..Len(p) /\ c < Len(q) /\ SubSeq(p, 1, c) = SubSeq(q, 1, c)
  /\ \A i \in 0..Len(p) : i < Len(q) /\ SubSeq(p, 1, i) = SubSeq(q, 1, i) => i <= c

LEMMA CommonIs ==
  ASSUME NEW p \in Seq(Nat), NEW q \in Seq(Nat), Len(q) # 0
  PROVE  Shares(p, q, Common(p, q))
<1> DEFINE S == {i \in 0..Len(p) : i < Len(q) /\ SubSeq(p, 1, i) = SubSeq(q, 1, i)}
<1>1. Len(p) \in Nat /\ Len(q) \in Nat /\ S \in SUBSET (0..Len(p))
  OBVIOUS
<1>2. 0 \in S
  <2>1. SubSeq(p, 1, 0) = <<>> /\ SubSeq(q, 1, 0) = <<>>
    BY SubSeqEmpty
  <2>2. QED
    BY <1>1, <2>1
<1>3. Common(p, q) = Max(S)
  BY DEF Common
<1> HIDE DEF S
<1>4. Max(S) \in S /\ \A i \in S : i <= Max(S)
  BY <1>1, <1>2, BoundedMax
<1>5. QED
  BY <1>3, <1>4 DEF S, Shares

LEMMA PartingIs ==
  ASSUME NEW p \in Seq(Nat), NEW q \in Seq(Nat), NEW i \in Parting(p, q)
  PROVE  /\ i \in 1..Len(p) /\ i \in 1..Len(q) /\ p[i] # q[i] /\ Common(p, q) = i - 1
         /\ \A j \in 1..(i - 1) : p[j] = q[j]
         /\ \A j \in 0..(i - 1) : SubSeq(p, 1, j) = SubSeq(q, 1, j)
<1>1. /\ i \in 1..Len(p) /\ i \in 1..Len(q) /\ p[i] # q[i] /\ Len(p) \in Nat /\ Len(q) \in Nat
      /\ SubSeq(p, 1, i - 1) = SubSeq(q, 1, i - 1)
  BY DEF Parting
<1>2. \A j \in 1..(i - 1) : p[j] = q[j]
  <2>1. i - 1 \in 0..Len(p) /\ i - 1 \in 0..Len(q)
    BY <1>1
  <2>2. \A j \in 1..(i - 1) : SubSeq(p, 1, i - 1)[j] = p[j] /\ SubSeq(q, 1, i - 1)[j] = q[j]
    BY <2>1, Halves
  <2>3. QED
    BY <1>1, <2>2
<1>3. \A j \in 0..(i - 1) : SubSeq(p, 1, j) = SubSeq(q, 1, j)
  <2> SUFFICES ASSUME NEW j \in 0..(i - 1) PROVE SubSeq(p, 1, j) = SubSeq(q, 1, j)
    OBVIOUS
  <2> DEFINE a == SubSeq(p, 1, j)
             b == SubSeq(q, 1, j)
  <2>1. j \in 0..Len(p) /\ j \in 0..Len(q) /\ j \in Nat
    BY <1>1
  <2>2. /\ a \in Seq(Nat) /\ Len(a) = j /\ \A k \in 1..j : a[k] = p[k]
        /\ b \in Seq(Nat) /\ Len(b) = j /\ \A k \in 1..j : b[k] = q[k]
    BY <2>1, Halves
  <2> HIDE DEF a, b
  <2>3. \A k \in 1..j : k \in 1..(i - 1)
    BY <1>1
  <2>4. \A k \in 1..Len(a) : a[k] = b[k]
    BY <1>2, <2>2, <2>3
  <2>5. a = b
    BY <2>2, <2>4, SeqEqual
  <2>6. QED
    BY <2>5 DEF a, b
<1>4. Common(p, q) = i - 1
  <2> DEFINE c == Common(p, q)
  <2>1. Shares(p, q, c)
    <3>1. Len(q) # 0
      BY <1>1
    <3>2. QED
      BY ONLY <3>1, CommonIs, p \in Seq(Nat), q \in Seq(Nat)
  <2> HIDE DEF c
  <2>2. c \in 0..Len(p) /\ c < Len(q) /\ SubSeq(p, 1, c) = SubSeq(q, 1, c)
    BY <2>1 DEF Shares
  <2>3. i - 1 <= c
    <3>1. i - 1 \in 0..Len(p) /\ i - 1 < Len(q)
      BY <1>1
    <3>2. QED
      BY <1>1, <2>1, <3>1 DEF Shares
  <2>4. ~(c >= i)
    <3> SUFFICES ASSUME c >= i PROVE FALSE
      OBVIOUS
    <3>1. c \in 0..Len(p) /\ c \in 0..Len(q) /\ i \in 1..c
      BY <1>1, <2>2
    <3>2. SubSeq(p, 1, c)[i] = p[i] /\ SubSeq(q, 1, c)[i] = q[i]
      BY <3>1, Halves
    <3>3. QED
      BY <1>1, <2>2, <3>2
  <2>5. c = i - 1
    BY <1>1, <2>2, <2>3, <2>4
  <2>6. QED
    BY <2>5 DEF c
<1>5. QED
  BY <1>1, <1>2, <1>3, <1>4

\* A level from which the tokens lead to a place before q makes the search end
\* there or further inside.
LEMMA LevelIsFound ==
  ASSUME given \in Layouts, NEW s \in Here, NEW q \in Sources(s), NEW p,
         IsPlace(given[s], p), p # <<>>, Last(p) # Element,
         NEW i \in Parting(p, q), p[i] < q[i],
         NEW tokens, NEW l \in Levels(given[s], p, q, tokens)
  PROVE  \E k \in l..(Len(q) - 1) : FromParent(s, q, k, tokens) # {}
<1> DEFINE g == given[s]
           n == Len(p)
           Leads(k) == NamesTo(TypeAt(g, SubSeq(p, 1, k)), SubSeq(p, k + 1, n)) = tokens
           K == {k \in 0..(i - 1) : l <= k /\ Leads(k)}
<1>1. /\ p \in Seq(Nat) /\ n \in Nat /\ q \in Seq(Nat) /\ Len(q) \in Nat /\ IsPlace(g, q) /\ Tame(g)
  <2>1. p \in Seq(Nat)
    BY DEF IsPlace
  <2>2. q \in Seq(Nat) /\ Len(q) \in Nat /\ IsPlace(g, q)
    BY SourceIsPlace
  <2>3. Tame(g)
    BY LayoutsAreTame
  <2>4. QED
    BY <2>1, <2>2, <2>3
<1>2. /\ i \in 1..n /\ i \in 1..Len(q) /\ Common(p, q) = i - 1
      /\ \A j \in 1..(i - 1) : p[j] = q[j]
      /\ \A j \in 0..(i - 1) : SubSeq(p, 1, j) = SubSeq(q, 1, j)
  BY <1>1, PartingIs
<1>3. l \in 0..(i - 1) /\ Leads(l) /\ i - 1 \in Nat
  BY <1>2 DEF Levels
<1>4. l \in K /\ K \in SUBSET (0..(i - 1))
  BY <1>3
<1>5. PICK k \in K : \A x \in K : x <= k
  <2> HIDE DEF K
  <2>1. Max(K) \in K /\ \A x \in K : x <= Max(K)
    BY <1>3, <1>4, BoundedMax
  <2>2. QED
    BY <2>1
<1> DEFINE here == TypeAt(g, SubSeq(p, 1, k))
           x == p[k + 1]
           r == SubSeq(p, k + 1, n)
           rest == SubSeq(p, (k + 1) + 1, n)
<1>6. /\ k \in 0..(i - 1) /\ l <= k /\ k \in Nat /\ k \in 0..n /\ k + 1 \in 1..n /\ k + 1 \in 0..n
      /\ (k + 1) - 1 = k /\ k \in 0..Len(q) /\ k + 1 \in 1..Len(q) /\ k + 1 \in 0..Len(q)
      /\ k \in l..(Len(q) - 1)
  BY SMTT(30), <1>1, <1>2, <1>3, <1>5
<1>7. NamesTo(here, r) = tokens
  BY <1>5
<1>8. IsPlace(g, SubSeq(p, 1, k)) /\ IsPlace(here, r) /\ Tame(here)
  BY <1>1, <1>6, PlaceParts, TameBelow
<1>9. r \in Seq(Nat) /\ rest \in Seq(Nat) /\ r = <<x>> \o rest /\ x \in Nat /\ q[k + 1] \in Nat
  <2>1. r \in Seq(Nat) /\ rest \in Seq(Nat)
    BY <1>1, <1>6, Halves
  <2>2. r = <<x>> \o rest
    BY <1>1, <1>6, FirstAndRest
  <2>3. x \in Nat /\ q[k + 1] \in Nat
    <3>1. k + 1 \in 1..Len(p) /\ k + 1 \in 1..Len(q)
      BY <1>6
    <3>2. QED
      BY ONLY <1>1, <3>1
  <2>4. QED
    BY <2>1, <2>2, <2>3
<1>10. r # <<>> /\ r[1] = x /\ Last(r) = Last(p)
  <2>1. Len(r) = n - k /\ \A j \in 1..(n - k) : r[j] = p[k + j]
    <3>1. k \in 0..Len(p)
      BY <1>6
    <3>2. QED
      BY <1>1, <3>1, Halves
  <2>2. 1 \in 1..(n - k) /\ n - k \in 1..(n - k) /\ k + (n - k) = n
    BY <1>1, <1>6
  <2> HIDE DEF r
  <2>3. r[1] = p[k + 1] /\ r[n - k] = p[n] /\ Len(r) # 0
    <3>1. r[1] = p[k + 1] /\ r[n - k] = p[k + (n - k)]
      BY ONLY <2>1, <2>2
    <3>2. k \in Nat /\ n \in Nat /\ k < n
      BY <1>1, <1>6
    <3>3. n - k # 0
      BY ONLY <3>2
    <3>4. QED
      BY ONLY <2>1, <2>2, <3>1, <3>3
  <2>4. r # <<>>
    BY <2>3
  <2>5. QED
    BY <2>1, <2>3, <2>4 DEF Last
<1>11. x \in IndexesOf(here) /\ q[k + 1] \in IndexesOf(here) /\ Made(here)
  <2>1. x \in IndexesOf(TypeAt(g, SubSeq(p, 1, (k + 1) - 1)))
    BY <1>6 DEF IsPlace
  <2>2. q[k + 1] \in IndexesOf(TypeAt(g, SubSeq(q, 1, (k + 1) - 1)))
    BY <1>1, <1>6 DEF IsPlace
  <2>3. SubSeq(q, 1, k) = SubSeq(p, 1, k)
    BY <1>2, <1>6
  <2>4. QED
    BY <1>1, <1>6, <1>8, <2>1, <2>2, <2>3 DEF Tame
<1>12. x <= q[k + 1] /\ (k = i - 1 => x < q[k + 1])
  <2>1. CASE k = i - 1
    BY <1>2, <1>9, <2>1
  <2>2. CASE k # i - 1
    <3>1. k + 1 \in 1..(i - 1)
      BY <1>2, <1>6, <2>2
    <3>2. QED
      BY <1>2, <1>9, <2>2, <3>1
  <2>3. QED
    BY <2>1, <2>2
<1>13. x # Element
  <2> SUFFICES ASSUME x = Element PROVE FALSE
    OBVIOUS
  <2>1. here.kind \in {"array", "sequence"}
    BY <1>11 DEF IndexesOf, Made, Element
  <2>2. q[k + 1] = Element
    BY <1>11, <2>1 DEF IndexesOf
  <2>3. k # i - 1
    BY <1>9, <1>12, <2>2
  <2>4. k + 1 \in 0..(i - 1) /\ l <= k + 1 /\ ~(k + 1 <= k)
    BY <1>3, <1>6, <2>3
  <2>5. SubSeq(p, 1, k + 1) = Append(SubSeq(p, 1, k), x)
    <3>1. SubSeq(p, 1, k + 1) = Append(SubSeq(p, 1, (k + 1) - 1), p[k + 1])
      BY <1>1, <1>6, FirstAndRest
    <3>2. QED
      BY <1>6, <3>1
  <2>6. TypeAt(g, SubSeq(p, 1, k + 1)) = ChildAt(here, x)
    <3>1. SubSeq(p, 1, k) \in Seq(Nat)
      BY <1>1, <1>6, Halves
    <3>2. QED
      BY ZenonT(30), <1>9, <2>5, <3>1, TypeAtAppend
  <2>7. IsPlace(ChildAt(here, x), rest)
    <3>1. IsPlace(TypeAt(g, SubSeq(p, 1, k + 1)), rest)
      BY <1>6, PlaceParts
    <3>2. QED
      BY <2>6, <3>1
  <2>8. /\ NamesTo(here, <<x>> \o rest) = NameOf(here, x) \o NamesTo(ChildAt(here, x), rest)
        /\ NamesTo(ChildAt(here, x), rest) \in Seq(STRING)
    BY <1>8, <1>9, <1>11, <2>7, NamesFront
  <2>9. NameOf(here, x) = <<>>
    BY DEF NameOf
  <2>10. <<>> \o NamesTo(ChildAt(here, x), rest) = NamesTo(ChildAt(here, x), rest)
    BY <2>8, ConcatEmptySeq
  <2>11. NamesTo(ChildAt(here, x), rest) = tokens
    BY <1>7, <1>9, <2>8, <2>9, <2>10
  <2>12. Leads(k + 1)
    BY <2>6, <2>11
  <2>13. k + 1 \in K
    BY <2>4, <2>12
  <2> HIDE DEF K
  <2>14. QED
    BY <1>5, <2>4, <2>13
<1>14. May(r, q[k + 1])
  BY <1>10, <1>12, <1>13 DEF May
<1>15. r \in Walk(here, tokens, q[k + 1])
  <2> HIDE DEF r, here
  <2>1. Last(r) # Element
    BY <1>10
  <2>2. r \in Walk(here, NamesTo(here, r), q[k + 1])
    BY <1>8, <1>9, <1>10, <1>14, <2>1, WalkFinds
  <2>3. QED
    BY <1>7, <2>2
<1>16. here = TypeAt(given[s], SubSeq(q, 1, k))
  BY <1>2, <1>6
<1>17. FromParent(s, q, k, tokens) # {}
  <2> HIDE DEF r, here
  <2>1. SubSeq(q, 1, k) \o r \in FromParent(s, q, k, tokens)
    BY <1>15, <1>16 DEF FromParent
  <2>2. QED
    BY <2>1
<1>18. QED
  BY <1>6, <1>17

\* A match is a named place of a scope.
MatchAt(r, p, s, q, tokens) ==
  /\ r \in Here /\ r <= s /\ IsPlace(given[r], p) /\ p # <<>> /\ Last(p) # Element
  /\ r < s => NamesTo(given[r], p) = tokens
  /\ ~(r < s) => /\ Levels(given[s], p, q, tokens) # {}
                 /\ \E i \in Parting(p, q) : p[i] < q[i]

LEMMA MatchesAre ==
  ASSUME given \in Layouts, NEW s, NEW q, NEW tokens, NEW u
  PROVE  u \in Matches(s, q, tokens) <=> \E r, p : u = Target(r, p) /\ MatchAt(r, p, s, q, tokens)
<1> DEFINE Places == UNION {{Target(r, p) : p \in PlacesOf(given[r])} : r \in {x \in Here : x <= s}}
           Is(t) == /\ t.place # <<>> /\ Last(t.place) # Element
                    /\ IF t.root < s THEN NamesTo(given[t.root], t.place) = tokens
                       ELSE /\ Levels(given[s], t.place, q, tokens) # {}
                            /\ \E i \in Parting(t.place, q) : t.place[i] < q[i]
<1>1. Matches(s, q, tokens) = {t \in Places : Is(t)}
  BY DEF Matches
<1>2. \A t : t \in Places <=> \E r, p : r \in Here /\ r <= s /\ IsPlace(given[r], p) /\ t = Target(r, p)
  <2>1. \A r \in Here : \A p : p \in PlacesOf(given[r]) <=> IsPlace(given[r], p)
    BY LayoutsAreTame
  <2>2. QED
    BY <2>1
<1>3. \A r, p : Target(r, p).root = r /\ Target(r, p).place = p
  BY DEF Target
<1>4. \A r, p : MatchAt(r, p, s, q, tokens) <=>
               r \in Here /\ r <= s /\ IsPlace(given[r], p) /\ Is(Target(r, p))
  BY <1>3 DEF MatchAt
<1> HIDE DEF Places, Is
<1>5. QED
  BY <1>1, <1>2, <1>4

LEMMA LevelsHaveMax ==
  ASSUME NEW g, NEW p \in Seq(Nat), NEW q \in Seq(Nat), Len(q) # 0, NEW tokens,
         NEW k \in Levels(g, p, q, tokens)
  PROVE  /\ Max(Levels(g, p, q, tokens)) \in Levels(g, p, q, tokens)
         /\ Max(Levels(g, p, q, tokens)) \in Nat
         /\ k <= Max(Levels(g, p, q, tokens))
<1> DEFINE L == Levels(g, p, q, tokens)
<1>1. Common(p, q) \in Nat
  <2>1. Shares(p, q, Common(p, q)) /\ Len(p) \in Nat
    BY CommonIs
  <2>2. QED
    BY <2>1 DEF Shares
<1>2. L \in SUBSET (0..Common(p, q)) /\ k \in L
  BY DEF Levels
<1> HIDE DEF L
<1>3. Max(L) \in L /\ \A x \in L : x <= Max(L)
  BY <1>1, <1>2, BoundedMax
<1>4. QED
  BY <1>1, <1>2, <1>3 DEF L

\* The types around q from which the search finds something, and the scopes.
Around(s, q, tokens) == {k \in 0..(Len(q) - 1) : FromParent(s, q, k, tokens) # {}}
Before(s, tokens) == {r \in 1..(s - 1) : Absolute(r, tokens) # {}}

\* What the search finds from around q is a match, from the depth it was found at.
LEMMA AroundIsMatch ==
  ASSUME given \in Layouts, NEW s \in Here, NEW q \in Sources(s), NEW tokens \in Seq(STRING),
         NEW k \in 0..(Len(q) - 1), NEW p \in FromParent(s, q, k, tokens),
         NEW i \in Parting(p, q), p[i] < q[i]
  PROVE  MatchAt(s, p, s, q, tokens) /\ k \in Levels(given[s], p, q, tokens)
<1> DEFINE g == given[s]
           a == SubSeq(q, 1, k)
           here == TypeAt(g, a)
<1>1. /\ IsPlace(g, q) /\ q \in Seq(Nat) /\ Len(q) \in Nat \ {0}
  BY SourceIsPlace
<1>2. Tame(g)
  BY LayoutsAreTame
<1>3. k \in 0..Len(q) /\ k + 1 \in 1..Len(q) /\ k < Len(q) /\ k \in Nat
  BY <1>1
<1>4. a \in Seq(Nat) /\ Len(a) = k /\ (\A j \in 1..k : a[j] = q[j]) /\ IsPlace(g, a)
  BY <1>1, <1>3, Halves, PlaceParts
<1>5. PICK w \in Walk(here, tokens, q[k + 1]) : p = a \o w
  BY DEF FromParent
<1>6. q[k + 1] \in Nat
  BY <1>1, <1>3
<1>7. Tame(here)
  BY <1>2, <1>4, TameBelow
<1>8. i \in DOMAIN p /\ p[i] # q[i]
  BY DEF Parting
<1> HIDE DEF g, a, here
<1>9. tokens # <<>>
  <2> SUFFICES ASSUME tokens = <<>> PROVE FALSE
    OBVIOUS
  <2>1. w = <<>>
    BY <1>5, WalkStays
  <2>2. p = a
    BY <1>4, <1>5, <2>1, ConcatEmptySeq
  <2>3. DOMAIN a = 1..k
    BY <1>4
  <2>4. QED
    BY <1>4, <1>8, <2>2, <2>3
<1>10. IsPlace(here, w) /\ NamesTo(here, w) = tokens /\ w # <<>> /\ Last(w) # Element
  BY <1>5, <1>6, <1>7, <1>9, WalkEndsRight
<1>11. w \in Seq(Nat) /\ Len(w) \in Nat /\ Len(w) # 0
  <2>1. w \in Seq(Nat)
    BY <1>10 DEF IsPlace
  <2>2. QED
    BY <1>10, <2>1, EmptySeq
<1>12. IsPlace(g, p)
  BY <1>4, <1>5, <1>10, <1>11, PlaceConcat DEF here
<1>13. p \in Seq(Nat) /\ Len(p) = k + Len(w) /\ SubSeq(p, 1, k) = a /\ SubSeq(p, k + 1, Len(p)) = w
  <2>1. p \in Seq(Nat) /\ Len(p) = Len(a) + Len(w)
    BY <1>4, <1>5, <1>11, ConcatProperties
  <2>2. SubSeq(p, 1, Len(a)) = a /\ SubSeq(p, Len(a) + 1, Len(p)) = w
    BY SMTT(30), <1>4, <1>5, <1>11, EndOfConcat
  <2>3. QED
    BY <1>4, <2>1, <2>2
<1>14. p # <<>> /\ Last(p) = Last(w)
  <2>1. Len(p) # 0
    BY <1>3, <1>11, <1>13
  <2>2. p # <<>>
    BY <2>1
  <2>3. p[Len(a) + Len(w)] = w[Len(w)]
    <3>1. Len(w) \in 1..Len(w)
      BY <1>11
    <3>2. QED
      BY <1>4, <1>5, <1>11, <3>1, ConcatProperties
  <2>4. QED
    BY <1>4, <1>13, <2>2, <2>3 DEF Last
<1>15. k \in Levels(g, p, q, tokens)
  <2>1. k \in 0..Len(p) /\ Len(q) # 0
    BY <1>1, <1>3, <1>11, <1>13
  <2>2. Shares(p, q, Common(p, q))
    BY <1>1, <1>13, <2>1, CommonIs
  <2>3. k <= Common(p, q) /\ Common(p, q) \in 0..Len(p)
    BY <1>3, <1>13, <2>1, <2>2 DEF Shares, a
  <2>4. k \in 0..Common(p, q)
    BY <1>3, <2>3
  <2>5. NamesTo(TypeAt(g, SubSeq(p, 1, k)), SubSeq(p, k + 1, Len(p))) = tokens
    BY <1>10, <1>13 DEF here
  <2>6. QED
    BY <2>4, <2>5 DEF Levels
<1>16. s <= s /\ ~(s < s)
  BY DEF Here, Scopes
<1>17. QED
  BY <1>10, <1>12, <1>14, <1>15, <1>16 DEF MatchAt, g

\* A match in the source's own scope makes the search find something around q,
\* no further out than the match is seen from.
LEMMA OwnMatchIsFound ==
  ASSUME given \in Layouts, NEW s \in Here, NEW q \in Sources(s), NEW p, NEW tokens,
         MatchAt(s, p, s, q, tokens)
  PROVE  \E k \in Around(s, q, tokens) : Max(Levels(given[s], p, q, tokens)) <= k
<1> DEFINE L == Levels(given[s], p, q, tokens)
<1>1. ~(s < s)
  BY DEF Here, Scopes
<1>2. PICK i \in Parting(p, q) : p[i] < q[i]
  BY <1>1 DEF MatchAt
<1>3. PICK l \in L : TRUE
  BY <1>1 DEF MatchAt
<1>4. IsPlace(given[s], p) /\ p # <<>> /\ Last(p) # Element
  BY DEF MatchAt
<1>5. p \in Seq(Nat) /\ q \in Seq(Nat) /\ Len(q) \in Nat /\ Len(q) # 0
  BY <1>4, SourceIsPlace DEF IsPlace
<1>6. Max(L) \in L /\ Max(L) \in Nat
  <2>1. l \in Levels(given[s], p, q, tokens)
    BY <1>3
  <2>2. QED
    BY <1>5, <2>1, LevelsHaveMax
<1> HIDE DEF L
<1> DEFINE m == Max(L)
<1>7. m \in Levels(given[s], p, q, tokens)
  BY <1>6 DEF L
<1> HIDE DEF m
<1>8. PICK k \in m..(Len(q) - 1) : FromParent(s, q, k, tokens) # {}
  BY <1>2, <1>4, <1>7, LevelIsFound
<1>9. m \in Nat
  BY <1>6 DEF m
<1>10. k \in 0..(Len(q) - 1) /\ m <= k
  BY <1>5, <1>8, <1>9
<1>11. k \in Around(s, q, tokens)
  BY <1>8, <1>10 DEF Around
<1>12. QED
  BY <1>10, <1>11 DEF m, L

\* A match in a scope before makes the search find something there.
LEMMA EarlierMatchIsFound ==
  ASSUME given \in Layouts, NEW s \in Here, NEW q, NEW r, NEW p, NEW tokens,
         r < s, MatchAt(r, p, s, q, tokens)
  PROVE  r \in Before(s, tokens)
<1>1. r \in Here /\ IsPlace(given[r], p) /\ p # <<>> /\ Last(p) # Element
      /\ NamesTo(given[r], p) = tokens
  BY DEF MatchAt
<1>2. Tame(given[r])
  BY <1>1, LayoutsAreTame
<1>3. Far \in Nat /\ May(p, Far)
  BY DEF Far, May
<1>4. p \in Walk(given[r], tokens, Far)
  BY <1>1, <1>2, <1>3, WalkFinds
<1>5. Target(r, p) \in Absolute(r, tokens)
  BY <1>1, <1>4 DEF Absolute
<1>6. r \in 1..(s - 1)
  BY <1>1 DEF Here, Scopes
<1>7. QED
  BY <1>5, <1>6 DEF Before

\* What the search finds in a scope before is a match.
LEMMA BeforeIsMatch ==
  ASSUME given \in Layouts, NEW s \in Here, NEW q, NEW tokens \in Seq(STRING),
         NEW r \in 1..(s - 1), NEW t \in Absolute(r, tokens), t.place # <<>>
  PROVE  t.root = r /\ t = Target(r, t.place) /\ MatchAt(r, t.place, s, q, tokens)
<1>1. r \in Here
  BY DEF Absolute
<1>2. PICK p \in Walk(given[r], tokens, Far) : t = Target(r, p)
  BY <1>1 DEF Absolute
<1>3. t.root = r /\ t.place = p
  BY <1>2 DEF Target
<1>4. Tame(given[r])
  BY <1>1, LayoutsAreTame
<1>5. tokens # <<>>
  BY <1>2, <1>3, WalkStays
<1>6. IsPlace(given[r], p) /\ NamesTo(given[r], p) = tokens /\ p # <<>> /\ Last(p) # Element
  BY <1>2, <1>4, <1>5, WalkEndsRight DEF Far
<1>7. r < s /\ r <= s
  BY DEF Here, Scopes
<1>8. QED
  BY <1>1, <1>2, <1>3, <1>6, <1>7 DEF MatchAt

Nearest(t, s, q, tokens) ==
  /\ t \in Matches(s, q, tokens)
  /\ \A u \in Matches(s, q, tokens) : ~Nearer(u, t, s, q, tokens)

\* What is resolved by a relative path is the nearest match.
LEMMA ResolvedIsNearest ==
  ASSUME given \in Layouts, NEW s \in Here, NEW q \in Sources(s), NEW t \in Resolved(s, q),
         TypeAt(given[s], q).path.from = Relative
  PROVE  Nearest(t, s, q, TypeAt(given[s], q).path.tokens)
<1> DEFINE tokens == TypeAt(given[s], q).path.tokens
           A == Around(s, q, tokens)
           B == Before(s, tokens)
<1>1. q \in Seq(Nat) /\ Len(q) \in Nat \ {0} /\ tokens \in Seq(STRING)
  BY SourceIsPlace
<1>2. s \in 1..6
  BY DEF Here, Scopes
<1>3. t \in Found(s, q, tokens) /\ IsBefore(t, s, q)
  <2>1. t \in PathOf(s, q) /\ IsBefore(t, s, q)
    BY DEF Resolved
  <2>2. PathOf(s, q) = Found(s, q, tokens)
    BY DEF PathOf, Scopes, Relative
  <2>3. QED
    BY <2>1, <2>2
<1> HIDE DEF tokens
<1>4. Found(s, q, tokens) =
        IF A # {} THEN {Target(s, p) : p \in FromParent(s, q, Max(A), tokens)}
        ELSE IF B # {} THEN Absolute(Max(B), tokens)
        ELSE {}
  BY DEF Found, Around, Before
<1>5. A # {} => Max(A) \in A /\ \A x \in A : x <= Max(A)
  <2>1. A \in SUBSET (0..(Len(q) - 1)) /\ Len(q) - 1 \in Nat
    BY <1>1 DEF Around
  <2>2. QED
    BY <2>1, BoundedMax
<1>6. B # {} => Max(B) \in B /\ \A x \in B : x <= Max(B)
  <2>1. B \in SUBSET (0..(s - 1)) /\ s - 1 \in Nat
    BY <1>2 DEF Before
  <2>2. QED
    BY <2>1, BoundedMax
<1>7. CASE A # {}
  <2> DEFINE k == Max(A)
  <2>1. k \in 0..(Len(q) - 1) /\ \A x \in A : x <= k
    BY <1>5, <1>7 DEF Around
  <2>2. PICK p \in FromParent(s, q, k, tokens) : t = Target(s, p)
    BY <1>3, <1>4, <1>7
  <2> HIDE DEF k
  <2>3. t.root = s /\ t.place = p
    BY <2>2 DEF Target
  <2>4. PICK i \in Parting(p, q) : p[i] < q[i]
    BY <1>3, <2>3 DEF IsBefore
  <2>5. MatchAt(s, p, s, q, tokens) /\ k \in Levels(given[s], p, q, tokens)
    BY <1>1, <2>1, <2>2, <2>4, AroundIsMatch
  <2>6. t \in Matches(s, q, tokens)
    BY <2>2, <2>5, MatchesAre
  <2>7. k <= Max(Levels(given[s], p, q, tokens)) /\ Max(Levels(given[s], p, q, tokens)) \in Nat
    <3>1. p \in Seq(Nat) /\ Len(q) # 0
      BY <1>1, <2>5 DEF MatchAt, IsPlace
    <3>2. QED
      BY <1>1, <2>5, <3>1, LevelsHaveMax
  <2>8. ASSUME NEW u \in Matches(s, q, tokens), Nearer(u, t, s, q, tokens) PROVE FALSE
    <3>1. PICK r, v : u = Target(r, v) /\ MatchAt(r, v, s, q, tokens)
      BY <2>8, MatchesAre
    <3>2. u.root = r /\ u.place = v /\ r \in Here /\ r <= s
      BY <3>1 DEF Target, MatchAt
    <3>3. r = s
      BY <1>2, <2>3, <2>8, <3>2 DEF Nearer, Here, Scopes
    <3>4. Max(Levels(given[s], v, q, tokens)) > Max(Levels(given[s], p, q, tokens))
      BY <1>2, <2>3, <2>8, <3>2, <3>3 DEF Nearer
    <3>5. PICK j \in A : Max(Levels(given[s], v, q, tokens)) <= j
      BY <3>1, <3>3, OwnMatchIsFound
    <3>6. j <= k
      BY <2>1
    <3>7. Max(Levels(given[s], v, q, tokens)) \in Nat
      <4>1. \E l \in Levels(given[s], v, q, tokens) : TRUE
        BY <1>2, <3>1, <3>3 DEF MatchAt
      <4>2. v \in Seq(Nat) /\ Len(q) # 0
        BY <1>1, <3>1 DEF MatchAt, IsPlace
      <4>3. QED
        BY <1>1, <4>1, <4>2, LevelsHaveMax
    <3>8. j \in Nat /\ k \in Nat
      BY <1>1, <2>1, <3>5 DEF Around
    <3>9. QED
      BY <2>7, <3>4, <3>5, <3>6, <3>7, <3>8
  <2>9. QED
    BY <2>6, <2>8 DEF Nearest, tokens
<1>8. CASE A = {}
  <2> DEFINE m == Max(B)
  <2>1. B # {} /\ t \in Absolute(m, tokens)
    BY <1>3, <1>4, <1>8
  <2>2. m \in 1..(s - 1) /\ \A x \in B : x <= m
    BY <1>6, <2>1 DEF Before
  <2> HIDE DEF m
  <2>3. t.place # <<>>
    BY <1>3 DEF IsBefore
  <2>4. t.root = m /\ t = Target(m, t.place) /\ MatchAt(m, t.place, s, q, tokens)
    BY <1>1, <2>1, <2>2, <2>3, BeforeIsMatch
  <2>5. t \in Matches(s, q, tokens)
    BY <2>4, MatchesAre
  <2>6. ASSUME NEW u \in Matches(s, q, tokens), Nearer(u, t, s, q, tokens) PROVE FALSE
    <3>1. PICK r, v : u = Target(r, v) /\ MatchAt(r, v, s, q, tokens)
      BY <2>6, MatchesAre
    <3>2. u.root = r /\ u.place = v /\ r \in Here /\ r <= s /\ r \in Nat
      BY <3>1 DEF Target, MatchAt, Here, Scopes
    <3>3. r > m
      BY <1>2, <2>2, <2>4, <2>6, <3>2 DEF Nearer
    <3>4. CASE r = s
      <4>1. \E k \in A : TRUE
        BY <3>1, <3>4, OwnMatchIsFound
      <4>2. QED
        BY <1>8, <4>1
    <3>5. CASE r # s
      <4>1. r < s
        BY <1>2, <3>2, <3>5
      <4>2. r \in B
        BY <3>1, <4>1, EarlierMatchIsFound
      <4>3. QED
        BY <1>2, <2>2, <3>2, <3>3, <4>2
    <3>6. QED
      BY <3>4, <3>5
  <2>7. QED
    BY <2>5, <2>6 DEF Nearest, tokens
<1>9. QED
  BY <1>7, <1>8

(***************************************************************************)
(* The paths that are set.                                                 *)
(***************************************************************************)

\* The path that a relative name was set to leads to the nearest field of that
\* name, whatever names the layout repeats: no match is found from further
\* inside, and none lies in a later scope (relative_ptokens_to_field_path()).
THEOREM TargetsAreNearest == Spec => []LinksAreNearest
<1>1. IInv => LinksAreNearest
  <2> SUFFICES ASSUME IInv, NEW s \in Here \cap copies, NEW q \in Sources(s),
                      ObjectAt(s, q) \in DOMAIN path, TypeAt(given[s], q).path.from = Relative
               PROVE  Nearest(path[ObjectAt(s, q)], s, q, TypeAt(given[s], q).path.tokens)
    BY DEF LinksAreNearest, Nearest
  <2>1. ObjectAt(s, q) = <<s, q>>
    BY DEF ObjectAt, ObjectIn
  <2>2. path[ObjectAt(s, q)] \in Resolved(s, q)
    BY <2>1 DEF IInv, PathsLead
  <2>3. given \in Layouts
    BY DEF IInv, Flags
  <2>4. QED
    BY <2>2, <2>3, ResolvedIsNearest
<1>2. QED
  BY <1>1, Invariance, PTL

\* Every path that bt_ctf_resolve_types() sets leads to a field that is decoded
\* before and can serve, and for a relative name to the nearest one.
THEOREM TargetsAreRight == Spec => []LinksAreRight
<1>1. LinksAreUsable /\ LinksAreNearest => LinksAreRight
  BY DEF LinksAreRight
<1>2. QED
  BY <1>1, TargetsComeFirst, TargetsAreNearest, PTL
=============================================================================
