--------------------------- MODULE Dof2CtfProofs ----------------------------
(***************************************************************************)
(* Theorems about the conversion of a DOF, for every set of DOFs: what is  *)
(* written describes all of the DOF or nothing, ids are dense and          *)
(* increase, a DOF that is cut off where it matters is refused, and so are *)
(* actions without the size of an entry.                                   *)
(***************************************************************************)
EXTENDS Dof2Ctf, TLAPS, FiniteSetTheorems

\* The ECBs before section n.
Below(d, n) == {k \in EnabledEcbs(d) : k < n}

\* There are finitely many.
LEMMA BelowFinite ==
  ASSUME NEW d \in Seq(Section), NEW n \in Nat
  PROVE  IsFiniteSet(Below(d, n)) /\ Cardinality(Below(d, n)) \in Nat
<1>1. Len(d) \in Nat /\ DOMAIN d = 1..Len(d)
  OBVIOUS
<1>2. IsFiniteSet(1..Len(d))
  BY <1>1, FS_Interval
<1>3. Below(d, n) \subseteq 1..Len(d)
  BY <1>1 DEF Below, EnabledEcbs
<1>4. IsFiniteSet(Below(d, n))
  BY <1>2, <1>3, FS_Subset
<1>5. QED
  BY <1>4, FS_CardinalityType

\* A section that is no ECB with actions changes nothing in the description.
LEMMA SectionSkipped ==
  ASSUME NEW d \in Seq(Section), NEW n \in 1..Len(d), n \notin EnabledEcbs(d)
  PROVE  /\ Description(d, n + 1) = Description(d, n)
         /\ Below(d, n + 1) = Below(d, n)
<1>1. EnabledEcbs(d) \subseteq Nat /\ n \in Nat
  BY DEF EnabledEcbs
<1>2. \A k \in EnabledEcbs(d) : k < n + 1 <=> k < n
  BY <1>1
<1>3. Below(d, n + 1) = Below(d, n)
  BY <1>2 DEF Below
<1>4. QED
  BY <1>3 DEF Description, Below

\* An ECB with actions adds its class, whose id is one more than the number of
\* those before it.
LEMMA SectionDescribed ==
  ASSUME NEW d \in Seq(Section), NEW n \in EnabledEcbs(d)
  PROVE  /\ Description(d, n + 1) = Description(d, n) \cup {ClassOf(d, n)}
         /\ Cardinality(Below(d, n + 1)) = Cardinality(Below(d, n)) + 1
         /\ EpidOf(d, n) = Cardinality(Below(d, n)) + 1
<1>1. EnabledEcbs(d) \subseteq Nat /\ n \in Nat
  BY DEF EnabledEcbs
<1>2. \A k \in EnabledEcbs(d) : /\ k < n + 1 <=> k < n \/ k = n
                                /\ k <= n <=> k < n \/ k = n
  BY <1>1
<1>3. Below(d, n + 1) = Below(d, n) \cup {n}
  BY <1>2 DEF Below
<1>4. {j \in EnabledEcbs(d) : j <= n} = Below(d, n) \cup {n}
  BY <1>2 DEF Below
<1>5. n \notin Below(d, n)
  BY <1>1 DEF Below
<1>6. Cardinality(Below(d, n) \cup {n}) = Cardinality(Below(d, n)) + 1
  BY <1>1, <1>5, BelowFinite, FS_AddElement
<1>7. Description(d, n + 1) = Description(d, n) \cup {ClassOf(d, n)}
  <2>1. Description(d, n + 1) = {EpidNone} \cup {ClassOf(d, k) : k \in Below(d, n) \cup {n}}
    BY <1>3 DEF Description, Below
  <2>2. Description(d, n) = {EpidNone} \cup {ClassOf(d, k) : k \in Below(d, n)}
    BY DEF Description, Below
  <2>3. QED
    BY <2>1, <2>2
<1>8. QED
  BY <1>3, <1>4, <1>6, <1>7 DEF EpidOf

\* The fields of one more action.
LEMMA OneMoreAction ==
  ASSUME NEW d, NEW k, NEW I, NEW n
  PROVE  FieldsOver(d, k, I \cup {n}) =
           FieldsOver(d, k, I) \cup FieldsOf(d, ActsecOf(d, k).acts[n], n)
BY DEF FieldsOver

\* An offset is a number.
LEMMA OffsetIsNat ==
  ASSUME NEW i \in Nat, NEW e \in Nat
  PROVE  i * e \in Nat
OBVIOUS

\* An offset moves on with the number of the action.
LEMMA OffsetsGrow ==
  ASSUME NEW i \in Nat, NEW j \in Nat, NEW e \in Nat, i <= j
  PROVE  i * e <= j * e
<1>1. j = i + (j - i) /\ j - i \in Nat
  OBVIOUS
<1>2. (j - i) * e \in Nat
  BY <1>1, OffsetIsNat
<1>3. j * e = i * e + (j - i) * e
  BY <1>1
<1>4. i * e \in Nat /\ j * e \in Nat
  BY OffsetIsNat
<1>5. QED
  BY <1>2, <1>3, <1>4

\* Fields of the DOF's own actions, and others.
LEMMA OwnUnion ==
  ASSUME NEW d, NEW k, NEW fs, NEW gs
  PROVE  Own(d, k, fs \cup gs) = Own(d, k, fs) \cup Own(d, k, gs)
BY DEF Own

LEMMA OwnClassesUnion ==
  ASSUME NEW d, NEW C, NEW new
  PROVE  /\ OwnClasses(d, {}) = {}
         /\ OwnClasses(d, C \cup {new}) = OwnClasses(d, C) \cup {OwnClass(d, new)}
BY DEF OwnClasses

\* The actions of an ECB.
LEMMA ActsOfEcb ==
  ASSUME NEW d \in Seq(Section), NEW k \in 1..Len(d), d[k].actions \in 1..Len(d)
  PROVE  /\ ActsecOf(d, k) \in Section
         /\ ActsecOf(d, k).acts \in Seq(Action)
         /\ Len(ActsecOf(d, k).acts) \in Nat
         /\ DOMAIN ActsecOf(d, k).acts = 1..Len(ActsecOf(d, k).acts)
         /\ ActsecOf(d, k).len \in Nat /\ ActsecOf(d, k).entry \in Nat
<1>1. ActsecOf(d, k) \in Section
  BY DEF ActsecOf
<1>2. QED
  BY <1>1 DEF Section

\* A DIFO whose section is lost is taken for loaded.
LEMMA LostLoads ==
  ASSUME NEW n, LinkLost(n), Loads(n) => dof[n].links \in Seq(Nat)
  PROVE  DifoLoads(n)
<1>1. Loads(n)
  BY DEF LinkLost
<1>2. PICK i \in DOMAIN dof[n].links : Lost(dof[n].links[i]) /\ LinksLoad(n, i)
  BY DEF LinkLost
<1>3. i \in Nat /\ \A j \in DOMAIN dof[n].links : j \in Nat \ {0}
  BY <1>1, <1>2
<1>4. SUFFICES ASSUME NEW j \in DOMAIN dof[n].links, LinksLoad(n, j)
               PROVE  ~CutOff(dof[n].links[j])
  BY <1>1 DEF DifoLoads
<1>5. CASE j < i
  BY <1>2, <1>3, <1>5 DEF LinksLoad
<1>6. CASE j = i
  BY <1>2, <1>6 DEF CutOff
<1>7. CASE j > i
  BY <1>2, <1>3, <1>4, <1>7 DEF LinksLoad
<1>8. QED
  BY <1>3, <1>5, <1>6, <1>7

(***************************************************************************)
(* The invariant.                                                          *)
(***************************************************************************)

LEMMA InitInv ==
  Init => IInv
<1> SUFFICES ASSUME Init PROVE IInv
  OBVIOUS
<1>1. dof \in Seq(Section) /\ Len(dof) \in Nat
  BY DofsAssumption DEF Init
<1>2. TypeOK
  BY <1>1 DEF Init, TypeOK
<1>3. Converted /\ Converting
  BY DEF Init, Converted, Converting
<1>4. IdsIncrease /\ DescribesAllOrNothing
  <2>1. 0..(epid - 1) = {}
    BY DEF Init
  <2>2. QED
    BY <2>1, OwnClassesUnion DEF Init, IdsIncrease, DescribesAllOrNothing
<1>5. QED
  BY <1>1, <1>2, <1>3, <1>4 DEF Init, IInv

Ids(C) == {c.id : c \in C}
Increasing(C) == \A a, b \in C : a.sec < b.sec <=> a.id < b.id

\* Ids stay dense and increasing when a class of a later section gets the next.
LEMMA NextId ==
  ASSUME NEW C, NEW n \in Nat, NEW s \in Nat,
         \A c \in C : c.sec \in 0..(s - 1),
         Ids(C) = 0..(n - 1), Increasing(C),
         NEW new, new.sec = s, new.id = n
  PROVE  Ids(C \cup {new}) = 0..n /\ Increasing(C \cup {new})
<1> DEFINE D == C \cup {new}
<1>1. new.sec = s /\ new.id = n
  OBVIOUS
<1>2. D = C \cup {new}
  OBVIOUS
<1> HIDE DEF D
<1>3. Ids(D) = Ids(C) \cup {n}
  BY <1>1, <1>2 DEF Ids
<1>4. \A c \in C : c.id \in 0..(n - 1)
  BY DEF Ids
<1>5. ASSUME NEW a \in D, NEW b \in D
      PROVE  a.sec < b.sec <=> a.id < b.id
  <2>1. CASE a = new /\ b = new
    BY <1>1, <2>1
  <2>2. CASE a \in C /\ b = new
    BY <1>1, <1>4, <2>2
  <2>3. CASE a = new /\ b \in C
    BY <1>1, <1>4, <2>3
  <2>4. CASE a \in C /\ b \in C
    BY <2>4 DEF Increasing
  <2>5. QED
    BY <1>2, <2>1, <2>2, <2>3, <2>4
<1>6. 0..n = 0..(n - 1) \cup {n}
  OBVIOUS
<1>7. QED
  BY <1>2, <1>3, <1>5, <1>6 DEF Increasing

\* The parts of the DOF that a step does not move.
LEMMA SameDof ==
  ASSUME dof' = dof
  PROVE  /\ \A n : DifoLoads(n)' <=> DifoLoads(n)
         /\ \A k : EcbLoads(k)' <=> EcbLoads(k)
         /\ \A k : Sized(k)' <=> Sized(k)
         /\ \A k : ProbeLoads(k)' <=> ProbeLoads(k)
         /\ \A k : ActionsLoad(k)' <=> ActionsLoad(k)
<1> USE DEF Loads, ProbeLoads, ActionsLoad, Lost, CutOff, LinksLoad, DifoLoads, EcbLoads, Sized
<1>1. QED
  OBVIOUS

\* A conversion that ends with an error keeps the invariant.
LEMMA FailInv ==
  ASSUME IInv, Fail, at \in {"setup", "section", "action"}
  PROVE  IInv'
<1>1. result = "none" /\ written = {}
  BY DEF IInv, TypeOK, DescribesAllOrNothing, OwnClasses
<1>2. TypeOK'
  BY DEF Fail, IInv, TypeOK
<1>3. Converted'
  BY DEF Fail, IInv, Converted
<1>4. Converting' /\ DescribesAllOrNothing'
  BY <1>1, OwnClassesUnion DEF Fail, Converting, DescribesAllOrNothing
<1>5. IdsIncrease' /\ (\A c \in classes : c.sec \in 0..(secNum - 1))'
  BY DEF Fail, IInv, IdsIncrease
<1>6. (\A k \in 1..(secNum - 1) : dof[k].type = "ecb" => EcbLoads(k) /\ Sized(k))'
  BY SameDof DEF Fail, IInv
<1>7. QED
  BY <1>2, <1>3, <1>4, <1>5, <1>6 DEF Fail, IInv

LEMMA SetupInv ==
  ASSUME IInv, Setup
  PROVE  IInv'
<1>1. /\ secNum = 1 /\ epid = 0 /\ classes = {}
      /\ result = "none" /\ written = {}
      /\ dof \in Seq(Section) /\ Len(dof) \in Nat
  BY DEF Setup, IInv, Converted, TypeOK, DescribesAllOrNothing, OwnClasses
<1>2. /\ UNCHANGED <<dof, secNum, idx, rec, fields, written, result>>
      /\ at' = "section" /\ epid' = 1
      /\ classes' = {EpidNone}
  BY <1>1 DEF Setup, EpidNone
<1>3. Below(dof, 1) = {}
  <2>1. \A k \in DOMAIN dof : k \in Nat \ {0}
    BY <1>1
  <2>2. QED
    BY <2>1 DEF Below, EnabledEcbs
<1>4. TypeOK'
  BY <1>1, <1>2 DEF IInv, TypeOK
<1>5. Converted'
  <2>1. Description(dof, 1) = {EpidNone}
    BY <1>3 DEF Description, Below
  <2>2. Cardinality(Below(dof, 1)) = 0
    BY <1>3, FS_EmptySet
  <2>3. OwnClasses(dof, {EpidNone}) = {EpidNone}
    BY DEF OwnClasses, OwnClass, Own, EpidNone
  <2>4. /\ OwnClasses(dof', classes') = Description(dof', secNum')
        /\ epid' = Cardinality(Below(dof', secNum')) + 1
    <3>1. dof' = dof /\ secNum' = 1
      BY <1>1, <1>2
    <3>2. OwnClasses(dof, classes') = {EpidNone}
      BY <1>2, <2>3
    <3>3. OwnClasses(dof', classes') = Description(dof', secNum')
      BY <2>1, <3>1, <3>2
    <3>4. epid' = Cardinality(Below(dof', secNum')) + 1
      BY <1>2, <2>2, <3>1
    <3>5. QED
      BY <3>3, <3>4
  <2>5. QED
    BY <1>2, <2>4 DEF Converted, Below
<1>6. Converting' /\ DescribesAllOrNothing'
  BY <1>1, <1>2, OwnClassesUnion DEF Converting, DescribesAllOrNothing
<1>7. IdsIncrease'
  <2>1. {c.id : c \in classes'} = {0}
    BY <1>2 DEF EpidNone
  <2>2. 0..(epid' - 1) = {0}
    BY <1>2
  <2>3. \A a, b \in classes' : a.sec < b.sec <=> a.id < b.id
    BY <1>2 DEF EpidNone
  <2>4. QED
    BY <2>1, <2>2, <2>3 DEF IdsIncrease
<1>8. QED
  BY <1>1, <1>2, <1>4, <1>5, <1>6, <1>7 DEF IInv, EpidNone

\* A section that needs no class is passed.
LEMMA SkipInv ==
  ASSUME IInv, SkipSection \/ SkipEcb
  PROVE  IInv'
<1>1. /\ at = "section" /\ secNum <= Len(dof)
      /\ secNum' = secNum + 1
      /\ UNCHANGED <<dof, at, idx, rec, epid, fields, classes, written, result>>
      /\ secNum \notin EnabledEcbs(dof)
      /\ dof[secNum].type = "ecb" => EcbLoads(secNum) /\ Sized(secNum)
  <2>1. CASE SkipSection
    BY <2>1 DEF SkipSection, InSection, Ecb, EnabledEcbs
  <2>2. CASE SkipEcb
    BY <2>2 DEF SkipEcb, InSection, Ecb, EnabledEcbs, EcbLoads, Sized, ActionsLoad
  <2>3. QED
    BY <2>1, <2>2
<1>2. dof \in Seq(Section) /\ Len(dof) \in Nat /\ secNum \in 1..Len(dof)
  BY <1>1 DEF IInv, TypeOK
<1>3. result = "none" /\ written = {}
  BY <1>1 DEF IInv, TypeOK, DescribesAllOrNothing, OwnClasses
<1>4. TypeOK'
  BY <1>1, <1>2 DEF IInv, TypeOK
<1>5. Converted'
  <2>1. /\ OwnClasses(dof, classes) = Description(dof, secNum)
        /\ epid = Cardinality(Below(dof, secNum)) + 1
    BY <1>1 DEF IInv, Converted, Below
  <2>2. /\ Description(dof, secNum + 1) = Description(dof, secNum)
        /\ Below(dof, secNum + 1) = Below(dof, secNum)
    BY <1>1, <1>2, SectionSkipped
  <2>3. QED
    BY <1>1, <2>1, <2>2 DEF Converted, Below
<1>6. Converting' /\ DescribesAllOrNothing'
  BY <1>1, <1>3, OwnClassesUnion DEF Converting, DescribesAllOrNothing
<1>7. IdsIncrease'
  BY <1>1 DEF IInv, IdsIncrease
<1>8. (\A c \in classes : c.sec \in 0..(secNum - 1))'
  BY <1>1, <1>2 DEF IInv
<1>9. (\A k \in 1..(secNum - 1) : dof[k].type = "ecb" => EcbLoads(k) /\ Sized(k))'
  <2>1. \A k \in 1..secNum : dof[k].type = "ecb" => EcbLoads(k) /\ Sized(k)
    BY <1>1, <1>2 DEF IInv
  <2>2. QED
    BY <1>1, <1>2, <2>1, SameDof
<1>10. QED
  BY <1>1, <1>3, <1>4, <1>5, <1>6, <1>7, <1>8, <1>9 DEF IInv

\* An ECB with actions is entered.
LEMMA LoadEcbInv ==
  ASSUME IInv, LoadEcb
  PROVE  IInv'
<1>1. /\ at = "section" /\ at' = "action" /\ secNum <= Len(dof)
      /\ idx' = 0 /\ rec' = 1 /\ fields' = {}
      /\ UNCHANGED <<dof, secNum, epid, classes, written, result>>
      /\ dof[secNum].type = "ecb" /\ dof[secNum].actions # NoSection
      /\ ProbeLoads(secNum) /\ ActionsLoad(secNum)
  BY DEF LoadEcb, InSection, Ecb
<1>2. dof \in Seq(Section) /\ Len(dof) \in Nat /\ secNum \in 1..Len(dof)
  BY <1>1 DEF IInv, TypeOK
<1>3. result = "none" /\ written = {}
  BY <1>1 DEF IInv, TypeOK, DescribesAllOrNothing, OwnClasses
<1>4. secNum \in EnabledEcbs(dof)
  BY <1>1, <1>2 DEF EnabledEcbs
<1>5. TypeOK'
  BY <1>1, <1>2, <1>3 DEF IInv, TypeOK
<1>6. Converted'
  BY <1>1 DEF IInv, Converted
<1>7. Converting'
  <2>1. dof[secNum].actions \in 1..Len(dof)
    BY <1>1 DEF ActionsLoad, Loads
  <2>2. ActsecOf(dof, secNum).entry \in Nat /\ DOMAIN ActsecOf(dof, secNum).acts \subseteq Nat \ {0}
    BY <1>2, <2>1, ActsOfEcb
  <2>3. /\ Acts' = ActsecOf(dof, secNum).acts /\ Actsec' = ActsecOf(dof, secNum)
        /\ EntriesDone' = {}
    BY <1>1, <2>2 DEF Acts, Actsec, Ecb, ActsecOf, EntriesDone
  <2>4. idx' = (rec' - 1) * Actsec'.entry /\ 1..(rec' - 1) = {}
    BY <1>1, <2>2, <2>3
  <2>5. Own(dof, secNum, {}) = FieldsOver(dof, secNum, {})
    BY DEF FieldsOver, Own
  <2>6. QED
    BY <1>1, <1>4, <2>3, <2>4, <2>5, SameDof DEF Converting
<1>8. DescribesAllOrNothing' /\ IdsIncrease'
  BY <1>1, <1>3 DEF IInv, DescribesAllOrNothing, IdsIncrease
<1>9. (\A k \in 1..(secNum - 1) : dof[k].type = "ecb" => EcbLoads(k) /\ Sized(k))'
  BY <1>1, SameDof DEF IInv
<1>10. QED
  BY <1>1, <1>3, <1>5, <1>6, <1>7, <1>8, <1>9 DEF IInv

\* An action is done, or what lies behind its section is: its DIFO loads, or is
\* taken for loaded.
LEMMA AddFieldInv ==
  ASSUME IInv, InActions, NEW act \in Actdesc, AddField(act), DifoLoads(act.difo)
  PROVE  IInv'
<1>1. /\ at = "action" /\ idx < Actsec.len
      /\ fields' = fields \cup FieldsOf(dof, act, rec)
      /\ idx' = idx + Actsec.entry /\ rec' = rec + 1
      /\ UNCHANGED <<dof, at, secNum, epid, classes, written, result>>
  BY DEF InActions, AddField
<1>2. /\ dof \in Seq(Section) /\ Len(dof) \in Nat /\ secNum \in 1..Len(dof)
      /\ rec \in Nat \ {0} /\ idx \in Nat
  BY <1>1 DEF IInv, TypeOK
<1>3. result = "none" /\ written = {}
  BY <1>1 DEF IInv, TypeOK, DescribesAllOrNothing, OwnClasses
<1>4. /\ secNum \in EnabledEcbs(dof)
      /\ ProbeLoads(secNum) /\ ActionsLoad(secNum)
      /\ idx = (rec - 1) * Actsec.entry
      /\ \A i \in 1..(rec - 1) : Passes(dof, secNum, i)
      /\ Own(dof, secNum, fields) = FieldsOver(dof, secNum, EntriesDone)
      /\ \A i \in EntriesDone : DifoLoads(Acts[i].difo)
  BY <1>1 DEF IInv, Converting
<1>5. /\ Actsec = ActsecOf(dof, secNum) /\ Acts = ActsecOf(dof, secNum).acts
      /\ Actsec' = Actsec /\ Acts' = Acts
  BY <1>1 DEF Acts, Actsec, Ecb, ActsecOf
<1>6. /\ Acts \in Seq(Action) /\ Len(Acts) \in Nat /\ DOMAIN Acts = 1..Len(Acts)
      /\ Actsec.len \in Nat /\ Actsec.entry \in Nat
  <2>1. dof[secNum].actions \in 1..Len(dof)
    BY <1>4 DEF ActionsLoad, Loads, EnabledEcbs
  <2>2. QED
    BY <1>2, <1>5, <2>1, ActsOfEcb
<1>7. TypeOK'
  <2>1. idx' \in Nat
    BY <1>1, <1>2, <1>6
  <2>2. QED
    BY <1>1, <1>2, <1>3, <2>1 DEF IInv, TypeOK
<1>8. Converting'
  <2>1. idx' = (rec' - 1) * Actsec'.entry
    <3>1. rec * Actsec.entry = (rec - 1) * Actsec.entry + Actsec.entry
      BY <1>2, <1>6
    <3>2. QED
      BY <1>1, <1>2, <1>4, <1>5, <3>1
  <2>2. \A i \in 1..(rec' - 1) : Passes(dof, secNum, i)
    <3>1. Passes(dof, secNum, rec)
      BY <1>1, <1>4, <1>5 DEF Passes
    <3>2. 1..(rec' - 1) = 1..(rec - 1) \cup {rec}
      BY <1>1, <1>2
    <3>3. QED
      BY <1>4, <3>1, <3>2
  <2>3. /\ Own(dof, secNum, fields') = FieldsOver(dof, secNum, EntriesDone')
        /\ \A i \in EntriesDone' : DifoLoads(Acts[i].difo)
    <3>1. Own(dof, secNum, fields') =
            Own(dof, secNum, fields) \cup Own(dof, secNum, FieldsOf(dof, act, rec))
      BY <1>1, OwnUnion
    <3>2. \A f \in FieldsOf(dof, act, rec) : f.rec = rec - 1
      BY DEF FieldsOf
    <3>3. CASE rec <= Len(Acts)
      <4>1. act = Acts[rec]
        BY <3>3 DEF Actdesc
      <4>2. EntriesDone' = EntriesDone \cup {rec}
        BY <1>1, <1>2, <1>5, <1>6, <3>3 DEF EntriesDone
      <4>3. Own(dof, secNum, FieldsOf(dof, act, rec)) = FieldsOf(dof, act, rec)
        BY <1>2, <1>5, <1>6, <3>2, <3>3 DEF Own
      <4>4. FieldsOver(dof, secNum, EntriesDone') =
              FieldsOver(dof, secNum, EntriesDone) \cup FieldsOf(dof, act, rec)
        <5>1. FieldsOver(dof, secNum, EntriesDone \cup {rec}) =
                FieldsOver(dof, secNum, EntriesDone)
                  \cup FieldsOf(dof, ActsecOf(dof, secNum).acts[rec], rec)
          BY OneMoreAction
        <5>2. QED
          BY <1>5, <4>1, <4>2, <5>1
      <4>5. QED
        BY <1>4, <3>1, <4>1, <4>2, <4>3, <4>4
    <3>4. CASE rec > Len(Acts)
      <4>1. EntriesDone' = EntriesDone
        BY <1>1, <1>2, <1>5, <1>6, <3>4 DEF EntriesDone
      <4>2. Own(dof, secNum, FieldsOf(dof, act, rec)) = {}
        BY <1>2, <1>5, <1>6, <3>2, <3>4 DEF Own
      <4>3. QED
        BY <1>4, <3>1, <4>1, <4>2
    <3>5. QED
      BY <1>2, <1>6, <3>3, <3>4
  <2>4. QED
    BY <1>1, <1>4, <1>5, <2>1, <2>2, <2>3, SameDof DEF Converting
<1>9. Converted' /\ DescribesAllOrNothing' /\ IdsIncrease'
  BY <1>1, <1>3 DEF IInv, Converted, DescribesAllOrNothing, IdsIncrease
<1>10. (\A k \in 1..(secNum - 1) : dof[k].type = "ecb" => EcbLoads(k) /\ Sized(k))'
  BY <1>1, SameDof DEF IInv
<1>11. QED
  BY <1>1, <1>3, <1>7, <1>8, <1>9, <1>10 DEF IInv

\* When the offset is past the section every action of it was gone through that
\* the offset passes, and the entries have a size.
LEMMA ActionsDone ==
  ASSUME IInv, at = "action", idx >= Actsec.len
  PROVE  EntriesDone = Entries(dof, secNum) /\ Sized(secNum)
<1>1. /\ dof \in Seq(Section) /\ secNum \in 1..Len(dof) /\ rec \in Nat \ {0}
  BY DEF IInv, TypeOK
<1>2. /\ secNum \in EnabledEcbs(dof) /\ ActionsLoad(secNum)
      /\ idx = (rec - 1) * Actsec.entry
      /\ \A i \in 1..(rec - 1) : Passes(dof, secNum, i)
  BY DEF IInv, Converting
<1>3. Actsec = ActsecOf(dof, secNum) /\ Acts = ActsecOf(dof, secNum).acts
  BY DEF Acts, Actsec, Ecb, ActsecOf
<1>4. DOMAIN Acts = 1..Len(Acts) /\ Len(Acts) \in Nat /\ Actsec.len \in Nat /\ Actsec.entry \in Nat
  <2>1. dof[secNum].actions \in 1..Len(dof)
    BY <1>2 DEF ActionsLoad, Loads, EnabledEcbs
  <2>2. QED
    BY <1>1, <1>3, <2>1, ActsOfEcb
<1>5. ASSUME NEW i \in DOMAIN Acts
      PROVE  Passes(dof, secNum, i) <=> i < rec
  <2>1. i \in Nat \ {0}
    BY <1>4
  <2>2. CASE i < rec
    BY <1>1, <1>2, <2>1, <2>2
  <2>3. CASE i >= rec
    <3>1. (rec - 1) * Actsec.entry <= (i - 1) * Actsec.entry
      <4>1. rec - 1 \in Nat /\ i - 1 \in Nat /\ rec - 1 <= i - 1
        BY <1>1, <2>1, <2>3
      <4>2. QED
        BY <1>4, <4>1, OffsetsGrow
    <3>2. (rec - 1) * Actsec.entry \in Nat /\ (i - 1) * Actsec.entry \in Nat
      <4>1. rec - 1 \in Nat /\ i - 1 \in Nat
        BY <1>1, <2>1
      <4>2. QED
        BY <1>4, <4>1, OffsetIsNat
    <3>3. ~Passes(dof, secNum, i)
      BY <1>2, <1>3, <1>4, <3>1, <3>2 DEF Passes
    <3>4. QED
      BY <1>1, <2>1, <2>3, <3>3
  <2>4. QED
    BY <1>1, <2>1, <2>2, <2>3
<1>6. EntriesDone = Entries(dof, secNum)
  BY <1>3, <1>5 DEF EntriesDone, Entries
<1>7. Sized(secNum)
  <2>1. CASE Actsec.entry = 0
    <3>1. idx = 0
      BY <1>1, <1>2, <2>1
    <3>2. QED
      BY <1>3, <1>4, <3>1 DEF Sized
  <2>2. QED
    BY <1>3, <1>4, <2>1 DEF Sized
<1>8. QED
  BY <1>6, <1>7

\* The event class joins the stream, with the id that is next.
LEMMA AddEventClassInv ==
  ASSUME IInv, AddEventClass
  PROVE  IInv'
<1> DEFINE new == [sec |-> secNum, id |-> epid, fields |-> fields]
<1>1. /\ at = "action" /\ at' = "section" /\ idx >= Actsec.len
      /\ classes' = classes \cup {new}
      /\ epid' = epid + 1 /\ secNum' = secNum + 1
      /\ UNCHANGED <<dof, idx, rec, fields, written, result>>
  BY DEF AddEventClass
<1>2. /\ dof \in Seq(Section) /\ Len(dof) \in Nat /\ secNum \in 1..Len(dof)
      /\ epid \in Nat
  BY <1>1 DEF IInv, TypeOK
<1>3. result = "none" /\ written = {}
  BY <1>1 DEF IInv, TypeOK, DescribesAllOrNothing, OwnClasses
<1>4. /\ secNum \in EnabledEcbs(dof)
      /\ ProbeLoads(secNum) /\ ActionsLoad(secNum)
      /\ Own(dof, secNum, fields) = FieldsOver(dof, secNum, EntriesDone)
      /\ \A i \in EntriesDone : DifoLoads(Acts[i].difo)
  BY <1>1 DEF IInv, Converting
<1>5. /\ EntriesDone = Entries(dof, secNum) /\ Sized(secNum)
      /\ Acts = ActsecOf(dof, secNum).acts
  BY <1>1, ActionsDone DEF Acts, Actsec, Ecb, ActsecOf
<1>6. TypeOK'
  BY <1>1, <1>2, <1>3 DEF IInv, TypeOK
<1>7. /\ OwnClasses(dof, classes) = Description(dof, secNum)
      /\ epid = Cardinality(Below(dof, secNum)) + 1
  BY <1>1 DEF IInv, Converted, Below
<1>8. Converted'
  <2>1. /\ Description(dof, secNum + 1) = Description(dof, secNum) \cup {ClassOf(dof, secNum)}
        /\ Cardinality(Below(dof, secNum + 1)) = Cardinality(Below(dof, secNum)) + 1
        /\ EpidOf(dof, secNum) = Cardinality(Below(dof, secNum)) + 1
    BY <1>2, <1>4, SectionDescribed
  <2>2. OwnClass(dof, new) = ClassOf(dof, secNum)
    BY <1>4, <1>5, <1>7, <2>1 DEF ClassOf, OwnClass
  <2>3. OwnClasses(dof, classes') = OwnClasses(dof, classes) \cup {OwnClass(dof, new)}
    BY <1>1, OwnClassesUnion
  <2>4. /\ OwnClasses(dof', classes') = Description(dof', secNum')
        /\ epid' = Cardinality(Below(dof', secNum')) + 1
    BY <1>1, <1>7, <2>1, <2>2, <2>3
  <2>5. QED
    BY <1>1, <2>4 DEF Converted, Below
<1>9. IdsIncrease'
  <2>1. /\ {c.id : c \in classes'} = 0..epid
        /\ \A a, b \in classes' : a.sec < b.sec <=> a.id < b.id
    <3>1. /\ \A c \in classes : c.sec \in 0..(secNum - 1)
          /\ Ids(classes) = 0..(epid - 1) /\ Increasing(classes)
      BY DEF IInv, IdsIncrease, Ids, Increasing
    <3>2. secNum \in Nat /\ epid \in Nat /\ new.sec = secNum /\ new.id = epid
      BY <1>2
    <3> HIDE DEF new
    <3>3. Ids(classes \cup {new}) = 0..epid /\ Increasing(classes \cup {new})
      BY ONLY <3>1, <3>2, NextId
    <3>4. QED
      BY <1>1, <3>3 DEF Ids, Increasing
  <2>2. epid' - 1 = epid
    BY <1>1, <1>2
  <2>3. QED
    BY <2>1, <2>2 DEF IdsIncrease
<1>10. (\A c \in classes : c.sec \in 0..(secNum - 1))'
  BY <1>1, <1>2 DEF IInv
<1>11. (\A k \in 1..(secNum - 1) : dof[k].type = "ecb" => EcbLoads(k) /\ Sized(k))'
  <2>1. EcbLoads(secNum)
    BY <1>4, <1>5 DEF EcbLoads
  <2>2. \A k \in 1..secNum : dof[k].type = "ecb" => EcbLoads(k) /\ Sized(k)
    BY <1>2, <1>5, <2>1 DEF IInv
  <2>3. QED
    BY <1>1, <1>2, <2>2, SameDof
<1>12. Converting' /\ DescribesAllOrNothing'
  BY <1>1, <1>3 DEF Converting, DescribesAllOrNothing, OwnClasses
<1>13. QED
  BY <1>1, <1>3, <1>6, <1>8, <1>9, <1>10, <1>11, <1>12 DEF IInv

\* The whole description is written.
LEMMA WriteInv ==
  ASSUME IInv, Write
  PROVE  IInv'
<1>1. /\ at = "section" /\ at' = "done" /\ secNum > Len(dof)
      /\ written' = classes /\ result' = "true"
      /\ UNCHANGED <<dof, secNum, idx, rec, epid, fields, classes>>
  BY DEF Write
<1>2. dof \in Seq(Section) /\ Len(dof) \in Nat /\ secNum = Len(dof) + 1
  BY <1>1 DEF IInv, TypeOK
<1>3. TypeOK'
  BY <1>1 DEF IInv, TypeOK
<1>4. /\ OwnClasses(dof, classes) = Description(dof, secNum)
      /\ epid = Cardinality({k \in EnabledEcbs(dof) : k < secNum}) + 1
  BY <1>1 DEF IInv, Converted
<1>5. Converted' /\ Converting'
  BY <1>1, <1>4 DEF Converted, Converting
<1>6. DescribesAllOrNothing' /\ IdsIncrease'
  BY <1>1, <1>2, <1>4 DEF IInv, DescribesAllOrNothing, IdsIncrease
<1>7. (\A k \in 1..(secNum - 1) : dof[k].type = "ecb" => EcbLoads(k) /\ Sized(k))'
  BY <1>1, SameDof DEF IInv
<1>8. QED
  BY <1>1, <1>2, <1>3, <1>5, <1>6, <1>7 DEF IInv

\* The process dies while it goes through actions.
LEMMA CrashInv ==
  ASSUME IInv, InActions, Crash
  PROVE  IInv'
<1>1. at = "action" /\ result = "none" /\ written = {}
  BY DEF InActions, IInv, TypeOK, DescribesAllOrNothing, OwnClasses
<1>2. TypeOK'
  BY <1>1 DEF Crash, IInv, TypeOK
<1>3. Converted' /\ Converting'
  BY <1>1 DEF Crash, IInv, Converted, Converting
<1>4. DescribesAllOrNothing' /\ IdsIncrease'
  BY <1>1 DEF Crash, IInv, DescribesAllOrNothing, IdsIncrease
<1>5. (\A k \in 1..(secNum - 1) : dof[k].type = "ecb" => EcbLoads(k) /\ Sized(k))'
  BY SameDof DEF Crash, IInv
<1>6. QED
  BY <1>1, <1>2, <1>3, <1>4, <1>5 DEF Crash, IInv

\* A DIFO without one of its sections is taken for loaded, or the process dies.
LEMMA LosesLinkInv ==
  ASSUME IInv, LoadActionLosesLink
  PROVE  IInv'
<1>1. PICK act \in Actdesc : LinkLost(act.difo) /\ (AddField(act) \/ Crash)
  BY DEF LoadActionLosesLink
<1>2. InActions
  BY DEF LoadActionLosesLink
<1>3. DifoLoads(act.difo)
  <2>1. dof \in Seq(Section)
    BY DEF IInv, TypeOK
  <2>2. ASSUME Loads(act.difo)
        PROVE  dof[act.difo].links \in Seq(Nat)
    <3>1. dof[act.difo] \in Section
      BY <2>1, <2>2 DEF Loads
    <3>2. QED
      BY <3>1 DEF Section
  <2>3. QED
    BY <1>1, <2>2, LostLoads
<1>4. QED
  BY <1>1, <1>2, <1>3, AddFieldInv, CrashInv

LEMMA NextInv ==
  ASSUME IInv, [Next]_vars
  PROVE  IInv'
<1>1. CASE Setup
  BY <1>1, SetupInv
<1>2. CASE HeaderFails \/ WriterFails
  BY <1>2, FailInv DEF HeaderFails, WriterFails
<1>3. CASE SkipSection \/ SkipEcb
  BY <1>3, SkipInv
<1>4. CASE LoadEcb
  BY <1>4, LoadEcbInv
<1>5. CASE LoadEcbFails
  BY <1>5, FailInv DEF LoadEcbFails, InSection
<1>6. CASE LoadAction
  <2>1. PICK act \in Actdesc : DifoLoads(act.difo) /\ AddField(act)
    BY <1>6 DEF LoadAction
  <2>2. QED
    BY <1>6, <2>1, AddFieldInv DEF LoadAction
<1>7. CASE LoadActionFails
  BY <1>7, FailInv DEF LoadActionFails, InActions
<1>8. CASE LoadActionLosesLink \/ ReadBehind
  BY <1>8, LosesLinkInv, CrashInv DEF ReadBehind
<1>9. CASE AddEventClass
  BY <1>9, AddEventClassInv
<1>10. CASE Write
  BY <1>10, WriteInv
<1>11. CASE UNCHANGED vars
  <2>1. UNCHANGED <<dof, at, secNum, idx, rec, epid, fields, classes, written, result>>
    BY <1>11 DEF vars
  <2>2. TypeOK' /\ Converted' /\ IdsIncrease' /\ DescribesAllOrNothing'
    BY <2>1 DEF IInv, TypeOK, Converted, IdsIncrease, DescribesAllOrNothing
  <2>3. Converting'
    BY <2>1, SameDof DEF IInv, Converting, Acts, Actsec, Ecb, EntriesDone
  <2>4. (\A k \in 1..(secNum - 1) : dof[k].type = "ecb" => EcbLoads(k) /\ Sized(k))'
    BY <2>1, SameDof DEF IInv
  <2>5. QED
    BY <2>1, <2>2, <2>3, <2>4 DEF IInv
<1>12. QED
  BY <1>1, <1>2, <1>3, <1>4, <1>5, <1>6, <1>7, <1>8, <1>9, <1>10, <1>11 DEF Next, Step

\* What has been converted so far is described so far, with its ids in order
\* and all it needed loaded (the loops of dof2ctf()).
THEOREM Invariance == Spec => []IInv
<1>1. Init => IInv
  BY InitInv
<1>2. IInv /\ [Next]_vars => IInv'
  BY NextInv
<1>3. QED
  BY <1>1, <1>2, PTL DEF Spec

\* Types.
THEOREM TypeCorrect == Spec => []TypeOK
<1>1. IInv => TypeOK
  BY DEF IInv
<1>2. QED
  BY <1>1, Invariance, PTL

\* fp receives the description of every ECB with actions, or nothing: for
\* every DOF, wherever it is cut off and whichever call of the writer fails.
THEOREM AllOrNothing == Spec => []DescribesAllOrNothing
<1>1. IInv => DescribesAllOrNothing
  BY DEF IInv
<1>2. QED
  BY <1>1, Invariance, PTL

\* The ids of the event classes are 0, 1, 2, ... in the order of the sections.
THEOREM DenseIds == Spec => []IdsIncrease
<1>1. IInv => IdsIncrease
  BY DEF IInv
<1>2. QED
  BY <1>1, Invariance, PTL

\* A DOF is described only if all that its ECBs need could be loaded.
THEOREM CutOffRefused == Spec => []CutOffIsRefused
<1>1. IInv => CutOffIsRefused
  <2>1. SUFFICES ASSUME IInv, result = "true", NEW k \in 1..Len(dof), dof[k].type = "ecb"
                 PROVE  EcbLoads(k)
    BY DEF CutOffIsRefused
  <2>2. secNum - 1 = Len(dof)
    BY <2>1 DEF IInv, TypeOK
  <2>3. QED
    BY <2>1, <2>2 DEF IInv
<1>2. QED
  BY <1>1, Invariance, PTL

\* A DOF whose actions have no size is never described (the loop of dof2ctf.c:511).
THEOREM UnsizedRefused == Spec => []OnlySizedIsDescribed
<1>1. IInv => OnlySizedIsDescribed
  <2>1. SUFFICES ASSUME IInv, result = "true", NEW k \in 1..Len(dof)
                 PROVE  Sized(k)
    BY DEF OnlySizedIsDescribed
  <2>2. secNum - 1 = Len(dof)
    BY <2>1 DEF IInv, TypeOK
  <2>3. CASE dof[k].type = "ecb"
    BY <2>1, <2>2, <2>3 DEF IInv
  <2>4. CASE dof[k].type # "ecb"
    BY <2>4 DEF Sized, EnabledEcbs
  <2>5. QED
    BY <2>3, <2>4
<1>2. QED
  BY <1>1, Invariance, PTL
=============================================================================
