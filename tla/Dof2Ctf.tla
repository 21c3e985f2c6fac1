------------------------------ MODULE Dof2Ctf -------------------------------
(***************************************************************************)
(* dof2ctf(): the conversion of a DOF into the TSDL text of a CTF trace    *)
(* (dof2ctf.c, with the loads of dof.c).  Every enabling control block     *)
(* (ECB) with actions becomes an event class with an id and a field per    *)
(* traced record.                                                          *)
(*                                                                         *)
(* A DOF is a sequence of sections that refer to one another by number.  A *)
(* reference outside the sequence is a section whose header cannot be      *)
(* loaded; a section that is not ok is one whose data is cut off.  Names   *)
(* of probes are left out.  The loop over the actions of an ECB moves two  *)
(* things: an offset by the size of an entry the DOF itself states, which  *)
(* may be zero, and a pointer by the size of the structure.                *)
(***************************************************************************)
EXTENDS Integers, Sequences, FiniteSets

CONSTANTS Dofs,      \* the DOFs that may be converted
          Faults,    \* "header": the DOF's header may be invalid; "writer": a
                     \* call of the CTF writer may fail
          Strays,    \* the actions that memory behind a section may look like
          MaxStrays  \* bound: how many of them lie there before the process
                     \* dies of reading on

\* DOF_SECIDX_NONE.
NoSection == 0

Action == [kind : {"traced", "other"}, difo : Nat]

Section == [type : {"ecb", "probe", "strtab", "actions", "difo", "dif", "other"},
            ok : BOOLEAN,
            probe : Nat, strtab : Nat, actions : Nat,  \* references
            len : Nat, entry : Nat,    \* the size of the data and dofs_entsize
            acts : Seq(Action),        \* the data as actions
            size : Nat, links : Seq(Nat)]              \* of a DIFO header

\* sizeof(dof_actdesc_t), in units of half of it.
ActSize == 2

ASSUME DofsAssumption ==
  /\ Dofs \subseteq Seq(Section)
  /\ \A d \in Dofs : \A k \in DOMAIN d : Len(d[k].acts) = d[k].len \div ActSize
  /\ Faults \subseteq {"header", "writer"}
  /\ Strays \subseteq Action
  /\ MaxStrays \in Nat

VARIABLES
  dof,      \* the DOF that is converted
  at,       \* "setup", "section", "action", or where it ended: "done", "crashed"
  secNum,   \* sec_num
  idx,      \* idx, the offset the loop over the actions is at
  rec,      \* recn + 1, the number of the action actdesc points at
  epid,     \* the next event class's id
  fields,   \* the fields of event_class, which is not yet part of the stream
  classes,  \* the event classes of stream_class
  written,  \* what fp received: the event classes described
  result    \* "none", or the value dof2ctf() returned

vars == <<dof, at, secNum, idx, rec, epid, fields, classes, written, result>>

(***************************************************************************)
(* The parts of the DOF.                                                   *)
(***************************************************************************)

\* dof_load_sect(), then the load of the section's data.
Loads(n) == n \in 1..Len(dof) /\ dof[n].ok

\* The section sec_num is at, and the actions it refers to.
Ecb == dof[secNum]
Actsec == dof[Ecb.actions]
Acts == Actsec.acts

\* What actdesc points at: an action of the section, or what is behind it.
Actdesc ==
  IF rec <= Len(Acts) THEN {Acts[rec]}
  ELSE IF rec <= Len(Acts) + MaxStrays THEN Strays
  ELSE {}

\* The description of the probe of section k, and its names.
ProbeLoads(k) ==
  /\ dof[k].ok
  /\ Loads(dof[k].probe)
  /\ dof[dof[k].probe].type = "probe"
  /\ Loads(dof[dof[k].probe].strtab)

ActionsLoad(k) == dof[k].actions = NoSection \/ Loads(dof[k].actions)

\* dof_load_difohdr() goes through the sections of DIFO n in order.  The first
\* that does not load, the i-th, ends it: with -1 if its data is cut off, but
\* with 0 if its header is.
Lost(l) == l \notin 1..Len(dof)
CutOff(l) == ~Lost(l) /\ dof[l].type \in {"dif", "strtab"} /\ ~dof[l].ok

LinksLoad(n, i) == \A j \in 1..(i - 1) : ~Lost(dof[n].links[j]) /\ ~CutOff(dof[n].links[j])

DifoLoads(n) ==
  /\ Loads(n)
  /\ \A i \in DOMAIN dof[n].links : LinksLoad(n, i) => ~CutOff(dof[n].links[i])

LinkLost(n) ==
  /\ Loads(n)
  /\ \E i \in DOMAIN dof[n].links : Lost(dof[n].links[i]) /\ LinksLoad(n, i)

\* The fields of one action: none for a kind that is not handled, nor for a
\* record of no size.
Integers8 == {1, 2, 4, 8}

FieldsOf(d, a, i) ==
  IF a.kind = "traced" /\ d[a.difo].size # 0
  THEN {[rec |-> i - 1, size |-> d[a.difo].size,
         layout |-> IF d[a.difo].size \in Integers8 THEN "integer" ELSE "array"]}
  ELSE {}

\* The class of the padding of a trace buffer.
EpidNone == [sec |-> 0, id |-> 0, fields |-> {}]

(***************************************************************************)
(* The conversion.                                                         *)
(***************************************************************************)

Init ==
  /\ dof \in Dofs
  /\ at = "setup"
  /\ secNum = 1
  /\ idx = 0
  /\ rec = 1
  /\ epid = 0
  /\ fields = {}
  /\ classes = {}
  /\ written = {}
  /\ result = "none"

Fail ==
  /\ at' = "done"
  /\ result' = "false"
  /\ UNCHANGED <<dof, secNum, idx, rec, epid, fields, classes, written>>

\* The writer, its trace, clock, stream and event header are made, and EPIDNONE
\* is the stream's first event class.
Setup ==
  /\ at = "setup"
  /\ at' = "section"
  /\ classes' = {[sec |-> 0, id |-> epid, fields |-> {}]}
  /\ epid' = epid + 1
  /\ UNCHANGED <<dof, secNum, idx, rec, fields, written, result>>

\* The header is cut off or does not validate.
HeaderFails ==
  /\ at = "setup"
  /\ "header" \in Faults
  /\ Fail

\* A call of the writer fails, before or after sections were converted.
WriterFails ==
  /\ "writer" \in Faults
  /\ \/ at = "setup"
     \/ at = "section" /\ secNum <= Len(dof) /\ Ecb.type = "ecb" /\ ProbeLoads(secNum)
     \/ at = "action"
  /\ Fail

InSection == at = "section" /\ secNum <= Len(dof)

\* Sections other than ECBs are looked at when an ECB refers to them.
SkipSection ==
  /\ InSection
  /\ Ecb.type # "ecb"
  /\ secNum' = secNum + 1
  /\ UNCHANGED <<dof, at, idx, rec, epid, fields, classes, written, result>>

\* The event class of an ECB without actions is made and forgotten.
SkipEcb ==
  /\ InSection
  /\ Ecb.type = "ecb"
  /\ ProbeLoads(secNum)
  /\ Ecb.actions = NoSection
  /\ secNum' = secNum + 1
  /\ UNCHANGED <<dof, at, idx, rec, epid, fields, classes, written, result>>

LoadEcb ==
  /\ InSection
  /\ Ecb.type = "ecb"
  /\ ProbeLoads(secNum)
  /\ Ecb.actions # NoSection
  /\ ActionsLoad(secNum)
  /\ at' = "action"
  /\ idx' = 0
  /\ rec' = 1
  /\ fields' = {}
  /\ UNCHANGED <<dof, secNum, epid, classes, written, result>>

\* Mutant of LoadEcbFails: an ECB that cannot be loaded is passed over.
LoadEcbSkips ==
  /\ InSection
  /\ Ecb.type = "ecb"
  /\ ~ProbeLoads(secNum) \/ ~ActionsLoad(secNum)
  /\ secNum' = secNum + 1
  /\ UNCHANGED <<dof, at, idx, rec, epid, fields, classes, written, result>>

LoadEcbFails ==
  /\ InSection
  /\ Ecb.type = "ecb"
  /\ ~ProbeLoads(secNum) \/ ~ActionsLoad(secNum)
  /\ Fail

InActions == at = "action" /\ idx < Actsec.len

\* Mutant of AddField: a record of a kind that is not handled has no number.
AddFieldUncounted(act) ==
  /\ fields' = fields \cup FieldsOf(dof, act, Cardinality(fields) + 1)
  /\ idx' = idx + Actsec.entry
  /\ rec' = rec + 1
  /\ UNCHANGED <<dof, at, secNum, epid, classes, written, result>>

\* Mutant of AddField: the loop does not move on.
AddFieldStaying(act) ==
  /\ fields' = fields \cup FieldsOf(dof, act, rec)
  /\ UNCHANGED <<dof, at, secNum, idx, rec, epid, classes, written, result>>

\* Mutant of AddField: the offset follows the pointer, so that the loop ends.
AddFieldByPointer(act) ==
  /\ fields' = fields \cup FieldsOf(dof, act, rec)
  /\ idx' = idx + ActSize
  /\ rec' = rec + 1
  /\ UNCHANGED <<dof, at, secNum, epid, classes, written, result>>

\* The record is named by its number, and becomes a field if it has a size.  The
\* offset moves by the section's entry size, the pointer by one structure.
AddField(act) ==
  /\ fields' = fields \cup FieldsOf(dof, act, rec)
  /\ idx' = idx + Actsec.entry
  /\ rec' = rec + 1
  /\ UNCHANGED <<dof, at, secNum, epid, classes, written, result>>

LoadAction ==
  /\ InActions
  /\ \E act \in Actdesc :
       /\ DifoLoads(act.difo)
       /\ ~LinkLost(act.difo)
       /\ AddField(act)

LoadActionFails ==
  /\ InActions
  /\ \E act \in Actdesc : ~DifoLoads(act.difo)
  /\ Fail

Crash ==
  /\ at' = "crashed"
  /\ UNCHANGED <<dof, secNum, idx, rec, epid, fields, classes, written, result>>

\* A section of the DIFO cannot be found: its buffers are freed, the buffer of
\* the header twice, and yet the load succeeds.  The process dies of it, or it
\* goes on with the size it has read.
LoadActionLosesLink ==
  /\ InActions
  /\ \E act \in Actdesc :
       /\ LinkLost(act.difo)
       /\ AddField(act) \/ Crash

\* Entries smaller than the structure let actdesc leave the section before the
\* offset does: what it points at then may not be readable.
ReadBehind ==
  /\ InActions
  /\ rec > Len(Acts)
  /\ Crash

\* All actions are done: the class gets its id and joins the stream.
AddEventClass ==
  /\ at = "action"
  /\ idx >= Actsec.len
  /\ classes' = classes \cup {[sec |-> secNum, id |-> epid, fields |-> fields]}
  /\ epid' = epid + 1
  /\ at' = "section"
  /\ secNum' = secNum + 1
  /\ UNCHANGED <<dof, idx, rec, fields, written, result>>

\* All sections are done: the description is written to fp.
Write ==
  /\ at = "section"
  /\ secNum > Len(dof)
  /\ written' = classes
  /\ result' = "true"
  /\ at' = "done"
  /\ UNCHANGED <<dof, secNum, idx, rec, epid, fields, classes>>

Step ==
  \/ Setup \/ SkipSection \/ SkipEcb \/ LoadEcb \/ LoadEcbFails
  \/ LoadAction \/ LoadActionFails \/ LoadActionLosesLink \/ ReadBehind
  \/ AddEventClass \/ Write

Next == HeaderFails \/ WriterFails \/ Step

Spec == Init /\ [][Next]_vars

\* The conversion is a function call: it goes on until it returns.  Nothing is
\* assumed of failures.
FairSpec == Spec /\ WF_vars(Step)

(***************************************************************************)
(* Properties.                                                             *)
(***************************************************************************)

TypeOK ==
  /\ dof \in Seq(Section)
  /\ at \in {"setup", "section", "action", "done", "crashed"}
  /\ secNum \in 1..(Len(dof) + 1)
  /\ idx \in Nat
  /\ rec \in Nat \ {0}
  /\ epid \in Nat
  /\ at = "action" => secNum <= Len(dof)
  /\ result \in {"none", "true", "false"}
  /\ result # "none" <=> at = "done"

\* The ECBs that make an event class, and the actions of one: those the offset
\* has not passed, as far as they lie in the section.
EnabledEcbs(d) == {k \in DOMAIN d : d[k].type = "ecb" /\ d[k].actions # NoSection}

ActsecOf(d, k) == d[d[k].actions]

Passes(d, k, i) == (i - 1) * ActsecOf(d, k).entry < ActsecOf(d, k).len

Entries(d, k) == {i \in DOMAIN ActsecOf(d, k).acts : Passes(d, k, i)}

\* What dof2ctf() is to say of a DOF: a class for every ECB with actions, whose
\* id is its place among them, with the fields of its actions.
EpidOf(d, k) == Cardinality({j \in EnabledEcbs(d) : j <= k})

FieldsOver(d, k, I) == UNION {FieldsOf(d, ActsecOf(d, k).acts[i], i) : i \in I}

ClassOf(d, k) ==
  [sec |-> k, id |-> EpidOf(d, k), fields |-> FieldsOver(d, k, Entries(d, k))]

\* The description of the sections before the n-th.
Description(d, n) ==
  {EpidNone} \cup {ClassOf(d, k) : k \in {e \in EnabledEcbs(d) : e < n}}

\* What was made of the DOF itself: fields of what lies behind a section are
\* left out, as nothing can be said of them.
Own(d, k, fs) == {f \in fs : f.rec < Len(ActsecOf(d, k).acts)}

OwnClass(d, c) == [sec |-> c.sec, id |-> c.id, fields |-> Own(d, c.sec, c.fields)]

OwnClasses(d, C) == {OwnClass(d, c) : c \in C}

\* What reaches fp is all or nothing: every ECB with actions, in order, with
\* every record that has a size, or not one of them; whichever section, action
\* or call of the writer fails in between (dof2ctf.c:374, dof2ctf.c:675).
DescribesAllOrNothing ==
  OwnClasses(dof, written) =
    IF result = "true" THEN Description(dof, Len(dof) + 1) ELSE {}

\* Ids are given in the order of the sections, none twice and none left out,
\* at every moment of the conversion (dof2ctf.c:635).
IdsIncrease ==
  /\ {c.id : c \in classes} = 0..(epid - 1)
  /\ \A a, b \in classes : a.sec < b.sec <=> a.id < b.id

\* What has been converted so far is described so far: the invariant behind the
\* theorems of Dof2CtfProofs.
Converted ==
  \/ /\ at \in {"setup", "done"} /\ result # "true"
     /\ secNum = 1 /\ epid = 0 /\ classes = {}
  \/ /\ at # "setup"
     /\ OwnClasses(dof, classes) = Description(dof, secNum)
     /\ epid = Cardinality({k \in EnabledEcbs(dof) : k < secNum}) + 1

\* The actions of the ECB that were gone through.
EntriesDone == {i \in DOMAIN Acts : i < rec}

Converting ==
  at = "action" =>
    /\ secNum \in EnabledEcbs(dof)
    /\ ProbeLoads(secNum) /\ ActionsLoad(secNum)
    /\ idx = (rec - 1) * Actsec.entry
    /\ \A i \in 1..(rec - 1) : Passes(dof, secNum, i)
    /\ Own(dof, secNum, fields) = FieldsOver(dof, secNum, EntriesDone)
    /\ \A i \in EntriesDone : DifoLoads(Acts[i].difo)

\* The actions section of an ECB is empty, or says how large an entry is.
Sized(k) ==
  k \in EnabledEcbs(dof) => ActsecOf(dof, k).len = 0 \/ ActsecOf(dof, k).entry > 0

\* What the conversion of an ECB needs.
EcbLoads(k) ==
  /\ ProbeLoads(k)
  /\ ActionsLoad(k)
  /\ k \in EnabledEcbs(dof) =>
       \A i \in Entries(dof, k) : DifoLoads(ActsecOf(dof, k).acts[i].difo)

IInv ==
  /\ TypeOK
  /\ Converted
  /\ Converting
  /\ \A c \in classes : c.sec \in 0..(secNum - 1)
  /\ \A k \in 1..(secNum - 1) : dof[k].type = "ecb" => EcbLoads(k) /\ Sized(k)
  /\ IdsIncrease
  /\ result = "true" => secNum = Len(dof) + 1
  /\ DescribesAllOrNothing

\* A DOF that is cut off where an ECB needs it is refused, however late the
\* conversion finds out (dof2ctf.c:374).
CutOffIsRefused ==
  result = "true" => \A k \in 1..Len(dof) : dof[k].type = "ecb" => EcbLoads(k)

\* Actions without the size of an entry are never described: the loop over them
\* stays at its offset while actdesc leaves the section, and fails or dies at
\* what it reads there (dof2ctf.c:512).
OnlySizedIsDescribed == result = "true" => \A k \in 1..Len(dof) : Sized(k)

\* dof2ctf.c:375: "Any error in parsing the DOF result in failure to provide
\* the CTF metadata".
ErrorsFail ==
  result = "true" =>
    \A k \in EnabledEcbs(dof) :
      \A i \in Entries(dof, k) : ~LinkLost(ActsecOf(dof, k).acts[i].difo)

\* The ECBs of the DOF keep actdesc inside its section and lose no link.
StaysInside(d) ==
  \A k \in EnabledEcbs(d) :
    d[k].actions \in DOMAIN d =>
      /\ ~Passes(d, k, Len(ActsecOf(d, k).acts) + 1)
      /\ \A i \in Entries(d, k) : ~LinkLost(ActsecOf(d, k).acts[i].difo)

\* Every conversion comes to an end.  It returns, if entries are as large as the
\* DOF's sections need them to be; where an entry has no size the loop over the
\* actions does not advance (dof2ctf.c:511), and only a failing load of what
\* lies behind the section, or the death of the process, ends it.
Returns ==
  /\ <>(at \in {"done", "crashed"})
  /\ StaysInside(dof) => <>(at = "done")
=============================================================================
