---------------------------- MODULE FieldTypes -----------------------------
(***************************************************************************)
(* The field types of the CTF writer (field-types.c): what a field looks   *)
(* like in the trace.  A field type refers to others, which it may share   *)
(* with other field types and which its creator may still hold and change: *)
(* a structure has fields, a variant choices and a tag, an enumeration an  *)
(* integer as its container, an array and a sequence an element.           *)
(*                                                                         *)
(* A call that fails changes nothing and is left out.  Sizes, bases,       *)
(* encodings, digits, lengths and the names of lengths are one value,      *)
(* "data", which belongs to the field type's kind.                         *)
(***************************************************************************)
EXTENDS Integers, Sequences, FiniteSets, SequencesExt, FiniteSetsExt

CONSTANTS Starts,      \* the field types a client may have built, none frozen yet
          MaxCalls,    \* the bound on the calls that follow
          MaxTypes,    \* the bound on the field types
          MaxKids,     \* the bound on the fields of one and on the mappings
          Names,       \* names of fields and labels of mappings
          Data,
          Unnamed,     \* the data of a variant whose tag has no name
          Alignments,  \* the alignments clients ask for
          ByteOrders,  \* BT_CTF_BYTE_ORDER_*, "native" among them
          Bits         \* the width of an enumeration's values

ASSUME FieldTypesAssumption ==
  /\ MaxTypes \in Nat /\ MaxKids \in Nat /\ Bits \in Nat \ {0}
  /\ Alignments \subseteq Nat /\ "native" \in ByteOrders
  /\ MaxCalls \in Nat /\ Unnamed \in Data

VARIABLES ft,      \* the field types, in the order they were created
          mapped,  \* those that were put in the place of a structure's member
          copied,  \* what the last call was, if it copied: <<original, copy>>
          calls    \* how many calls were made

vars == <<ft, mapped, copied, calls>>

None == 0
Types == DOMAIN ft

\* bt_ctf_field_type_id.
Kinds == {"integer", "float", "enum", "string", "struct", "variant", "array", "sequence"}

\* A value of Bits bits, unsigned, and the same bits as a signed value.
Values == 0..(2 ^ Bits - 1)
AsSigned(v) == IF v >= 2 ^ (Bits - 1) THEN v - 2 ^ Bits ELSE v
View(signed, v) == IF signed THEN AsSigned(v) ELSE v

Member == [name : Names \cup {""}, type : Nat]
Mapping == [label : Names, lo : Values, hi : Values]

\* struct bt_ctf_field_type_common and the structures that begin with it.
FieldType ==
  [kind : Kinds, kids : Seq(Member), tag : Nat, data : Data,
   align : Nat, order : ByteOrders \cup {"none"}, signed : BOOLEAN, clock : BOOLEAN,
   maps : Seq(Mapping), overlap : BOOLEAN,
   ranges : Seq(SUBSET (Nat \X Values \X Values)),  \* of a variant's choices
   fresh : BOOLEAN,    \* whether they were computed
   lender : Nat,       \* the variant in whose memory they may be, or None
   frozen : BOOLEAN, valid : BOOLEAN]

-----------------------------------------------------------------------------
(***************************************************************************)
(* What is reached from a field type.                                      *)
(***************************************************************************)

\* The least set with n that is closed under next, a function from types to
\* sets of types.
Hull(next, n) ==
  {m \in DOMAIN next : \A S \in SUBSET DOMAIN next :
                          (n \in S /\ \A k \in S : next[k] \subseteq S) => m \in S}

KidsOf(h, n) == {h[n].kids[i].type : i \in DOMAIN h[n].kids}
Refs(h, n) == KidsOf(h, n) \cup ({h[n].tag} \ {None})

Below(h, n) == Hull([m \in DOMAIN h |-> Refs(h, m)], n)
BelowFields(h, n) == Hull([m \in DOMAIN h |-> KidsOf(h, m)], n)

-----------------------------------------------------------------------------
(***************************************************************************)
(* Creation.                                                               *)
(***************************************************************************)

Blank ==
  [kind |-> "integer", kids |-> <<>>, tag |-> None, data |-> CHOOSE d \in Data : TRUE,
   align |-> 1, order |-> "none", signed |-> FALSE, clock |-> FALSE,
   maps |-> <<>>, overlap |-> FALSE, ranges |-> <<>>, fresh |-> FALSE, lender |-> None,
   frozen |-> FALSE, valid |-> FALSE]

Anonymous(n) == <<[name |-> "", type |-> n]>>

Create(t) ==
  /\ Len(ft) < MaxTypes
  /\ ft' = Append(ft, t)
  /\ copied' = <<>> /\ mapped' = mapped

CreateInteger == \E d \in Data : Create([Blank EXCEPT !.order = "native", !.data = d])
CreateFloat == Create([Blank EXCEPT !.kind = "float", !.order = "native"])
CreateString == Create([Blank EXCEPT !.kind = "string", !.align = 8])
CreateStructure == Create([Blank EXCEPT !.kind = "struct"])

CreateEnumeration ==
  \E n \in Types : /\ ft[n].kind = "integer"
                   /\ Create([Blank EXCEPT !.kind = "enum", !.kids = Anonymous(n)])

CreateArray ==
  \E n \in Types, d \in Data :
    Create([Blank EXCEPT !.kind = "array", !.kids = Anonymous(n), !.data = d])

CreateSequence ==
  \E n \in Types, d \in Data :
    Create([Blank EXCEPT !.kind = "sequence", !.kids = Anonymous(n), !.data = d])

\* A variant has a tag from the start or is given one when it is resolved; the
\* tag's name may be missing.
CreateVariant ==
  \E n \in Types \cup {None}, d \in Data :
    /\ n # None => ft[n].kind = "enum"
    /\ Create([Blank EXCEPT !.kind = "variant", !.tag = n, !.data = d, !.align = 0])

-----------------------------------------------------------------------------
(***************************************************************************)
(* The public setters: what is frozen is not changed.                      *)
(***************************************************************************)

Update(n, t) ==
  /\ ft' = [ft EXCEPT ![n] = t]
  /\ copied' = <<>> /\ mapped' = mapped

\* bt_ctf_field_type_common_integer_set_size(), _set_base(), _set_encoding().
SetIntegerData(n, d) ==
  /\ ft[n].kind = "integer" /\ ~ft[n].frozen
  /\ Update(n, [ft[n] EXCEPT !.data = d])

SetFloatData(n, d) ==
  /\ ft[n].kind = "float" /\ ~ft[n].frozen
  /\ Update(n, [ft[n] EXCEPT !.data = d])

\* The only public setter that does not look whether the type is frozen.
SetStringEncoding(n, d) ==
  /\ ft[n].kind = "string"
  /\ Update(n, [ft[n] EXCEPT !.data = d])

SetTagName(n, d) ==
  /\ ft[n].kind = "variant" /\ ~ft[n].frozen /\ d # Unnamed
  /\ Update(n, [ft[n] EXCEPT !.data = d])

SetSigned(n, s) ==
  /\ ft[n].kind = "integer" /\ ~ft[n].frozen
  /\ Update(n, [ft[n] EXCEPT !.signed = s])

SetMappedClockClass(n) ==
  /\ ft[n].kind = "integer" /\ ~ft[n].frozen
  /\ Update(n, [ft[n] EXCEPT !.clock = TRUE])

\* A mapping is appended and all are sorted by the ranges' starts, read as
\* signed or as unsigned values; the order of equal starts is up to the sort.
AddMapping(n, signed, l, lo, hi) ==
  LET all == Append(ft[n].maps, [label |-> l, lo |-> lo, hi |-> hi])
  IN /\ ft[n].kind = "enum" /\ ~ft[n].frozen
     /\ Len(all) <= MaxKids
     /\ View(signed, lo) <= View(signed, hi)
     /\ \E p \in Bijection(DOMAIN all, DOMAIN all) :
          /\ \A i \in DOMAIN all, j \in DOMAIN all :
               i < j => View(signed, all[p[i]].lo) <= View(signed, all[p[j]].lo)
          /\ Update(n, [ft[n] EXCEPT !.maps = [i \in DOMAIN all |-> all[p[i]]]])

\* add_structure_variant_member().  The clients build trees: what they add
\* does not contain what they add it to, which the code does not look for.
AddMember(n, name, m, t) ==
  /\ ~ft[n].frozen
  /\ n \notin Below(ft, m)
  /\ Len(ft[n].kids) < MaxKids
  /\ \A i \in DOMAIN ft[n].kids : ft[n].kids[i].name # name
  /\ Update(n, [t EXCEPT !.kids = Append(@, [name |-> name, type |-> m])])

AddField(n, name, m) == ft[n].kind = "struct" /\ AddMember(n, name, m, ft[n])

AddChoice(n, name, m) ==
  /\ ft[n].kind = "variant"
  /\ ft[n].tag # None => \E i \in DOMAIN ft[ft[n].tag].maps : ft[ft[n].tag].maps[i].label = name
  /\ AddMember(n, name, m, [ft[n] EXCEPT !.ranges = Append(@, {})])

\* Mutant of SetByteOrder: only the type that is asked is looked at.
SetByteOrderThrough(n, o) ==
  /\ ~ft[n].frozen
  /\ ft' = [m \in Types |->
              IF m \in BelowFields(ft, n) /\ ft[m].kind \in {"integer", "float"}
              THEN [ft[m] EXCEPT !.order = o] ELSE ft[m]]
  /\ copied' = <<>> /\ mapped' = mapped

\* Nothing is set in a type that is frozen, nor below one.
SetByteOrder(n, o) ==
  /\ ~ft[n].frozen
  /\ LET reached == Hull([m \in Types |-> IF ft[m].frozen THEN {} ELSE KidsOf(ft, m)], n)
     IN ft' = [m \in Types |->
                 IF m \in reached /\ ~ft[m].frozen /\ ft[m].kind \in {"integer", "float"}
                 THEN [ft[m] EXCEPT !.order = o] ELSE ft[m]]
  /\ copied' = <<>> /\ mapped' = mapped

-----------------------------------------------------------------------------
(***************************************************************************)
(* The setters the writer calls itself: they do not look whether the type  *)
(* is frozen.                                                              *)
(***************************************************************************)

\* bt_ctf_field_type_common_structure_replace_field(), when a stream class maps
\* the timestamps of a structure to its clock class: a copy with the clock
\* class is put in the place of an integer that has none.
MapClockClass(n, i) ==
  LET old == ft[n].kids[i].type
      new == Len(ft) + 1
  IN /\ Len(ft) < MaxTypes
     /\ ft[n].kind = "struct" /\ ft[old].kind = "integer" /\ ~ft[old].clock
     /\ ft' = Append([ft EXCEPT ![n].kids[i].type = new],
                     [ft[old] EXCEPT !.clock = TRUE, !.frozen = FALSE, !.valid = FALSE])
     /\ mapped' = mapped \cup {new}
     /\ copied' = <<>>

\* bt_ctf_field_type_common_variant_set_tag_field_type(), which resolving calls
\* on the copy that validation has made and frozen.  The tag comes before the
\* variant in the types of a class: it does not contain it.
SetTagFieldType(n, m) ==
  /\ ft[n].kind = "variant" /\ ft[n].frozen /\ ~ft[n].valid
  /\ ft[m].kind = "enum" /\ n \notin Below(ft, m)
  /\ Update(n, [ft[n] EXCEPT !.tag = m])

-----------------------------------------------------------------------------
(***************************************************************************)
(* Alignment: that of a structure is at least that of each of its fields,  *)
(* that of an array or a sequence is that of its element.                  *)
(***************************************************************************)

\* Where bt_ctf_field_type_common_get_alignment() goes on.
AlignsWith(h, m) ==
  IF ~h[m].frozen /\ h[m].kind \in {"struct", "array", "sequence"} THEN KidsOf(h, m) ELSE {}

AlignReach(h, n) == Hull([m \in DOMAIN h |-> AlignsWith(h, m)], n)

AlignmentOf(h, n) ==
  Max({0} \cup {h[m].align : m \in {k \in AlignReach(h, n) :
                                      h[k].frozen \/ h[k].kind \notin {"array", "sequence"}}})

\* Asking for an alignment stores that of every structure met.
GetAlignment(n) ==
  /\ ft' = [m \in Types |->
              IF m \in AlignReach(ft, n) /\ ~ft[m].frozen /\ ft[m].kind = "struct"
              THEN [ft[m] EXCEPT !.align = AlignmentOf(ft, m)] ELSE ft[m]]
  /\ copied' = <<>> /\ mapped' = mapped

IsPowerOfTwo(a) == \E e \in 0..a : a = 2 ^ e

SetAlignment(n, a) ==
  /\ ~ft[n].frozen
  /\ IsPowerOfTwo(a)
  /\ ft[n].kind \notin {"variant", "sequence", "array"}
  /\ ft[n].kind = "string" => a = 8
  /\ Update(n, [ft[n] EXCEPT !.align = a])

-----------------------------------------------------------------------------
(***************************************************************************)
(* Enumerations: two mappings overlap if they share a value.               *)
(***************************************************************************)

ContainerOf(h, n) == h[h[n].kids[1].type]

Overlaps(h, n) ==
  LET s == ContainerOf(h, n).signed
      maps == h[n].maps
  IN \E i \in DOMAIN maps, j \in DOMAIN maps :
       /\ i < j
       /\ View(s, maps[i].lo) <= View(s, maps[j].hi)
       /\ View(s, maps[i].hi) >= View(s, maps[j].lo)

\* bt_ctf_field_type_common_enumeration_has_overlapping_ranges(): computed
\* until it is frozen, and never reset.
HasOverlap(h, n) == h[n].overlap \/ (~h[n].frozen /\ Overlaps(h, n))

-----------------------------------------------------------------------------
(***************************************************************************)
(* Freezing.                                                               *)
(***************************************************************************)

\* Mutant of FreezeReach: what the type refers to is left as it is.
FreezeReachAlone(h, n) == {n}

\* The methods' freeze goes on to what the type refers to, but not to a
\* variant's tag, and stops where it meets a frozen type.
FreezeReach(h, n) ==
  Hull([m \in DOMAIN h |-> IF h[m].frozen THEN {} ELSE KidsOf(h, m)], n)

\* Mutant of FrozenForm: the alignment that the type was given is kept.
FrozenFormOwn(h, m) ==
  [h[m] EXCEPT !.frozen = TRUE, !.overlap = @ \/ (h[m].kind = "enum" /\ Overlaps(h, m))]

\* Before that a type keeps what depends on others.
FrozenForm(h, m) ==
  [h[m] EXCEPT !.frozen = TRUE,
               !.align = IF h[m].kind \in {"struct", "array", "sequence"}
                         THEN AlignmentOf(h, m) ELSE @,
               !.overlap = @ \/ (h[m].kind = "enum" /\ Overlaps(h, m))]

\* bt_ctf_field_type_common_freeze().
Freeze(n) ==
  /\ ~ft[n].frozen
  /\ ft' = [m \in Types |-> IF m \in FreezeReach(ft, n) /\ ~ft[m].frozen
                            THEN FrozenForm(ft, m) ELSE ft[m]]
  /\ copied' = <<>> /\ mapped' = mapped

-----------------------------------------------------------------------------
(***************************************************************************)
(* Validation of a field type by itself.                                   *)
(***************************************************************************)

IntegerIsValid(t) == ~(t.clock /\ t.signed)

EnumerationIsValid(h, n) == IntegerIsValid(ContainerOf(h, n)) /\ h[n].maps # <<>>

VariantIsValid(h, n) ==
  h[n].data # Unnamed /\ h[n].tag # None /\ ~HasOverlap(h, h[n].tag)

\* What the type's own validate method checks before it goes on to others.
IsSound(h, n) ==
  /\ h[n].kind = "integer" => IntegerIsValid(h[n])
  /\ h[n].kind = "enum" => EnumerationIsValid(h, n)
  /\ h[n].kind = "variant" => VariantIsValid(h, n)

\* The types it goes on to: the container was looked at already.
Validated(h, n) == IF h[n].kind = "enum" THEN {} ELSE KidsOf(h, n)

\* bt_ctf_field_type_common_validate() returns 0; what is marked is not looked
\* at again.
IsValid(h, n) ==
  \A m \in Hull([k \in DOMAIN h |-> IF h[k].valid THEN {} ELSE Validated(h, k)], n) :
    h[m].valid \/ IsSound(h, m)

\* The members that are visited: up to the first that is not valid.
Visits(h, m) ==
  IF h[m].valid \/ ~IsSound(h, m) \/ h[m].kind = "enum" THEN {}
  ELSE {h[m].kids[i].type : i \in {j \in DOMAIN h[m].kids :
                                     \A k \in 1..(j - 1) : IsValid(h, h[m].kids[k].type)}}

\* A frozen type that was found valid is marked.
Validate(n) ==
  LET visited == Hull([m \in Types |-> Visits(ft, m)], n)
      asked == {ft[m].tag : m \in {k \in visited : ft[k].kind = "variant" /\ ~ft[k].valid}}
  IN /\ ft' = [m \in Types |->
                 [ft[m] EXCEPT !.valid = @ \/ (m \in visited /\ ft[m].frozen /\ IsValid(ft, m)),
                               !.overlap = @ \/ (m \in asked /\ HasOverlap(ft, m))]]
     /\ copied' = <<>> /\ mapped' = mapped

-----------------------------------------------------------------------------
(***************************************************************************)
(* Variants: which choice a value of the tag selects.                      *)
(***************************************************************************)

\* The ranges of the mappings with this label, each with the mapping's place.
RangesOf(h, e, label) ==
  {<<i, h[e].maps[i].lo, h[e].maps[i].hi>> : i \in {j \in DOMAIN h[e].maps : h[e].maps[j].label = label}}

\* The variant in whose memory the ranges of m are.
Home(h, m) == IF h[m].lender = None THEN m ELSE h[m].lender

\* bt_ctf_field_type_common_variant_update_choices(), which computes the ranges
\* unless the type is frozen and they were computed before.  They are written
\* where others may have theirs: these find the new ones there, or the old ones
\* if the memory was moved.
FindChoice(n) ==
  LET found == [i \in DOMAIN ft[n].kids |-> RangesOf(ft, ft[n].tag, ft[n].kids[i].name)]
      sharing == {m \in Types \ {n} : ft[m].kind = "variant" /\ Home(ft, m) = Home(ft, n)}
  IN /\ ft[n].kind = "variant" /\ ft[n].tag # None
     /\ ~(ft[n].frozen /\ ft[n].fresh)
     /\ \E hit \in SUBSET sharing :
          ft' = [m \in Types |->
                   IF m = n THEN [ft[m] EXCEPT !.fresh = TRUE, !.ranges = found]
                   ELSE IF m \in hit
                   THEN [ft[m] EXCEPT !.ranges =
                           [i \in DOMAIN @ |-> IF @[i] = {} \/ i \notin DOMAIN found THEN @[i]
                                               ELSE found[i]]]
                   ELSE ft[m]]
     /\ copied' = <<>> /\ mapped' = mapped

-----------------------------------------------------------------------------
(***************************************************************************)
(* Comparison and copy.                                                    *)
(***************************************************************************)

\* The alignment matters for structures only.
SameNode(h, a, b) ==
  /\ \A f \in {"kind", "data", "order", "signed", "clock", "maps"} : h[a][f] = h[b][f]
  /\ h[a].kind = "struct" => AlignmentOf(h, a) = AlignmentOf(h, b)
  /\ (h[a].tag = None) <=> (h[b].tag = None)

SameKids(h, a, b) ==
  /\ Len(h[a].kids) = Len(h[b].kids)
  /\ \A i \in DOMAIN h[a].kids : h[a].kids[i].name = h[b].kids[i].name

\* bt_ctf_field_type_common_compare() returns 0.
Equal(h, a, b) ==
  LET eq[p \in (DOMAIN h) \X (DOMAIN h)] ==
        \/ p[1] = p[2]
        \/ /\ SameNode(h, p[1], p[2]) /\ SameKids(h, p[1], p[2])
           /\ \A i \in DOMAIN h[p[1]].kids : eq[<<h[p[1]].kids[i].type, h[p[2]].kids[i].type>>]
           /\ h[p[1]].tag # None => eq[<<h[p[1]].tag, h[p[2]].tag>>]
  IN eq[<<a, b>>]

\* The types that a copy of n has a copy of: its tag and its members.
Parts(h, n) == (IF h[n].tag = None THEN <<>> ELSE <<h[n].tag>>)
                 \o [i \in DOMAIN h[n].kids |-> h[n].kids[i].type]

\* What is copied for n, from the outside in, a part as often as it is referred
\* to.  The k-th queue ends with the parts of the first k types that are copied.
Queues(h, n) ==
  LET q[k \in 0..MaxTypes] ==
        IF k = 0 THEN <<n>>
        ELSE LET before == q[k - 1]
             IN IF k <= Len(before) THEN before \o Parts(h, before[k]) ELSE before
  IN q

\* Mutant of CopyOf: the copy of a variant shares the original's tag.
CopyOfWithTag(h, m, end) ==
  LET tags == IF h[m].tag = None THEN 0 ELSE 1
  IN [h[m] EXCEPT !.frozen = FALSE, !.valid = FALSE, !.overlap = FALSE,
                  !.kids = [i \in DOMAIN @ |-> [name |-> @[i].name, type |-> end + tags + i]],
                  !.lender = IF \E i \in DOMAIN h[m].ranges : h[m].ranges[i] # {}
                             THEN Home(h, m) ELSE None]

\* The copy of m: the copies of its parts come next after end.
CopyOf(h, m, end) ==
  LET tags == IF h[m].tag = None THEN 0 ELSE 1
  IN [h[m] EXCEPT !.frozen = FALSE, !.valid = FALSE, !.overlap = FALSE,
                  !.tag = IF @ = None THEN None ELSE end + 1,
                  !.kids = [i \in DOMAIN @ |-> [name |-> @[i].name, type |-> end + tags + i]],
                  !.lender = IF \E i \in DOMAIN h[m].ranges : h[m].ranges[i] # {}
                             THEN Home(h, m) ELSE None]

\* bt_ctf_field_type_copy().  The copy of a choice takes the header of the
\* original's ranges and so their memory; with two ranges what comes after the
\* headers is copied too, which has no effect here unless the program ends.
Copy(n) ==
  LET queues == Queues(ft, n)
      order == queues[MaxTypes]
      end(i) == Len(ft) + Len(queues[i - 1])
  IN /\ Len(ft) + Len(order) <= MaxTypes
     /\ ft' = ft \o [i \in DOMAIN order |-> CopyOf(ft, order[i], end(i))]
     /\ copied' = <<n, Len(ft) + 1>> /\ mapped' = mapped

-----------------------------------------------------------------------------
\* A client has built trees by the calls below and frozen nothing.
ASSUME StartsAssumption ==
  \A h \in Starts :
    /\ h \in Seq(FieldType) /\ Len(h) <= MaxTypes
    /\ \A n \in DOMAIN h :
         /\ Refs(h, n) \subseteq DOMAIN h
         /\ \A m \in Refs(h, n) : n \notin Below(h, m)
         /\ ~h[n].frozen /\ ~h[n].valid /\ h[n].lender = None
         /\ h[n].kind \in {"enum", "array", "sequence"} => Len(h[n].kids) = 1
         /\ h[n].kind = "enum" => ContainerOf(h, n).kind = "integer"

Init == ft \in Starts /\ mapped = {} /\ copied = <<>> /\ calls = 0

Creation ==
  \/ CreateInteger \/ CreateFloat \/ CreateString \/ CreateStructure
  \/ CreateEnumeration \/ CreateArray \/ CreateSequence \/ CreateVariant

Setter(n) ==
  \/ \E d \in Data : \/ SetIntegerData(n, d) \/ SetFloatData(n, d)
                     \/ SetStringEncoding(n, d) \/ SetTagName(n, d)
  \/ \E s \in BOOLEAN : SetSigned(n, s)
  \/ SetMappedClockClass(n)
  \/ \E s \in BOOLEAN, l \in Names, lo \in Values, hi \in Values : AddMapping(n, s, l, lo, hi)
  \/ \E name \in Names, m \in Types : AddField(n, name, m) \/ AddChoice(n, name, m)
  \/ \E o \in ByteOrders : SetByteOrder(n, o)
  \/ \E a \in Alignments : SetAlignment(n, a)

Next ==
  /\ calls < MaxCalls
  /\ calls' = calls + 1
  /\ \/ Creation
     \/ \E n \in Types : \/ Setter(n) \/ GetAlignment(n) \/ Freeze(n)
                         \/ Validate(n) \/ FindChoice(n) \/ Copy(n)
                         \/ \E i \in DOMAIN ft[n].kids : MapClockClass(n, i)
                         \/ \E m \in Types : SetTagFieldType(n, m)

Spec == Init /\ [][Next]_vars

-----------------------------------------------------------------------------
(***************************************************************************)
(* Properties.                                                             *)
(***************************************************************************)

\* Types are what they are declared as and refer to types that exist.
TypeOK ==
  /\ ft \in Seq(FieldType)
  /\ Len(ft) <= MaxTypes
  /\ \A n \in Types : Refs(ft, n) \subseteq Types
  /\ mapped \subseteq Types
  /\ copied \in {<<>>} \cup (Types \X Types)

\* What a type was given by its creator: all but the timestamps that a stream
\* class has put in the places of a structure's members.
Settled(h, n) == IF h[n].kind = "struct" THEN KidsOf(h, n) \ mapped ELSE KidsOf(h, n)

\* The fields, the choices, the element or the container of a frozen type are
\* frozen, whatever was shared or frozen first; a valid type is frozen and all
\* it validates is valid.  Only the timestamps that were mapped to a clock class
\* may be neither.
FlagsAreDeep ==
  \A n \in Types :
    /\ ft[n].frozen => \A m \in Settled(ft, n) : ft[m].frozen
    /\ ft[n].valid => ft[n].frozen /\ \A m \in Validated(ft, n) \cap Settled(ft, n) : ft[m].valid

\* field-types.h:99: "A valid field type is _always_ frozen.  All the nested
\* field types of a valid field type are also valid (and thus frozen)."  This is
\* false once a stream class has mapped the timestamps of a valid structure.
NestedAreValid ==
  \A n \in Types : ft[n].valid => ft[n].frozen /\ \A m \in KidsOf(ft, n) : ft[m].frozen

\* No call changes the layout that a frozen type describes, nor thaws it, by
\* whatever path it is reached, but for what the writer does itself: an integer
\* without a clock class may give way to a copy that has one and is otherwise
\* the same, and the tag of a variant that is not valid yet is resolved.  The
\* encoding of a string, which is no part of the layout, may change: its setter
\* does not look.
Layout(t) == [f \in {"kind", "align", "order", "signed", "clock", "maps"} |-> t[f]]

IsMapped(m, old) ==
  /\ m \in mapped' \ mapped
  /\ ft[old].kind = "integer" /\ ~ft[old].clock
  /\ ft'[m] = [ft[old] EXCEPT !.clock = TRUE, !.frozen = FALSE, !.valid = FALSE]

KeepsLayouts ==
  \A n \in Types : ft[n].frozen =>
    /\ ft'[n].frozen
    /\ Layout(ft'[n]) = Layout(ft[n])
    /\ ft[n].kind # "string" => ft'[n].data = ft[n].data
    /\ ft'[n].tag = ft[n].tag \/ (ft[n].kind = "variant" /\ ~ft[n].valid)
    /\ Len(ft'[n].kids) = Len(ft[n].kids)
    /\ \A i \in DOMAIN ft[n].kids :
         /\ ft'[n].kids[i].name = ft[n].kids[i].name
         /\ \/ ft'[n].kids[i].type = ft[n].kids[i].type
            \/ ft[n].kind = "struct" /\ IsMapped(ft'[n].kids[i].type, ft[n].kids[i].type)

FrozenUnchanged == [][KeepsLayouts]_vars

\* field-types.h:93: "A type can't be modified once it is added to an event".
\* This is false of the members and the tags that KeepsLayouts lets change.
FrozenIsFinal ==
  [][\A n \in Types : ft[n].frozen => ft'[n].kids = ft[n].kids /\ ft'[n].tag = ft[n].tag]_vars

\* What a frozen type has kept instead of computing it again is true: the
\* alignment covers that of every field it was given and is that of the element,
\* no overlap of mappings was missed, and what was marked valid still is.  A
\* variant is left out of the last: its tag is not frozen with it.
CachesAreTrue ==
  \A n \in Types : ft[n].frozen =>
    /\ ft[n].kind = "struct" => \A m \in Settled(ft, n) : ft[n].align >= AlignmentOf(ft, m)
    /\ ft[n].kind \in {"array", "sequence"} =>
         \A m \in KidsOf(ft, n) : ft[n].align = AlignmentOf(ft, m)
    /\ ft[n].kind = "enum" => (Overlaps(ft, n) => ft[n].overlap)
    /\ ft[n].valid /\ ft[n].kind # "variant" => IsSound(ft, n)

\* Whether the alignment of each structure below n covers its fields: a frozen
\* one does not look at a timestamp that was mapped later.
Covers(h, n) ==
  \A m \in Below(h, n) : h[m].kind = "struct" =>
    \A k \in KidsOf(h, m) : AlignmentOf(h, k) <= AlignmentOf(h, m)

\* A copy has no type in common with its original, with tags and shared members
\* too: all they share is the memory of choices' ranges.  It compares equal to
\* it, unless a mapped timestamp has outgrown the structure it is in.
CopyIsEqual ==
  copied # <<>> =>
    /\ Covers(ft, copied[1]) => Equal(ft, copied[1], copied[2])
    /\ Below(ft, copied[1]) \cap Below(ft, copied[2]) = {}

\* A call changes the ranges of one variant at most.  This is false: the copies
\* of choices share the memory of the originals' ranges.
RangesAreOwn ==
  [][\A m, n \in Types : ft'[m].ranges # ft[m].ranges /\ ft'[n].ranges # ft[n].ranges => m = n]_vars
-----------------------------------------------------------------------------
(***************************************************************************)
(* The inductive invariant: the caches are true because what a frozen type *)
(* is made of is frozen too, and these types have one part only.  A copy is *)
(* equal because no type contains itself.                                  *)
(***************************************************************************)
Arity ==
  \A n \in Types : ft[n].kind \in {"enum", "array", "sequence"} => Len(ft[n].kids) = 1

NoLoops == \A n \in Types : \A m \in Refs(ft, n) : n \notin Below(ft, m)

IInv == TypeOK /\ Arity /\ NoLoops /\ FlagsAreDeep /\ CachesAreTrue /\ CopyIsEqual
=============================================================================
