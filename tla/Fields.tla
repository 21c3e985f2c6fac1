------------------------------- MODULE Fields -------------------------------
(***************************************************************************)
(* The fields of the CTF writer (ctf-writer/fields.c, fields.h): the trees *)
(* of values that a client fills and that a flush writes.                  *)
(*                                                                         *)
(* A field is a function from the places of its tree to what is there.  A  *)
(* place is the sequence of the numbers of the parts that lead to it: the  *)
(* members of a structure, the choices of a variant, the elements of an    *)
(* array or of a sequence, the container of an enumeration.  The field     *)
(* itself is at <<>>; no field is the function without a place.            *)
(*                                                                         *)
(* A type is described by Shape:                                           *)
(*    class    which of the eight kinds it is                              *)
(*    bits     the size of an integer, a float or a string                 *)
(*    clocked  an integer that is mapped to the clock class                *)
(*    names    the names of a structure's members                          *)
(*    members  the types of the parts that a new field has                 *)
(*    element  the type of a sequence's elements                           *)
(*                                                                         *)
(* The code is built in one of two ways.  With BT_DEV_MODE a field knows   *)
(* whether it has been set, and can be frozen; without it these functions  *)
(* are empty macros (fields.h:273-285).  "dev" says which build it is.     *)
(*                                                                         *)
(* The tag field that a variant holds is the member that the client gave   *)
(* to get_field(); what matters of it here is whether it is set, and that  *)
(* is "set" of the variant.                                                *)
(***************************************************************************)
EXTENDS Integers, Sequences, SequencesExt

CONSTANTS
    Shape,        \* the description of every type
    Order,        \* every place that a part can have, in the order of writing
    WordBits      \* the number of bits of a uint64_t

Word == 2 ^ WordBits
Sizes == 0..WordBits
Places == {Order[i] : i \in DOMAIN Order}

AnyType == DOMAIN Shape \cup {"none"}

(* The type of the part at p of a new field of type t. *)
TypeAt(t, p) ==
    LET type[k \in 0..Len(p)] ==
            IF k = 0 THEN t
            ELSE IF type[k - 1] \in DOMAIN Shape /\ p[k] \in DOMAIN Shape[type[k - 1]].members
                 THEN Shape[type[k - 1]].members[p[k]]
                 ELSE "none"
    IN type[Len(p)]

(* The parts of a part come after it, before those of the next. *)
Before(p, q) ==
    \/ IsStrictPrefix(p, q)
    \/ \E k \in DOMAIN p \cap DOMAIN q : p[k] < q[k] /\ \A j \in 1..(k - 1) : p[j] = q[j]

ShapeAssumption ==
    /\ "none" \notin DOMAIN Shape
    /\ \A t \in DOMAIN Shape :
        /\ Shape[t].bits \in Sizes
        /\ Shape[t].members \in Seq(DOMAIN Shape)
        /\ DOMAIN Shape[t].names \subseteq DOMAIN Shape[t].members

OrderAssumption ==
    /\ Order \in Seq(Seq(Nat \ {0}))
    /\ \A i, j \in DOMAIN Order : i < j => Before(Order[i], Order[j])
    /\ <<>> \in Places
    /\ \A t \in DOMAIN Shape : \A p \in Places :
           TypeAt(t, p) \in DOMAIN Shape =>
               \A i \in DOMAIN Shape[TypeAt(t, p)].members : Append(p, i) \in Places

ASSUME FieldsAssumption ==
    /\ WordBits \in Nat \ {0}
    /\ \A n \in Sizes : 2 ^ n \in Nat \ {0}
    /\ Word > 1
    /\ ShapeAssumption
    /\ OrderAssumption

-----------------------------------------------------------------------------
(***************************************************************************)
(* Fields and their parts.                                                 *)
(***************************************************************************)

New(t) ==
    [type |-> t, set |-> FALSE, value |-> 0, length |-> 0, current |-> 0, frozen |-> FALSE]

Part == [type : DOMAIN Shape, set : BOOLEAN, value : Nat, length : Nat, current : Nat,
         frozen : BOOLEAN]

(* A new field; none if there is no type. *)
Create(t) ==
    [p \in {q \in Places : TypeAt(t, q) \in DOMAIN Shape} |-> New(TypeAt(t, p))]

IsField(f) == <<>> \in DOMAIN f

IsTree(f) == DOMAIN f \subseteq Places /\ f \in [DOMAIN f -> Part]

ClassAt(f, p) == Shape[f[p].type].class
BitsAt(f, p) == Shape[f[p].type].bits

Scalars == {"integer", "float", "string"}

(* The parts that p is in. *)
Above(f, p) == {SubSeq(p, 1, n) : n \in 0..(Len(p) - 1)} \cap DOMAIN f

(* Every variant that p is in has the choice that leads to p. *)
Chosen(f, p) ==
    \A q \in Above(f, p) : ClassAt(f, q) = "variant" => f[q].current = p[Len(q) + 1]

(* Every sequence that p is in is long enough. *)
Inside(f, p) ==
    \A q \in Above(f, p) : ClassAt(f, q) = "sequence" => p[Len(q) + 1] <= f[q].length

(* No variant and no length leaves p out. *)
Sure(f, p) == Inside(f, p) /\ \A q \in Above(f, p) : ClassAt(f, q) # "variant"

(* The parts that a client can hold: those of a variant only exist for it  *)
(* when it has made a choice.                                              *)
Reached(f) ==
    {p \in DOMAIN f : \A q \in Above(f, p) : ClassAt(f, q) = "variant" => f[q].current # 0}

-----------------------------------------------------------------------------
(***************************************************************************)
(* Lookup and the setters.                                                 *)
(***************************************************************************)

NamesOf(f) == Shape[f[<<>>].type].names

(* get_field_by_name: the place of a member (field_name_to_index). *)
HasMember(f, name) == IsField(f) /\ \E i \in DOMAIN NamesOf(f) : NamesOf(f)[i] = name
Place(f, name) == <<CHOOSE i \in DOMAIN NamesOf(f) : NamesOf(f)[i] = name>>
Member(f, name) == f[Place(f, name)]

(* integer_set_value and its siblings; without BT_DEV_MODE the flag stays. *)
Given(dev, part, v) == [part EXCEPT !.value = v, !.set = dev]

GiveMember(dev, f, name, v) ==
    IF HasMember(f, name) THEN [f EXCEPT ![Place(f, name)] = Given(dev, @, v)] ELSE f

(* The type of a member can hold a value. *)
Holds(f, name, v) == HasMember(f, name) => v < 2 ^ BitsAt(f, Place(f, name))

(* variant_get_field, for a tag that selects the choice number c. *)
WithChoice(dev, part, c) == [part EXCEPT !.current = c, !.set = dev]

(* New fields of type t are the parts of p with these numbers. *)
Planted(f, p, numbers, t) ==
    LET planted == {q \in Places : IsStrictPrefix(p, q) /\ q[Len(p) + 1] \in numbers}
        TypeIn(q) == TypeAt(t, SubSeq(q, Len(p) + 2, Len(q)))
        places == (DOMAIN f \ planted) \cup {q \in planted : TypeIn(q) \in DOMAIN Shape}
    IN [q \in places |-> IF q \in planted THEN New(TypeIn(q)) ELSE f[q]]

(* The places of a sequence's elements up to number n. *)
ElementPlaces(f, p, n) ==
    {p \o <<i>> \o q : i \in 1..n, q \in DOMAIN Create(Shape[f[p].type].element)}

(* sequence_set_length: the elements only ever become more. *)
WithLength(f, p, n) ==
    Planted([f EXCEPT ![p].length = n], p, {i \in 1..n : Append(p, i) \notin DOMAIN f},
            Shape[f[p].type].element)

-----------------------------------------------------------------------------
(***************************************************************************)
(* The recursive methods of the eight classes.                             *)
(***************************************************************************)

(* validate_recursive *)
IsValid(f) ==
    \A p \in {q \in DOMAIN f : Chosen(f, q)} :
        /\ ClassAt(f, p) \in Scalars => f[p].set
        /\ ClassAt(f, p) = "variant" => f[p].set /\ f[p].current # 0

(* Mutant of Freeze: the parts are left as they are. *)
FreezeShallow(f) == [p \in DOMAIN f |-> [f[p] EXCEPT !.frozen = @ \/ p = <<>>]]

(* set_is_frozen_recursive: of a sequence, the elements within its length. *)
Freeze(f) == [p \in DOMAIN f |-> [f[p] EXCEPT !.frozen = @ \/ Inside(f, p)]]

(* The clock values of a field can be visited: within the lengths, every   *)
(* variant that is met has a choice.  It can be serialized: all have one.  *)
CanBeVisited(f) ==
    \A p \in DOMAIN f :
        ClassAt(f, p) = "variant" /\ Chosen(f, p) /\ Inside(f, p) => f[p].current # 0

CanBeSerialized(f) ==
    \A p \in DOMAIN f : ClassAt(f, p) = "variant" /\ Chosen(f, p) => f[p].current # 0

-----------------------------------------------------------------------------
(***************************************************************************)
(* Serialization.  "w" is how far the packet is written: its bits, the     *)
(* number of calls to the serializer, the calls that fail, whether one has *)
(* failed, and the code that is returned.                                  *)
(***************************************************************************)
Nothing(fails) == [bits |-> 0, calls |-> 0, fails |-> fails, failed |-> FALSE, ok |-> TRUE]

(* One call of the serializer, which writes b bits if it does not fail. *)
Call(w, b) ==
    LET fails == w.calls + 1 \in w.fails
    IN [bits |-> IF fails THEN w.bits ELSE w.bits + b, calls |-> w.calls + 1, fails |-> w.fails,
        failed |-> w.failed \/ fails, ok |-> ~fails]

(* What the serializer of one part calls itself: a structure aligns.       *)
WrittenPart(f, p, w) ==
    CASE ClassAt(f, p) \in Scalars -> Call(w, BitsAt(f, p))
      [] ClassAt(f, p) = "structure" -> Call(w, 0)
      [] OTHER -> w

(* serialize_recursive: the parts in their order.  The loop of a structure *)
(* is left at the first member that fails, and then gives the result of a  *)
(* lookup, 0, in the place of the failure: what follows the structure is   *)
(* written ("left": the structure whose loop was left last).  Outside of a *)
(* structure a failure ends it all.                                        *)
Serialize(f, w) ==
    LET Loops(p) == {q \in Above(f, p) : ClassAt(f, q) = "structure"}
        Innermost(qs) == {q \in qs : \A r \in qs : Len(r) <= Len(q)}
        Skips(done, p) ==
            \/ p \notin DOMAIN f \/ ~Chosen(f, p)
            \/ ~done.w.ok
            \/ \E q \in done.left : IsStrictPrefix(q, p)
        Step(done, p, v) ==
            IF v.ok THEN [done EXCEPT !.w = v]
            ELSE [w |-> [v EXCEPT !.ok = Loops(p) # {}], left |-> Innermost(Loops(p))]
        after[k \in 0..Len(Order)] ==
            IF k = 0 THEN [w |-> w, left |-> {}]
            ELSE LET done == after[k - 1]
                     p == Order[k]
                 IN IF Skips(done, p) THEN done ELSE Step(done, p, WrittenPart(f, p, done.w))
    IN after[Len(Order)].w

-----------------------------------------------------------------------------
(***************************************************************************)
(* The clock values of a field (stream.c).                                 *)
(***************************************************************************)

(* Bitwise or, of two numbers of at most WordBits bits. *)
Or(a, b) ==
    LET Bit(n, k) == (n \div 2 ^ k) % 2
        or[k \in Sizes] ==
            IF k = 0 THEN 0
            ELSE or[k - 1] + (IF Bit(a, k - 1) = 1 \/ Bit(b, k - 1) = 1 THEN 2 ^ (k - 1) ELSE 0)
    IN or[WordBits]

(* Mutant of UpdatedClock: nothing is carried. *)
UpdatedClockLow(val, new, bits) ==
    LET pow2 == 2 ^ bits
    IN IF bits = WordBits THEN new ELSE pow2 * Or(val \div pow2, new \div pow2) + (new % pow2)

(* update_clock_value: the low bits give way to the new value.  When that  *)
(* is less than they were the next bit is or-ed in, so nothing is added    *)
(* where it was set already.                                               *)
UpdatedClock(val, new, bits) ==
    LET pow2 == 2 ^ bits
        carry == IF new < val % pow2 THEN 1 ELSE 0
    IN IF bits = WordBits THEN new
       ELSE pow2 * Or(val \div pow2, Or(new \div pow2, carry)) + (new % pow2)

(* The clock values of a field in these places, in the order in which they *)
(* are visited.                                                            *)
Stamps(f, places) ==
    LET Stamp(p) ==
            IF /\ p \in DOMAIN f \cap places
               /\ ClassAt(f, p) = "integer" /\ Shape[f[p].type].clocked
               /\ Chosen(f, p) /\ Inside(f, p)
            THEN <<[bits |-> BitsAt(f, p), value |-> f[p].value]>> ELSE <<>>
    IN FlattenSeq([i \in DOMAIN Order |-> Stamp(Order[i])])

(* Mutant of VisitedClock: only the first clock value is visited. *)
VisitedOnce(val, stamps) ==
    IF stamps = <<>> THEN val ELSE UpdatedClock(val, Head(stamps).value, Head(stamps).bits)

(* visit_field_update_clock_value *)
VisitedClock(val, stamps) ==
    LET clock[k \in 0..Len(stamps)] ==
            IF k = 0 THEN val ELSE UpdatedClock(clock[k - 1], stamps[k].value, stamps[k].bits)
    IN clock[Len(stamps)]
=============================================================================
