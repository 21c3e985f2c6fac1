---------------------------- MODULE MCFieldTypes ----------------------------
(* FieldTypes for TLC: trees with shared members and a variant. *)
EXTENDS FieldTypes

Integer == [Blank EXCEPT !.order = "native"]
Struct(kids) == [Blank EXCEPT !.kind = "struct", !.kids = kids]
At(name, n) == [name |-> name, type |-> n]
Enum(n, maps) == [Blank EXCEPT !.kind = "enum", !.kids = Anonymous(n), !.maps = maps]
Variant(tag, kids) ==
  [Blank EXCEPT !.kind = "variant", !.tag = tag, !.kids = kids, !.align = 0, !.data = 1,
                !.ranges = [i \in DOMAIN kids |-> {}]]

\* A structure in an array, its integer also held by itself; two structures
\* that share a field; a variant whose tag's container is one of its choices,
\* before and after the range of that choice was computed.
Trees ==
  {<<Integer, Struct(<<At("a", 1)>>),
     [Blank EXCEPT !.kind = "array", !.kids = Anonymous(2)]>>,
   <<Integer, [Integer EXCEPT !.align = 2, !.clock = TRUE], Struct(<<At("a", 1), At("b", 2)>>),
     Struct(<<At("a", 3), At("b", 1)>>)>>,
   <<Integer, Enum(1, <<[label |-> "a", lo |-> 0, hi |-> 0]>>),
     Variant(2, <<At("a", 1)>>)>>,
   <<Integer, Enum(1, <<[label |-> "a", lo |-> 0, hi |-> 0]>>),
     [Variant(2, <<At("a", 1)>>) EXCEPT !.ranges = <<{<<1, 0, 0>>}>>, !.fresh = TRUE]>>}
=============================================================================
