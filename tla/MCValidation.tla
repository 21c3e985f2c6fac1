---------------------------- MODULE MCValidation ----------------------------
(* Validation for TLC: headers, contexts and payloads with every kind of path. *)
EXTENDS Validation

Leaf(id, kind, signed) == [id |-> id, kind |-> kind, kids |-> <<>>, signed |-> signed, sound |-> TRUE]
U(id) == Leaf(id, "integer", FALSE)
S(id) == Leaf(id, "integer", TRUE)
E(id) == Leaf(id, "enum", FALSE)
Unsound(id) == [S(id) EXCEPT !.sound = FALSE]

Kid(name, t) == [name |-> name, type |-> t]
Struct(id, kids) == [id |-> id, kind |-> "struct", kids |-> kids, signed |-> FALSE, sound |-> TRUE]
Array(id, t) == [Struct(id, <<Kid("", t)>>) EXCEPT !.kind = "array"]
Path(from, tokens) == [from |-> from, tokens |-> tokens]
Pathed(id, kind, p, kids) ==
  [id |-> id, kind |-> kind, path |-> p, kids |-> kids, signed |-> FALSE, sound |-> TRUE]
Seq2(id, p, t) == Pathed(id, "sequence", p, <<Kid("", t)>>)
Variant(id, p, kids) == Pathed(id, "variant", p, kids)

N == Path(Relative, <<"n">>)

Headers == {NoType, Struct("h", <<Kid("n", U("hn"))>>),
            Struct("h", <<Kid("n", U("hn")), Kid("x", Seq2("hx", N, U("hu")))>>),
            Struct("h", <<Kid("x", Seq2("hx", N, U("hu"))), Kid("n", U("hn"))>>)}

Contexts == {NoType, Struct("c", <<Kid("n", S("cn"))>>),
             Struct("c", <<Kid("n", E("cn")), Kid("v", Variant("cv", N, <<Kid("n", U("cu"))>>))>>)}

Paths == {N, Path(Relative, <<"in", "n">>), Path(Relative, <<"x">>), Path(1, <<"n">>),
          Path(4, <<"n">>), Path(6, <<"in", "n">>), Path(5, <<"n">>),
          Path(Env, <<"n">>), Path(Malformed, <<>>), Path(Relative, <<"a", "a", "b", "n">>)}

\* The field before or after, in a structure or an array around, one sequence
\* object in two places, an unsound field.
Payloads(p) ==
  LET seq == Seq2("q", p, U("u")) IN
  {Struct("r", <<Kid("n", U("rn")), Kid("x", seq)>>),
   Struct("r", <<Kid("x", seq), Kid("n", U("rn"))>>),
   Struct("r", <<Kid("in", Struct("i", <<Kid("n", U("in"))>>)), Kid("x", seq), Kid("z", Unsound("z"))>>),
   Struct("r", <<Kid("n", U("rn")), Kid("in", Struct("i", <<Kid("x", seq), Kid("n", U("in"))>>))>>),
   Struct("r", <<Kid("n", U("rn")),
                 Kid("a", Array("a", Struct("i", <<Kid("n", E("e")),
                    Kid("x", Variant("v", p, <<Kid("n", U("vn")), Kid("y", seq)>>))>>)))>>),
   Struct("r", <<Kid("n", U("rn")), Kid("x", seq),
                 Kid("in", Struct("i", <<Kid("n", U("in")), Kid("y", seq)>>))>>),
   Struct("r", <<Kid("a", Struct("a", <<Kid("a", Struct("aa",
                 <<Kid("a", Struct("aaa", <<Kid("b", Struct("aaab", <<Kid("n", U("m"))>>))>>)),
                   Kid("b", Struct("aab", <<Kid("n", U("n")), Kid("x", seq)>>))>>))>>))>>)}

AllLayouts ==
  {<<h, NoType, NoType, c, NoType, p>> : h \in Headers, c \in Contexts,
                                         p \in UNION {Payloads(x) : x \in Paths}}

\* add_stream_class() and add_event_class().
AllRequests ==
  {[asked |-> {"trace", "stream"}, known |-> {}],
   [asked |-> {"trace", "stream", "event"}, known |-> {"trace"}],
   [asked |-> {"event"}, known |-> {"trace", "stream"}]}
=============================================================================
