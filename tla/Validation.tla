----------------------------- MODULE Validation -----------------------------
(***************************************************************************)
(* How the CTF writer resolves and validates the field types of a trace, a *)
(* stream class and an event class (validation.c, resolve.c).  A sequence  *)
(* names the field that holds its length, a variant the field that selects *)
(* its choice; resolving finds that field, seen from where the sequence or *)
(* the variant lies.  What is resolved is a copy: the given types stay as  *)
(* they are until the classes take the copies over.                        *)
(*                                                                         *)
(* A field type is the tree below it, with an identity: two places of a    *)
(* tree may hold the same object.                                          *)
(***************************************************************************)
EXTENDS Integers, Sequences, FiniteSets, SequencesExt, FiniteSetsExt

CONSTANTS Layouts,  \* the types of the six scopes, as clients give them
          Requests, \* which classes to validate, which are known to be valid
          MaxDepth  \* the bound on the depth of a type

\* bt_ctf_scope: packet header, packet context, event header, stream event
\* context, event context, event payload.  Each belongs to a class.
Scopes == 1..6
ClassOf == <<"trace", "stream", "stream", "stream", "event", "event">>
Classes == {"trace", "stream", "event"}

\* A stream class is validated with its trace or for a trace that is valid, an
\* event class with or for both.
ASSUME ValidationAssumption ==
  /\ MaxDepth \in Nat
  /\ \A r \in Requests :
       /\ r.asked \subseteq Classes /\ r.known \subseteq Classes
       /\ \A s \in Scopes : \A e \in 1..s :
            ClassOf[s] \in r.asked => ClassOf[e] \in r.asked \cup r.known

NoType == [kind |-> "none"]

\* The index of the element of an array or a sequence, before all others, and
\* one after all others (INT_MAX).
Element == 0
Far == 1000

\* Where a path string starts: at the place itself, in a scope, in the
\* environment, or it has an empty token.
Relative == 0
Env == 7
Malformed == 8

VARIABLES
  given,   \* the types of the scopes that were given
  asked,   \* validate_flags
  known,   \* the classes whose types were resolved by an earlier call
  valid,   \* valid_flags of the output
  copies,  \* the scopes whose type in the output is a copy
  frozen,  \* the scopes whose type in the output is frozen
  path,    \* the paths set: a function from field type objects
  tag,     \* the tags set: a function from variants to field type objects
  at       \* the class that is validated next, "output", or "replaced"

vars == <<given, asked, known, valid, copies, frozen, path, tag, at>>

-----------------------------------------------------------------------------
(***************************************************************************)
(* Places: the indexes from a root to a type.                              *)
(***************************************************************************)

Compound == {"struct", "variant", "array", "sequence"}

ChildAt(t, i) == IF i = Element THEN t.kids[1].type ELSE t.kids[i].type

TypeAt(t, p) ==
  LET down[i \in 0..Len(p)] == IF i = 0 THEN t ELSE ChildAt(down[i - 1], p[i])
  IN down[Len(p)]

IndexesOf(t) == IF t.kind \in {"array", "sequence"} THEN {Element} ELSE DOMAIN t.kids

PlacesOf(t) ==
  LET level[d \in 0..MaxDepth] ==
        IF d = 0 THEN {<<>>}
        ELSE UNION {{Append(p, i) : i \in IndexesOf(TypeAt(t, p))} : p \in level[d - 1]}
  IN UNION {level[d] : d \in 0..MaxDepth}

\* What the setters of a type make sure of: its members have names, and are no
\* more than an index can count; no type lies deeper than MaxDepth.
WellMade(t) ==
  \A p \in PlacesOf(t) :
    LET here == TypeAt(t, p) IN
    /\ DOMAIN here.kids = 1..Len(here.kids) /\ Len(here.kids) \in 0..(Far - 1)
    /\ \A i \in DOMAIN here.kids : here.kids[i].name \in STRING
    /\ here.kind \in {"sequence", "variant"} => here.path.tokens \in Seq(STRING)
    /\ Len(p) = MaxDepth => IndexesOf(here) = {}

\* The type of a scope is a structure.
ASSUME LayoutsAssumption ==
  \A layout \in Layouts : \A s \in Scopes :
    layout[s] # NoType => layout[s].kind = "struct" /\ WellMade(layout[s])

Here == {s \in Scopes : given[s] # NoType}

\* The types with a length or a tag to resolve, by scope.
Sources(s) ==
  IF s \in Here THEN {p \in PlacesOf(given[s]) : TypeAt(given[s], p).kind \in {"sequence", "variant"}}
  ELSE {}

\* The object at a place: its own in a copy, which shares nothing.
ObjectIn(copied, s, p) == IF s \in copied THEN <<s, p>> ELSE <<0, TypeAt(given[s], p).id>>
ObjectAt(s, p) == ObjectIn(copies, s, p)

-----------------------------------------------------------------------------
(***************************************************************************)
(* Resolving.                                                              *)
(***************************************************************************)

\* One round of the loop of ptokens_to_field_path(): from the place that was
\* reached, with the tokens that are left, to the next.  Arrays and sequences
\* take no token.  The first member must not come after src.
Goes(t, w) ==
  LET here == TypeAt(t, w.place) IN
  IF w.tokens = <<>> THEN {w}
  ELSE IF here.kind \in {"array", "sequence"} THEN {[w EXCEPT !.place = Append(@, Element)]}
  ELSE {[place |-> Append(w.place, i), tokens |-> Tail(w.tokens), src |-> Far] :
          i \in {j \in DOMAIN here.kids : here.kids[j].name = Head(w.tokens) /\ j <= w.src}}

\* Where the tokens lead from t, if anywhere.
Walk(t, tokens, src) ==
  LET after[d \in 0..MaxDepth] ==
        IF d = 0 THEN {[place |-> <<>>, tokens |-> tokens, src |-> src]}
        ELSE UNION {Goes(t, w) : w \in after[d - 1]}
  IN {w.place : w \in {v \in after[MaxDepth] : v.tokens = <<>>}}

Target(s, p) == [root |-> s, place |-> p]

\* absolute_ptokens_to_field_path().
Absolute(s, tokens) ==
  IF s \in Here THEN {Target(s, p) : p \in Walk(given[s], tokens, Far)} ELSE {}

\* relative_ptokens_to_field_path(): from the innermost type around place q
\* outwards, then in the scopes before.
FromParent(s, q, k, tokens) ==
  {SubSeq(q, 1, k) \o p : p \in Walk(TypeAt(given[s], SubSeq(q, 1, k)), tokens, q[k + 1])}

\* Mutant of Found: the search goes from the outside in.
FoundOutermost(s, q, tokens) ==
  LET around == {k \in 0..(Len(q) - 1) : FromParent(s, q, k, tokens) # {}}
      before == {r \in 1..(s - 1) : Absolute(r, tokens) # {}}
  IN IF around # {} THEN {Target(s, p) : p \in FromParent(s, q, Min(around), tokens)}
     ELSE IF before # {} THEN Absolute(Max(before), tokens)
     ELSE {}

Found(s, q, tokens) ==
  LET around == {k \in 0..(Len(q) - 1) : FromParent(s, q, k, tokens) # {}}
      before == {r \in 1..(s - 1) : Absolute(r, tokens) # {}}
  IN IF around # {} THEN {Target(s, p) : p \in FromParent(s, q, Max(around), tokens)}
     ELSE IF before # {} THEN Absolute(Max(before), tokens)
     ELSE {}

\* pathstr_to_field_path().
PathOf(s, q) ==
  LET name == TypeAt(given[s], q).path
  IN CASE name.from = Relative -> Found(s, q, name.tokens)
       [] name.from \in Scopes -> Absolute(name.from, name.tokens)
       [] OTHER -> {}

\* get_field_paths_lca_index(): the first index at which two places part.
Parting(p, q) ==
  {i \in DOMAIN p \cap DOMAIN q : p[i] # q[i] /\ SubSeq(p, 1, i - 1) = SubSeq(q, 1, i - 1)}

\* validate_target_field_path().
IsBefore(t, s, q) ==
  /\ t.place # <<>>
  /\ t.root <= s
  /\ t.root = s => \E i \in Parting(t.place, q) : t.place[i] < q[i]

Suits(source, target) ==
  IF source.kind = "variant" THEN target.kind = "enum"
  ELSE target.kind = "integer" /\ ~target.signed

\* resolve_sequence_or_variant_type(): the target of the type at q, or none.
Resolved(s, q) ==
  {t \in PathOf(s, q) : /\ IsBefore(t, s, q)
                        /\ Suits(TypeAt(given[s], q), TypeAt(given[t.root], t.place))}

-----------------------------------------------------------------------------
(***************************************************************************)
(* Validation.                                                             *)
(***************************************************************************)

ScopesOf(class) == {s \in Here : ClassOf[s] = class}

\* Mutant of NeedsCopy: only the fields of the scope's own structure are looked at.
NeedsCopyShallow(s) == \E p \in Sources(s) : Len(p) = 1

\* field_type_contains_sequence_or_variant_ft().
NeedsCopy(s) == Sources(s) # {}

\* The order in which resolve_types() reaches the sources of a class.
Earlier(s, p, r, q) ==
  \/ s < r
  \/ s = r /\ \/ p # q /\ IsPrefix(p, q)
              \/ \E i \in Parting(p, q) : p[i] < q[i]

SourcesOf(class) == UNION {{s} \X Sources(s) : s \in ScopesOf(class)}

\* The sources reached: all up to the first that has no target.
Reached(class) ==
  {sq \in SourcesOf(class) :
     \A rp \in SourcesOf(class) :
       Earlier(rp[1], rp[2], sq[1], sq[2]) => Resolved(rp[1], rp[2]) # {}}

Linked(class) == {sq \in Reached(class) : Resolved(sq[1], sq[2]) # {}}

\* Mutant of Complete: the status of a source is forgotten at the next one.
CompleteOnce(class, links) ==
  \A s \in ScopesOf(class) : NeedsCopy(s) => \E sq \in links : sq[1] = s

\* bt_ctf_resolve_types() returns 0.
Complete(class, links) == links = SourcesOf(class)

\* bt_ctf_field_type_common_validate(): tags are set by now.
IsSound(t) == \A p \in PlacesOf(t) : TypeAt(t, p).sound

\* What f sets, and what g had set before.
Joined(f, g) == [o \in DOMAIN f \cup DOMAIN g |-> IF o \in DOMAIN f THEN f[o] ELSE g[o]]

\* One of validate_trace_types(), validate_stream_class_types() and
\* validate_event_class_types(), after the copies it needs were made and
\* frozen.
ValidateClass(class) ==
  LET made == {s \in ScopesOf(class) : NeedsCopy(s)}
      obj(sq) == ObjectIn(copies \cup made, sq[1], sq[2])
      targetOf(sq) == CHOOSE t \in Resolved(sq[1], sq[2]) : TRUE
      links == Linked(class)
      variants == {sq \in links : TypeAt(given[sq[1]], sq[2]).kind = "variant"}
      at2(o, S) == CHOOSE sq \in S : obj(sq) = o
      tagOf(o) == LET t == targetOf(at2(o, variants)) IN obj(<<t.root, t.place>>)
  IN IF class \in asked /\ class \notin valid
     THEN /\ copies' = copies \cup made
          /\ frozen' = frozen \cup made
          /\ path' = Joined([o \in {obj(sq) : sq \in links} |-> targetOf(at2(o, links))], path)
          /\ tag' = Joined([o \in {obj(sq) : sq \in variants} |-> tagOf(o)], tag)
          /\ valid' = IF /\ Complete(class, links)
                         /\ \A s \in ScopesOf(class) : IsSound(given[s])
                      THEN valid \cup {class} ELSE valid
     ELSE UNCHANGED <<valid, copies, frozen, path, tag>>

\* bt_ctf_validate_class_types().
Validate ==
  /\ at \in Classes
  /\ ValidateClass(at)
  /\ at' = CASE at = "trace" -> "stream" [] at = "stream" -> "event" [] at = "event" -> "output"
  /\ UNCHANGED <<given, asked, known>>

\* bt_ctf_validation_replace_types(), which the callers reach if all that they
\* asked for is valid: the classes give up the types they had, frozen.
Replace ==
  /\ at = "output"
  /\ asked \subseteq valid
  /\ frozen' = frozen \cup {s \in Here : ClassOf[s] \in asked}
  /\ at' = "replaced"
  /\ UNCHANGED <<given, asked, known, valid, copies, path, tag>>

\* A class known to be valid has types that were validated and replaced before.
Init ==
  /\ given \in Layouts
  /\ \E r \in Requests : asked = r.asked /\ known = r.known
  /\ valid = known
  /\ \A s \in Here : ClassOf[s] \in known =>
       IsSound(given[s]) /\ \A q \in Sources(s) : Resolved(s, q) # {}
  /\ copies = {s \in Here : ClassOf[s] \in valid /\ NeedsCopy(s)}
  /\ frozen = {s \in Here : ClassOf[s] \in valid}
  /\ path = [o \in {} |-> 0] /\ tag = [o \in {} |-> 0]
  /\ at = "trace"

Next == Validate \/ Replace

Spec == Init /\ [][Next]_vars

-----------------------------------------------------------------------------
(***************************************************************************)
(* Properties.                                                             *)
(***************************************************************************)

\* The names on the way to a place.
NamesTo(t, p) ==
  LET names[i \in 0..Len(p)] ==
        IF i = 0 THEN <<>>
        ELSE IF p[i] = Element THEN names[i - 1]
        ELSE Append(names[i - 1], TypeAt(t, SubSeq(p, 1, i - 1)).kids[p[i]].name)
  IN names[Len(p)]

\* How far two places share their way.
Common(p, q) == Max({i \in 0..Len(p) : i < Len(q) /\ SubSeq(p, 1, i) = SubSeq(q, 1, i)})

\* The depths of the types around q from which the tokens lead to p.
Levels(t, p, q, tokens) ==
  {i \in 0..Common(p, q) :
     NamesTo(TypeAt(t, SubSeq(p, 1, i)), SubSeq(p, i + 1, Len(p))) = tokens}

\* What the documentation of CTF calls a match: a named place in this or an
\* earlier scope that the tokens lead to from a type around the source or from
\* a root.  A nearer one is found from further inside, or lies in a later scope.
Matches(s, q, tokens) ==
  {t \in UNION {{Target(r, p) : p \in PlacesOf(given[r])} : r \in {x \in Here : x <= s}} :
     /\ t.place # <<>> /\ Last(t.place) # Element
     /\ IF t.root < s THEN NamesTo(given[t.root], t.place) = tokens
        ELSE /\ Levels(given[s], t.place, q, tokens) # {}
             /\ \E i \in Parting(t.place, q) : t.place[i] < q[i]}

Nearer(t, u, s, q, tokens) ==
  \/ t.root > u.root
  \/ /\ t.root = u.root /\ t.root = s
     /\ Max(Levels(given[s], t.place, q, tokens)) > Max(Levels(given[s], u.place, q, tokens))

\* The field that a path was set to is decoded before the sequence or variant
\* that needs it and can serve it.
LinksAreUsable ==
  \A s \in Here \cap copies : \A q \in Sources(s) :
    ObjectAt(s, q) \in DOMAIN path =>
      LET t == path[ObjectAt(s, q)]
      IN IsBefore(t, s, q) /\ Suits(TypeAt(given[s], q), TypeAt(given[t.root], t.place))

\* It is the nearest that its name denotes: a path is not taken from another
\* place that shares the type.
LinksAreNearest ==
  \A s \in Here \cap copies : \A q \in Sources(s) :
    LET name == TypeAt(given[s], q).path
    IN ObjectAt(s, q) \in DOMAIN path /\ name.from = Relative =>
         /\ path[ObjectAt(s, q)] \in Matches(s, q, name.tokens)
         /\ \A u \in Matches(s, q, name.tokens) : ~Nearer(u, path[ObjectAt(s, q)], s, q, name.tokens)

\* Every path that is set leads where it should.
LinksAreRight == LinksAreUsable /\ LinksAreNearest

\* A class is reported valid only if each of its sequences and variants was
\* given its path, each variant its tag too, and no type below is unsound.
ValidIsComplete ==
  \A s \in Here : ClassOf[s] \in valid \ known =>
    /\ IsSound(given[s])
    /\ \A q \in Sources(s) :
         /\ ObjectAt(s, q) \in DOMAIN path
         /\ TypeAt(given[s], q).kind = "variant" => ObjectAt(s, q) \in DOMAIN tag

\* The types that a caller gave and may still hold are not resolved, whatever
\* the validation finds (validation.h:58: "Copies are created if needed"); and
\* once the classes have taken the result over, all that their types refer to,
\* tags in other scopes too, is frozen.
GivenUntouched ==
  /\ \A s \in Here : \A p \in PlacesOf(given[s]) : <<0, TypeAt(given[s], p).id>> \notin DOMAIN path
  /\ at = "replaced" => \A s \in Here : ClassOf[s] \in asked =>
       /\ s \in frozen
       /\ \A q \in Sources(s) : ObjectAt(s, q) \in DOMAIN tag =>
            path[ObjectAt(s, q)].root \in frozen
-----------------------------------------------------------------------------
(***************************************************************************)
(* The inductive invariant.                                                *)
(***************************************************************************)

\* What is asked and what is frozen and copied.
Flags ==
  /\ given \in Layouts
  /\ \E r \in Requests : asked = r.asked /\ known = r.known
  /\ known \subseteq valid
  /\ copies \subseteq frozen /\ frozen \subseteq Here
  /\ \A s \in Here : ClassOf[s] \in known => s \in frozen
  /\ at = "replaced" => \A s \in Here : ClassOf[s] \in asked => s \in frozen

\* Only a copy has paths, from its own places, and tags go with paths.
PathsLead ==
  /\ \A o \in DOMAIN path : \E s \in copies : \E q \in Sources(s) :
       o = <<s, q>> /\ path[o] \in Resolved(s, q)
  /\ DOMAIN tag \subseteq DOMAIN path

\* A class is valid by way of copies.
ValidIsCopied ==
  \A s \in Here : ClassOf[s] \in valid \ known /\ NeedsCopy(s) => s \in copies

IInv == Flags /\ PathsLead /\ ValidIsCopied /\ ValidIsComplete
=============================================================================
