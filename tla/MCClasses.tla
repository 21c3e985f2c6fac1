----------------------------- MODULE MCClasses -----------------------------
(* Small instances of Classes: two stream classes and two event classes, *)
(* with a type of every sort for the scopes where it makes a difference. *)
EXTENDS Classes, TLC

CONSTANTS s1, s2, e1, e2, c1, c2

Plain == [present |-> TRUE, sound |-> TRUE, fits |-> TRUE, numbered |-> TRUE,
          links |-> FALSE, clocks |-> {}, stamp |-> FALSE]
NoType == [Plain EXCEPT !.present = FALSE, !.numbered = FALSE]
Unsound == [Plain EXCEPT !.sound = FALSE]
Unfit == [Plain EXCEPT !.fits = FALSE]
Stamped == [Plain EXCEPT !.stamp = TRUE]
Of(c) == [Plain EXCEPT !.clocks = {c}]

ScopeTypes ==
  [packet_header |-> {NoType, Unfit, Of(c1)},
   packet_context |-> {Stamped, Unfit},
   event_header |-> {Stamped, Unsound},
   event_context |-> {Of(c2)},
   context |-> {Unsound},
   payload |-> {Of(c1), Of(c2)}]

Empty ==
  [c \in Scopes |-> IF c[2] \in {"packet_header", "event_header", "payload"} THEN Plain ELSE NoType]

Mixed == [Empty EXCEPT ![<<s1, "event_header">>] = [Stamped EXCEPT !.links = TRUE], ![<<e1, "payload">>] = Of(c1)]

\* Clients that set much, that set and let go, and that only let go.
Client(made, t, sets_, refs_) == [made |-> made, type |-> t, sets |-> sets_, refs |-> refs_]

MCClients ==
  {Client({s1, s2, e1}, Mixed, 3, 0)}
    \union {Client(m, Mixed, 2, 1) : m \in {{s1, e1, e2}, {s1, s2, e1}}}
    \union {Client(m, t, 1, 2) : m \in {{s1, e1, e2}, {s1, s2, e1}}, t \in {Empty, Mixed}}
    \union {Client(m, Empty, 0, 5) : m \in {{s1, e1, e2}, {s1, s2, e1}}}

=============================================================================
