----------------------------- MODULE MCDof2Ctf ------------------------------
(* Dof2Ctf for TLC: DOFs of two or three ECBs that share probes and actions. *)
EXTENDS Dof2Ctf

Blank == [type |-> "other", ok |-> TRUE, probe |-> 0, strtab |-> 0,
          actions |-> 0, len |-> 0, entry |-> 0, acts |-> <<>>, size |-> 0, links |-> <<>>]

\* A section that no DOF of this module has.
Nowhere == 99

\* Sections 1 to 7: a string table, the probe, three DIFOs (of an integer, of
\* an array, of no size), an instruction buffer and the actions.
Base(strtabOk, dif, links, acts, extra, entry) ==
  <<[Blank EXCEPT !.type = "strtab", !.ok = strtabOk],
    [Blank EXCEPT !.type = "probe", !.strtab = 1],
    [Blank EXCEPT !.type = "difo", !.size = 4, !.links = <<6>>],
    [Blank EXCEPT !.type = "difo", !.size = 3, !.links = links],
    [Blank EXCEPT !.type = "difo", !.size = 0],
    [Blank EXCEPT !.type = "dif", !.ok = dif],
    [Blank EXCEPT !.type = "actions", !.acts = acts, !.len = ActSize * Len(acts) + extra,
                  !.entry = entry]>>

Traced(n) == [kind |-> "traced", difo |-> n]
Untraced(n) == [kind |-> "other", difo |-> n]

ActionLists == {<<Traced(3)>>, <<Untraced(5), Traced(4)>>,
                <<Traced(5), Traced(3), Traced(4)>>, <<Traced(Nowhere)>>}

Bases == {Base(s, d, l, a, 0, ActSize) : s \in BOOLEAN, d \in BOOLEAN,
                             l \in {<<6>>, <<Nowhere, 6>>, <<6, 1>>}, a \in ActionLists}

Ecbs == {[Blank EXCEPT !.type = "ecb", !.ok = o, !.probe = p, !.actions = a] :
           o \in BOOLEAN, p \in {2, 3}, a \in {NoSection, 7, Nowhere}}

GoodEcbs == {e \in Ecbs : e.ok /\ e.probe = 2 /\ e.actions # Nowhere}

\* Actions whose entries have no size, half or one and a half of an action's, or
\* that end with half an action.
OddBases == {Base(TRUE, TRUE, l, a, x, e) :
               l \in {<<6>>, <<Nowhere, 6>>}, a \in {<<>>} \cup ActionLists, x \in {0, 1}, e \in 0..3}

\* What may lie behind a section: an action, or nothing of the kind.
Behind == {Traced(3), Untraced(Nowhere)}

\* Two ECBs of every kind, three good ones, or two good ones of odd actions.
MixedDofs ==
  {b \o <<e, f>> : b \in Bases, e \in Ecbs, f \in Ecbs}
    \cup {b \o <<e, f, g>> : b \in Bases, e \in GoodEcbs, f \in GoodEcbs, g \in GoodEcbs}
    \cup {b \o <<e, f>> : b \in OddBases, e \in GoodEcbs, f \in GoodEcbs}
=============================================================================
