--------------------------------- MODULE Twin ---------------------------------
(***************************************************************************)
(* What a change to an audit's findings would do to the attack paths: they *)
(* are computed again, from the stored inputs, with the change made.       *)
(***************************************************************************)
EXTENDS Integers, Sequences, FiniteSets, SequencesExt

A == INSTANCE Attacker

\* A finding that is taken as confirmed holds for certain.
Confirm(f) ==
    [f EXCEPT !.assessment = "confirmed", !.status = "reachable", !.verified = TRUE]

\* What is left of a list, in its order.
LeftOf(list, gone) ==
    FlattenSeq([i \in DOMAIN list |-> IF list[i] \in gone THEN <<>> ELSE <<list[i]>>])

\* The inputs once findings are fixed or confirmed, capabilities withdrawn and
\* divergences resolved.  A combination goes with any of its capabilities.
Change(in, fix, confirm, capabilities, divergences) ==
    LET left == LeftOf(in.findings, {f \in Range(in.findings) : f.id \in fix})
    IN [in EXCEPT
          !.findings = [i \in DOMAIN left |->
                           IF left[i].id \in confirm THEN Confirm(left[i]) ELSE left[i]],
          !.combinations = LeftOf(@, {c \in Range(@) : c.steps \cap capabilities # {}}),
          !.divergences = LeftOf(@, {d \in Range(@) : d.id \in divergences})]

\* The paths of a profile to a jewel, and what they take.
PathTable(edges, goals) ==
    {[pair |-> <<p.persona, p.goal>>, cost |-> p.cost,
      tentative |-> \E i \in p.steps : edges[i].tentative,
      findings |-> {edges[i].fix[2] : i \in {j \in p.steps : edges[j].fix[1] = "finding"}}] :
         p \in A!Paths(edges, goals, DOMAIN edges)}

\* What becomes of the paths.
Differences(before, after) ==
    LET In(table, p) == \E q \in table : q.pair = p.pair
    IN [closed |-> {p \in before : ~In(after, p)}, opened |-> {p \in after : ~In(before, p)},
        changed |-> {p.pair : p \in {q \in before \ after : In(after, q)}}, remaining |-> after]

Simulate(in, fix, confirm, capabilities, divergences) ==
    LET changed == Change(in, fix, confirm, capabilities, divergences)
    IN Differences(PathTable(A!Edges(in), A!Goals(in)),
                   PathTable(A!Edges(changed), A!Goals(changed)))

=============================================================================
