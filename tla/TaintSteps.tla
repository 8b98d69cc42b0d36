----------------------------- MODULE TaintSteps -----------------------------
(***************************************************************************)
(* Flows: sequences of steps, each at a function and a statement, from     *)
(* where input is read, or from a parameter, to a dangerous call; and the  *)
(* ways through the branches and loops of a function.                      *)
(***************************************************************************)
EXTENDS Integers, Sequences, FiniteSets, SequencesExt

Nowhere == <<0, 0>>
NoFlow == <<>>

Step(step, at) == [step |-> step, at |-> at, param |-> "none"]
FromParam(p, at) == [step |-> "source", at |-> at, param |-> p]

\* The last n steps of a flow: what it began with goes first.
Kept(flow, n) == SubSeq(flow, IF Len(flow) > n THEN Len(flow) - n + 1 ELSE 1, Len(flow))

\* The first of some answers that is not the one for nothing.
FirstNot(answers, nothing) ==
    LET i == SelectInSeq(answers, LAMBDA x : x # nothing)
    IN IF i = 0 THEN nothing ELSE answers[i]

\* What stands for an argument that a call does not have.
Argument(e, i, missing) == IF i \in DOMAIN e.parts THEN e.parts[i] ELSE missing

\* What an analysis of a function from its parameters tells of it, and own what it
\* returns without: what its parameters come to, at most limit of it, which of them it
\* returns, and where the input is read that it returns.
Told(params, sinks, returns, own, limit) ==
    LET Index(p) == CHOOSE i \in DOMAIN params : params[i] = p
        sunk == SelectSeq(sinks, LAMBDA x : x.flow[1].param # "none")
        read == SelectSeq(returns, LAMBDA r : r[1].param = "none") \o own
    IN [sinks |-> [i \in 1..(IF Len(sunk) > limit THEN limit ELSE Len(sunk)) |->
                      [param |-> Index(sunk[i].flow[1].param), kind |-> sunk[i].kind,
                       flow |-> sunk[i].flow]],
        returns |-> SelectSeq([i \in DOMAIN params |-> i],
                              LAMBDA i : \E r \in Range(returns) : r[1].param = params[i]),
        source |-> IF read = <<>> THEN Nowhere ELSE read[1][1].at]

\* Where flows begin and end, once for each kind.
Ends(sinks) ==
    [i \in DOMAIN sinks |-> [kind |-> sinks[i].kind, source |-> sinks[i].flow[1].at,
                             sink |-> Last(sinks[i].flow).at]]

Once(ends) == FoldLeft(LAMBDA seen, x : IF x \in Range(seen) THEN seen ELSE Append(seen, x),
                       <<>>, ends)

-----------------------------------------------------------------------------
(***************************************************************************)
(* What runs                                                               *)
(*                                                                         *)
(* The lines of a body are in the order of the text.  The line of an "if"  *)
(* is followed by s.then lines of one branch and s.orelse of the other,    *)
(* that of a "try" by its lines and those that handle what they raise,     *)
(* that of a "loop" by those it repeats.                                   *)
(***************************************************************************)

MaxTurns == 2                     \* of a loop, the second of which sees what the first left

\* The ways through lines k to last: a try stops anywhere, a loop turns any time.
RECURSIVE Ways(_, _, _)
Ways(body, k, last) ==
    IF k > last THEN {<<>>}
    ELSE LET s == body[k]
             end == k + s.then + s.orelse
             first == Ways(body, k + 1, k + s.then)
             other == Ways(body, k + s.then + 1, end)
             whole == CASE s.does = "try" -> first \cup {w \o h : w \in UNION {Prefixes(x) : x \in first},
                                                      h \in other}
                        [] s.does = "loop" -> {FlattenSeq([i \in 1..n |-> w[i] \o <<k>>]) :
                                                  n \in 0..MaxTurns, w \in [1..MaxTurns -> first]}
                        [] OTHER -> first \cup other
         IN {<<k>> \o w \o rest : w \in whole, rest \in Ways(body, end + 1, last)}

\* The ways through a body, none of which goes on after a return.
Paths(body) ==
    LET Stopped(w) == {n \in DOMAIN w : body[w[n]].does = "return"}
        UpTo(w) == IF Stopped(w) = {} THEN w ELSE SubSeq(w, 1, Min(Stopped(w)))
    IN {UpTo(w) : w \in Ways(body, 1, Len(body))}

\* The branches that a line is in, and the loops.
Branches(body, k) ==
    {<<i, "then">> : i \in {j \in DOMAIN body : k \in j + 1..j + body[j].then}} \cup
    {<<i, "orelse">> : i \in {j \in DOMAIN body : k - body[j].then \in j + 1..j + body[j].orelse}}

Loops(body, k) ==
    {i \in DOMAIN body : body[i].does = "loop" /\ k \in i..i + body[i].then}

\* A line that gives a name, and one that reads it.
Gives(body, reads, k, j) == body[k].to \cap reads[j] # {}

\* What is given is on the way to where it is read further on: not in the other branch
\* of an if, nor does what gave it return before.
OnTheWay(body, reads) ==
    \A k, j \in DOMAIN body : k < j /\ Gives(body, reads, k, j) =>
        /\ ~\E i \in DOMAIN body : /\ body[i].does = "if"
                                   /\ <<i, "then">> \in Branches(body, k)
                                   /\ <<i, "orelse">> \in Branches(body, j)
        /\ \A r \in k..j - 1 : body[r].does = "return" =>
               ~(Branches(body, r) \subseteq Branches(body, k))

\* Every way to where a name is read further on comes by where it got another value than
\* it had at first (if it is known then) or before, and no loop comes back to it with one.
NothingPassedBy(body, reads, known) ==
    LET Had(k) == known \cup UNION {body[m].to : m \in 1..k - 1}
    IN \A k, j \in DOMAIN body :
           /\ k < j /\ body[k].does = "assign" /\ body[k].to \cap reads[j] \cap Had(k) # {}
                  => Branches(body, k) \subseteq Branches(body, j)
           /\ j < k /\ Gives(body, reads, k, j) => Loops(body, k) \cap Loops(body, j) = {}

\* Nothing follows a return in its branch, and of two branches one does not end with it.
NothingAfterReturns(body) ==
    \A k \in DOMAIN body : body[k].does = "return" =>
        /\ k = Len(body) \/ ~(Branches(body, k) \subseteq Branches(body, k + 1))
        /\ \A i \in DOMAIN body : body[i].orelse > 0 /\ k = i + body[i].then =>
               body[k + body[i].orelse].does # "return"

=============================================================================
