------------------------------ MODULE Falsify ------------------------------
(***************************************************************************)
(* Module 2: a finding is a hypothesis that the server tries to refute.    *)
(*                                                                         *)
(* The checkout is read as functions that mention names; a function is     *)
(* linked to every function of a name it mentions.  Three attempts read    *)
(* that graph; the fourth is a claim of the model's, which counts if what  *)
(* it quotes is in the repository.                                         *)
(*                                                                         *)
(* A program is a record.  fn gives, of each function, its name and file,  *)
(* whether a decorator or its class makes it an entry (marked), the names  *)
(* it mentions bare and as attributes, the functions it really calls       *)
(* (runs), its calls of names with the value each passes (passes), and the *)
(* calls in it that may be the sink, in order (body).  module are the      *)
(* names mentioned at module level, doors those registered or called by a  *)
(* script there, and outside the other calls there.  Functions are         *)
(* numbered in the order in which they are found.                          *)
(***************************************************************************)
EXTENDS Integers, Sequences, FiniteSets

Methods == {"callgraph", "sanitizer", "reachability", "devil"}

\* What a value can carry; a parameter carries what callers give.
Rank == [constant |-> 0, sanitized |-> 1, tainted |-> 2]
Worst(vs) ==
    IF vs = {} THEN "constant" ELSE CHOOSE v \in vs : \A w \in vs : Rank[w] <= Rank[v]

-----------------------------------------------------------------------------
(***************************************************************************)
(* The index of a checkout                                                 *)
(***************************************************************************)

Functions(code) == DOMAIN code.fn
Named(code, n) == {f \in Functions(code) : code.fn[f].name = n}

\* What a function mentions.  Its own name, bare, is taken for recursion.
Refs(code, f) == (code.fn[f].bare \ {code.fn[f].name}) \cup code.fn[f].attr

Mentioned(code, n) == n \in code.module \/ \E f \in Functions(code) : n \in Refs(code, f)

\* Functions that something outside the code makes run.
Entries(code) ==
    {f \in Functions(code) : code.fn[f].marked \/ code.fn[f].name \in code.doors}

Callees(code, f) == {g \in Functions(code) : code.fn[g].name \in Refs(code, f)}

\* Mutant: the search looks no further than what a function mentions itself.
ChainOfTwo(code, f, g) == g \in {f} \cup Callees(code, f)

\* What is come to from some places in at most n steps, each from a place to one of
\* those that next has for it.
After(next, from, n) ==
    LET at[k \in 0..n] == IF k = 0 THEN from ELSE at[k - 1] \cup UNION {next[h] : h \in at[k - 1]}
    IN at[n]

\* A search from f that sees everything before it stops comes to g.
Chain(code, f, g) ==
    g \in After([h \in Functions(code) |-> Callees(code, h)], {f}, Cardinality(Functions(code)))

FromEntry(code, g) == \E f \in Entries(code) : Chain(code, f, g)

First(fs) == CHOOSE f \in fs : \A g \in fs : f <= g

\* The function that a text names, or 0: of the last name in it that some
\* function has, the first in a file it gives, or near the finding, or any.
Resolve(code, text, near) ==
    LET known == {i \in DOMAIN text.names : Named(code, text.names[i]) # {}}
        same == Named(code, text.names[CHOOSE i \in known : \A j \in known : j <= i])
        told == {f \in same : code.fn[f].file \in text.files}
        close == {f \in same : code.fn[f].file = near}
    IN IF known = {} THEN 0
       ELSE First(IF told # {} THEN told ELSE IF close # {} THEN close ELSE same)

\* What an index is like: its functions are numbered, what a function calls has a name
\* that is mentioned in it, and what it passes is one of the things a value can be.
IsIndex(code) ==
    /\ IsFiniteSet(Functions(code)) /\ Functions(code) \subseteq Nat \ {0}
    /\ \A f \in Functions(code) :
           /\ \A g \in code.fn[f].runs \cap Functions(code) :
                  code.fn[g].name \in code.fn[f].bare \cup code.fn[f].attr
           /\ \A c \in code.fn[f].passes : c.value \in DOMAIN Rank \cup {"parameter"}

-----------------------------------------------------------------------------
(***************************************************************************)
(* The attempts                                                            *)
(***************************************************************************)

Callgraph(code, source, sink) ==
    LET named == Resolve(code, source, code.fn[sink].file)
        from == IF source.names = <<>> THEN sink ELSE named
    IN IF from = 0 THEN "inconclusive"
       ELSE IF Chain(code, from, sink) THEN "survived"
       ELSE IF {from, sink} \subseteq Entries(code) THEN "inconclusive" ELSE "refuted"

\* The calls of a function's name, in any function, and what they pass.
Passed(code, g) ==
    UNION {{[by |-> h, value |-> c.value] :
            c \in {x \in code.fn[h].passes : x.name = code.fn[g].name}} : h \in Functions(code)}

\* How many calls up a parameter is followed.
MaxCallerDepth == 2

\* What a function's parameter can carry: the worst that its callers pass, as far as
\* they are followed.
Parameter(code, f) ==
    LET up[d \in 0..MaxCallerDepth] ==
            [g \in Functions(code) |->
                IF d = 0 \/ g \in Entries(code) \/ Passed(code, g) = {} THEN "tainted"
                ELSE Worst({IF p.value = "parameter" THEN up[d - 1][p.by] ELSE p.value :
                               p \in Passed(code, g)})]
    IN up[MaxCallerDepth][f]

\* The call of the function that is taken for the sink, or 0: one in the cited
\* lines before any other, one the sink's text names before one that is known
\* to be dangerous.  Calls that read input are never it.
SinkCall(code, f) ==
    LET calls == {i \in DOMAIN code.fn[f].body : ~code.fn[f].body[i].reads}
        cited == {i \in calls : code.fn[f].body[i].cited}
        In(group, how) == {i \in group : code.fn[f].body[i].match = how}
        ranked == <<In(cited, "wanted"), In(cited, "dangerous"),
                    In(calls, "wanted"), In(calls, "dangerous")>>
        some == {k \in DOMAIN ranked : ranked[k] # {}}
    IN IF some = {} THEN 0 ELSE First(ranked[First(some)])

\* A missing check has no value to look at.
Sanitizer(code, category, sink) ==
    LET call == SinkCall(code, sink)
        value == code.fn[sink].body[call].value
    IN IF category = "check" \/ call = 0 THEN "inconclusive"
       ELSE IF (IF value = "parameter" THEN Parameter(code, sink) ELSE value) = "tainted"
            THEN "survived" ELSE "refuted"

Reachability(code, sink) ==
    IF Entries(code) = {} THEN "inconclusive"
    ELSE IF FromEntry(code, sink) THEN "survived"
    ELSE IF Mentioned(code, code.fn[sink].name) THEN "inconclusive" ELSE "refuted"

\* quoted: some code it quotes is in the repository.
Devil(claim) ==
    CASE claim.verdict = "false_positive" -> IF claim.quoted THEN "refuted" ELSE "survived"
      [] claim.verdict = "holds" -> "survived"
      [] claim.verdict = "unsure" -> "inconclusive"

-----------------------------------------------------------------------------
(***************************************************************************)
(* The verdict                                                             *)
(***************************************************************************)

\* One refutation is enough, and only Python code ever comes to be more than exists.
Decide(attempts, python) ==
    LET results == {attempts[m] : m \in DOMAIN attempts}
        survived == {m \in DOMAIN attempts : attempts[m] = "survived"}
    IN CASE "refuted" \in results -> "refuted"
         [] "refuted" \notin results /\ ~python -> "exists"
         [] "refuted" \notin results /\ python ->
                IF survived = Methods THEN "corroborated"
                ELSE IF "reachability" \in survived THEN "reachable"
                ELSE IF "inconclusive" \in results THEN "inconclusive" ELSE "exists"

\* A finding without a source and a sink: it exists, unless its code cannot run
\* or carries nothing.  Categories that are no flow are left alone.
AssessIncomplete(code, finding) ==
    LET tried == IF finding.at = 0 \/ ~finding.python \/ finding.category = "other" THEN {}
                 ELSE {"reachability", "sanitizer"}
        Result(m) == IF m = "reachability" THEN Reachability(code, finding.at)
                     ELSE Sanitizer(code, finding.category, finding.at)
        attempts == [m \in {x \in tried : Result(x) = "refuted"} |-> "refuted"]
    IN [attempts |-> attempts,
        status |-> IF DOMAIN attempts = {} THEN "exists" ELSE "refuted"]

\* at is the function that holds the cited lines, 0 if none does.
AssessComplete(code, finding) ==
    LET sink == IF finding.at # 0 THEN finding.at ELSE Resolve(code, finding.sink, finding.file)
        own == IF ~finding.python THEN {} ELSE {"callgraph", "sanitizer", "reachability"}
        tried == own \cup IF finding.claim.verdict = "none" THEN {} ELSE {"devil"}
        attempts == [m \in tried |->
            CASE m = "devil" -> Devil(finding.claim)
              [] m # "devil" /\ sink = 0 -> "inconclusive"
              [] m = "callgraph" /\ sink # 0 -> Callgraph(code, finding.source, sink)
              [] m = "sanitizer" /\ sink # 0 -> Sanitizer(code, finding.category, sink)
              [] m = "reachability" /\ sink # 0 -> Reachability(code, sink)]
    IN [attempts |-> attempts, status |-> Decide(attempts, finding.python)]

\* A finding without evidence gets no status.
Assess(code, finding) ==
    IF ~finding.verified THEN [attempts |-> <<>>, status |-> "none"]
    ELSE IF finding.complete THEN AssessComplete(code, finding)
    ELSE AssessIncomplete(code, finding)

-----------------------------------------------------------------------------
(***************************************************************************)
(* What the verdict should say                                             *)
(***************************************************************************)

\* There is a path of real calls from one function to another.
Runs(code, f, g) ==
    \E n \in 1..Cardinality(Functions(code)) : \E path \in [1..n -> Functions(code)] :
        /\ path[1] = f /\ path[n] = g
        /\ \A i \in 1..n - 1 : path[i + 1] \in code.fn[path[i]].runs

\* Functions whose parameter some caller fills with input: a framework, a
\* script, or code that does so with what it is given itself.
Fed(code) ==
    LET Direct == {g \in Functions(code) :
            \/ g \in Entries(code)
            \/ \E c \in code.outside : c.name = code.fn[g].name /\ c.value = "tainted"
            \/ \E h \in Functions(code) : \E c \in code.fn[h].passes :
                  c.name = code.fn[g].name /\ c.value = "tainted"}
        On == [h \in Functions(code) |->
                  {g \in Functions(code) : \E c \in code.fn[h].passes :
                      c.name = code.fn[g].name /\ c.value = "parameter"}]
    IN After(On, Direct, Cardinality(Functions(code)))

\* No function calls a namesake by its bare name, as a method may.
NoNamesakes(code) ==
    \A f, g \in Functions(code) :
        f # g /\ g \in code.fn[f].runs /\ code.fn[g].name = code.fn[f].name
            => code.fn[g].name \in code.fn[f].attr

=============================================================================
