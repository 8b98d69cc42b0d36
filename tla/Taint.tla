-------------------------------- MODULE Taint --------------------------------
(***************************************************************************)
(* Flows of request input to dangerous calls, in the functions of a file   *)
(* in Python; and the files that are analysed.                             *)
(*                                                                         *)
(* An expression is a tree: what it is, the name it has or calls, and its  *)
(* parts.  It is a "constant", a "name", a "request" (input is read        *)
(* there), or made of its parts: "joined" text, a call of a "sanitizer",   *)
(* a "sink", a "helper" of the same file or "other" code.  A function has  *)
(* parameters, of which some come with a request, and statements, each on  *)
(* a line: it assigns names a value, adds to them, returns or does it, or  *)
(* begins an if, a try or a loop, whose lines follow.                      *)
(* A flow is a sequence of steps, each at a function and a statement.      *)
(***************************************************************************)
EXTENDS TaintSteps

MaxSteps == 10                    \* of a flow, its last steps are kept
MaxThrough == 12                  \* of one that goes on in a helper
MaxSinks == 10                    \* of a helper, what its parameters come to
Rounds == 3                       \* helpers that call helpers
MaxFindings == 200

J == INSTANCE TaintJs

\* The first tainted name that an expression uses, or "request", unless a sanitizer
\* is around it.  What a summarised helper returns is not looked at here.
RECURSIVE Uses(_, _, _)
Uses(e, tainted, summarised) ==
    CASE e.is = "sanitizer" \/ (e.is = "helper" /\ e.name \in summarised) -> "none"
      [] e.is = "name" /\ e.name \in tainted -> e.name
      [] e.is = "request" -> "request"
      [] OTHER -> FirstNot([i \in DOMAIN e.parts |-> Uses(e.parts[i], tainted, summarised)], "none")

\* The argument of a dangerous call; a query with its parameters apart is none.
SinkArgument(e) ==
    IF e.is # "sink" \/ e.parts = <<>>
       \/ (e.name = "sql" /\ e.parts[1].is \notin {"joined", "name"}) THEN <<>>
    ELSE <<e.parts[1]>>

\* What a name, or the request, brings along.
Flow(tainted, hit, at) == IF hit = "request" THEN <<Step("source", at)>> ELSE tainted[hit]

Constant == [is |-> "constant", name |-> "none", parts |-> <<>>]

\* What the argument for a helper's parameter brings, if the call has it.
Hit(e, i, tainted) == Uses(Argument(e, i, Constant), DOMAIN tainted, {})

\* What a helper hands on of what the name, or the request, of an argument brings.
Through(hit, tainted, at) ==
    IF hit = "none" THEN NoFlow
    ELSE Kept(Append(Flow(tainted, hit, at), Step("call", at)), MaxSteps)

\* The flow that the result of a helper carries: what it reads itself, or what is
\* passed for a parameter that it returns.
RECURSIVE CallTaint(_, _, _, _)
CallTaint(e, tainted, summaries, at) ==
    CASE e.is = "sanitizer" -> NoFlow
      [] e.is = "helper" /\ e.name \in DOMAIN summaries ->
             LET s == summaries[e.name]
             IN IF s.source # Nowhere THEN <<Step("source", s.source), Step("call", at)>>
                ELSE Through(FirstNot([i \in DOMAIN s.returns |-> Hit(e, s.returns[i], tainted)],
                                      "none"), tainted, at)
      [] OTHER -> FirstNot([i \in DOMAIN e.parts |->
                               CallTaint(e.parts[i], tainted, summaries, at)], NoFlow)

-----------------------------------------------------------------------------
\* The flow of a value, if any, with the step that passes it on.
FlowOf(through, hit, tainted, at, more) ==
    CASE through # NoFlow -> Kept(through \o more, MaxSteps)
      [] through = NoFlow /\ hit = "none" -> NoFlow
      [] through = NoFlow /\ hit = "request" -> <<Step("source", at)>>
      [] OTHER -> Kept(tainted[hit] \o more, MaxSteps)

Carried(e, tainted, summaries, at, more) ==
    FlowOf(CallTaint(e, tainted, summaries, at), Uses(e, DOMAIN tainted, DOMAIN summaries),
           tainted, at, more)

\* Names are tainted with a flow, if there is one, and some no longer if there is none.
Taint(tainted, names, flow, clean) ==
    IF flow # NoFlow THEN [n \in names |-> flow] @@ tainted
    ELSE [n \in DOMAIN tainted \ clean |-> tainted[n]]

\* Mutant: a name stays tainted when it gets another value.
AssignWithoutReset(s, known, summaries, at) ==
    [known EXCEPT !.tainted =
        Taint(@, s.to, Carried(s.value, @, summaries, at, <<Step("assign", at)>>), {})]

\* Names are tainted by a tainted value, and by another no longer, unless it is added.
Assign(s, known, summaries, at) ==
    [known EXCEPT !.tainted =
        Taint(@, s.to, Carried(s.value, @, summaries, at, <<Step("assign", at)>>),
              IF s.does = "assign" THEN s.to ELSE {})]

\* The flow, if it is one.
IfAny(flow) == SelectSeq(<<flow>>, LAMBDA x : x # NoFlow)

Return(s, known, summaries, at) ==
    [known EXCEPT !.returns = @ \o IfAny(Carried(s.value, known.tainted, summaries, at, <<>>))]

\* What comes to the argument of a dangerous call: a name goes before a result.
Into(hit, through, tainted, at) == IF hit # "none" THEN Flow(tainted, hit, at) ELSE through

Sunk(kind, flows, at) ==
    [i \in DOMAIN flows |-> [kind |-> kind, flow |-> Append(flows[i], Step("sink", at))]]

\* What comes to a parameter of a helper goes on to what that comes to.
Onward(x, hit, tainted, at) ==
    IF hit = "none" THEN <<>>
    ELSE <<[kind |-> x.kind, flow |-> Kept(Append(Flow(tainted, hit, at), Step("call", at))
                                           \o Tail(x.flow), MaxThrough)]>>

\* A dangerous call, with what comes to its argument; or a helper, whose parameter
\* comes to one.
SinksOf(e, arg, tainted, summaries, at) ==
    CASE arg # <<>> ->
             Sunk(e.name, IfAny(Into(Uses(arg[1], DOMAIN tainted, DOMAIN summaries),
                                     CallTaint(arg[1], tainted, summaries, at), tainted, at)), at)
      [] arg = <<>> /\ e.is = "helper" /\ e.name \in DOMAIN summaries ->
             LET sinks == summaries[e.name].sinks
             IN FlattenSeq([i \in DOMAIN sinks |->
                    Onward(sinks[i], Hit(e, sinks[i].param, tainted), tainted, at)])
      [] OTHER -> <<>>

Call(e, known, summaries, at) ==
    [known EXCEPT !.sinks = @ \o SinksOf(e, SinkArgument(e), known.tainted, summaries, at)]

\* The calls in an expression, outer ones first.
RECURSIVE Calls(_)
Calls(e) ==
    (IF e.is \in {"sink", "helper"} THEN <<e>> ELSE <<>>) \o
    FlattenSeq([i \in DOMAIN e.parts |-> Calls(e.parts[i])])

\* The nodes of a function are looked at in the order of the text, one branch after the
\* other: a statement, and then the calls in it.
Statement(s, known, summaries, at) ==
    FoldLeft(LAMBDA all, e : Call(e, all, summaries, at),
             CASE s.does \in {"assign", "augment"} -> Assign(s, known, summaries, at)
               [] s.does = "return" -> Return(s, known, summaries, at)
               [] OTHER -> known,
             Calls(s.value))

Analyse(f, body, seeds, summaries) ==
    FoldLeft(LAMBDA known, k : Statement(body[k], known, summaries, <<f, k>>),
             [tainted |-> seeds, sinks |-> <<>>, returns |-> <<>>], [k \in DOMAIN body |-> k])

-----------------------------------------------------------------------------
\* The functions that a name stands for: one of two namesakes is not summarised.
Unique(code) == {f \in DOMAIN code : \A g \in DOMAIN code : code[g].name = code[f].name => g = f}

\* What a function does with its parameters, as far as its helpers are known: with a
\* flow from each parameter, and with none.
ToldBy(params, seeded, own) == Told(params, seeded.sinks, seeded.returns, own.returns, MaxSinks)

Summary(f, function, summaries) ==
    ToldBy(function.params,
           Analyse(f, function.body, [p \in Range(function.params) |-> <<FromParam(p, <<f, 0>>)>>],
                   summaries),
           Analyse(f, function.body, <<>>, summaries))

\* Round after round, from what the round before knew.
Round(code, unique, known) ==
    [n \in {code[f].name : f \in unique} |->
        LET f == CHOOSE g \in unique : code[g].name = n IN Summary(f, code[f], known)]

Summaries(code) ==
    FoldLeft(LAMBDA known, i : Round(code, Unique(code), known), <<>>, [i \in 1..Rounds |-> i])

EndsOf(code, f, summaries) ==
    Ends(Analyse(f, code[f].body, [p \in code[f].route |-> <<Step("source", <<f, 0>>)>>],
                 summaries).sinks)

\* The flows of the functions of a file.
FlowsOf(code, summaries) == Once(FlattenSeq([f \in DOMAIN code |-> EndsOf(code, f, summaries)]))

Flows(code) == FlowsOf(code, Summaries(code))

InFile(name, flows) == [i \in DOMAIN flows |-> [file |-> name, flow |-> flows[i]]]

\* Files are read in order until there are enough flows; those of tests are not.
AnalyzeTaint(files) ==
    LET Read(all, x) ==
            IF Len(all) >= MaxFindings \/ x.skipped THEN all
            ELSE all \o InFile(x.name, CASE x.language = "python" -> Flows(x.code)
                                         [] x.language = "javascript" -> J!Flows(x.code)
                                         [] OTHER -> <<>>)
        Stored(all) ==
            [flows |-> SubSeq(all, 1, IF Len(all) > MaxFindings THEN MaxFindings ELSE Len(all)),
             truncated |-> Len(all) >= MaxFindings]
    IN Stored(FoldLeft(Read, <<>>, files))

-----------------------------------------------------------------------------
(***************************************************************************)
(* What runs                                                               *)
(***************************************************************************)

\* The dangerous calls that input comes to when a function runs in which these names
\* carry input, and whether what it returns does, on some way through it: parts before
\* the whole, and a helper where it is called.
RECURSIVE Run(_, _, _)
RECURSIVE Value(_, _, _, _)

Value(code, e, carrying, at) ==
    LET parts == [i \in DOMAIN e.parts |-> Value(code, e.parts[i], carrying, at)]
        within == UNION {parts[i].sunk : i \in DOMAIN parts}
        some == \E i \in DOMAIN parts : parts[i].carries
        callee == CHOOSE g \in DOMAIN code : code[g].name = e.name
        passed == {code[callee].params[i] : i \in {j \in DOMAIN parts : parts[j].carries}}
        called == Run(code, callee, passed)
    IN CASE e.is = "helper" -> [carries |-> called.carries, sunk |-> within \cup called.sunk]
         [] e.is = "sink" ->
                [carries |-> some,
                 sunk |-> within \cup {x \in {<<e.name, at>>} : SinkArgument(e) # <<>>
                                                               /\ parts[1].carries}]
         [] OTHER -> [sunk |-> within,
                      carries |-> CASE e.is = "name" -> e.name \in carrying
                                    [] e.is = "request" -> TRUE
                                    [] e.is \in {"constant", "sanitizer"} -> FALSE
                                    [] OTHER -> some]

Run(code, f, carrying) ==
    LET body == code[f].body
        Line(known, k) ==
            LET v == Value(code, body[k].value, known.carrying, <<f, k>>)
            IN [carrying |-> IF v.carries THEN known.carrying \cup body[k].to
                             ELSE known.carrying \ (IF body[k].does = "assign" THEN body[k].to ELSE {}),
                carries |-> body[k].does = "return" /\ v.carries,
                sunk |-> known.sunk \cup v.sunk]
        Along(way) == FoldLeft(Line, [carrying |-> carrying, carries |-> FALSE, sunk |-> {}], way)
        ends == {Along(way) : way \in Paths(body)}
    IN [carries |-> \E x \in ends : x.carries, sunk |-> UNION {x.sunk : x \in ends}]

\* What comes to dangerous calls of a file, whichever function is called from outside.
Reached(code) == UNION {Run(code, f, code[f].route).sunk : f \in DOMAIN code}

\* All names that an expression reads.
RECURSIVE Reads(_)
Reads(e) == (IF e.is = "name" THEN {e.name} ELSE {}) \cup
            UNION {Reads(e.parts[i]) : i \in DOMAIN e.parts}

\* What the analysis says that it follows: functions that call later ones, none of
\* which is a namesake's, with nothing after a return.  Left out, though it does not say
\* so, are a call within the arguments of a helper, and a statement that gives a name
\* that it also reads in a call: neither is looked at in the order in which it runs.
Followed(code) ==
    /\ Unique(code) = DOMAIN code
    /\ \A f \in DOMAIN code : NothingAfterReturns(code[f].body)
    /\ \A f \in DOMAIN code : \A k \in DOMAIN code[f].body :
           LET s == code[f].body[k]
           IN /\ Calls(s.value) # <<>> => s.to \cap Reads(s.value) = {}
              /\ \A e \in Range(Calls(s.value)) : e.is = "helper" =>
                     /\ \A g \in DOMAIN code : code[g].name = e.name => g > f
                     /\ \A i \in DOMAIN e.parts : Calls(e.parts[i]) = <<>>

\* Branches and loops are run through in order of the text, which is no way that the
\* code takes, and nothing says so: what one branch gives a name the other seems to
\* read, and a name that one overwrites is followed no further, nor back in a loop.
ReadsIn(code, f) == [k \in DOMAIN code[f].body |-> Reads(code[f].body[k].value)]

AllOnTheWay(code) == \A f \in DOMAIN code : OnTheWay(code[f].body, ReadsIn(code, f))
NonePassedBy(code) ==
    \A f \in DOMAIN code : NothingPassedBy(code[f].body, ReadsIn(code, f), Range(code[f].params))

\* A flow has a step where it begins, and at most one for each assignment and call.
Short(code) ==
    LET Steps(s) == (IF s.does \in {"assign", "augment"} THEN 1 ELSE 0) + Len(Calls(s.value))
        Body(n, c) == FoldLeft(LAMBDA k, s : k + Steps(s), n, c.body)
    IN 1 + FoldLeft(Body, 0, code) <= MaxSteps

\* The same of a file in either language.
FollowedIn(file) ==
    CASE file.language = "python" -> Followed(file.code)
      [] file.language = "javascript" -> J!Followed(file.code)
      [] OTHER -> FALSE

OnTheWayIn(file) ==
    IF file.language = "python" THEN AllOnTheWay(file.code) ELSE J!AllOnTheWay(file.code)

NonePassedByIn(file) ==
    IF file.language = "python" THEN NonePassedBy(file.code) ELSE J!NonePassedBy(file.code)

ReachedIn(file) == IF file.language = "python" THEN Reached(file.code) ELSE J!Reached(file.code)

=============================================================================
