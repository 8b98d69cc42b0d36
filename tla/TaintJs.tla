------------------------------ MODULE TaintJs ------------------------------
(***************************************************************************)
(* Flows of request input to dangerous calls, in a file in JavaScript or   *)
(* TypeScript that is read as a syntax tree.                               *)
(*                                                                         *)
(* An expression is what it is, the kind of a dangerous call or the name   *)
(* of a helper, the variable it begins with or is called on, and parts.    *)
(* It is a "constant", a "name", a "property" that a request has, a        *)
(* "request" by itself (location.search), or made of its parts: "joined"   *)
(* text, an "object", the value of "where" in one, or a call of a "sink",  *)
(* a "helper" of the file, a "sanitizer" or other code ("call").           *)
(* A file is its functions, the first the file itself.  A function is a    *)
(* "helper" that has a name, what handles a "route", or a "closure".  Its  *)
(* statements give names a value, add to them, return, do, write into a    *)
(* page ("html") or to the location, hold a "function" or begin an if, a   *)
(* try or a loop; one is all that an "arrow" without a body is.            *)
(***************************************************************************)
EXTENDS TaintSteps

MaxPassed == 10                   \* steps kept of a flow out of a helper
MaxAssigned == 12                 \* of one that a name is given
MaxReported == 14                 \* of one that is reported
MaxSinks == 10                    \* of a helper, what its parameters come to
Rounds == 3                       \* helpers that call helpers

RequestNames == {"req", "request"}
ResponseNames == {"res", "reply", "response", "ctx"}

Constant == [is |-> "constant", name |-> "none", on |-> "none", parts |-> <<>>]

\* What is known in a function: the flows of its names, which of them were joined, what
\* it calls requests and responses, and what was found.
Scope(tainted) ==
    [tainted |-> tainted, built |-> {}, req |-> RequestNames, res |-> ResponseNames,
     sinks |-> <<>>, returns |-> <<>>]

\* The first tainted name that an expression uses, or "request", unless a sanitizer is
\* around it.  A summarised helper is left to Through.
RECURSIVE Uses(_, _, _)
Uses(e, scope, summarised) ==
    CASE e.is = "sanitizer" \/ (e.is = "helper" /\ e.name \in summarised) -> "none"
      [] e.is = "request" \/ (e.is = "property" /\ e.on \in scope.req) -> "request"
      [] e.on \in DOMAIN scope.tainted -> e.on
      [] OTHER -> FirstNot([i \in DOMAIN e.parts |-> Uses(e.parts[i], scope, summarised)], "none")

Extended(flow, step, at, n) ==
    IF flow = NoFlow THEN NoFlow ELSE Kept(Append(flow, Step(step, at)), n)

FlowOf(hit, scope, at) ==
    IF hit = "request" THEN <<Step("source", at)>> ELSE scope.tainted[hit]

\* The flow that an expression carries: what it uses, or else what helpers return.
RECURSIVE Through(_, _, _, _)
RECURSIVE TaintOf(_, _, _, _)

Through(e, scope, summaries, at) ==
    LET Passed(i) == TaintOf(Argument(e, i, Constant), scope, summaries, at)
        Returned(s) ==
            IF s.source # Nowhere THEN <<Step("source", s.source), Step("call", at)>>
            ELSE Extended(FirstNot([i \in DOMAIN s.returns |-> Passed(s.returns[i])], NoFlow),
                          "call", at, MaxPassed)
    IN CASE e.is = "sanitizer" -> NoFlow
         [] e.is = "helper" /\ e.name \in DOMAIN summaries -> Returned(summaries[e.name])
         [] OTHER -> FirstNot([i \in DOMAIN e.parts |->
                                  Through(e.parts[i], scope, summaries, at)], NoFlow)

TaintOf(e, scope, summaries, at) ==
    LET Flow(hit) == IF hit = "none" THEN Through(e, scope, summaries, at)
                     ELSE FlowOf(hit, scope, at)
    IN Flow(Uses(e, scope, DOMAIN summaries))

-----------------------------------------------------------------------------
\* The argument of a dangerous call: a query is one if its text was joined, and an
\* answer or a redirect if it is called on what the function calls the response.
SinkArgument(e, scope) ==
    CASE e.is # "sink" \/ e.parts = <<>> -> <<>>
      [] e.name = "sql" /\ ~(e.parts[1].is = "joined"
                             \/ (e.parts[1].is = "name" /\ e.parts[1].on \in scope.built)) -> <<>>
      [] e.name \in {"redirect", "response"} /\ e.on \notin scope.res -> <<>>
      [] e.name = "response" /\ e.parts[1].is = "object" -> <<>>
      [] e.name = "redirect" -> <<Last(e.parts)>>
      [] OTHER -> <<e.parts[1]>>

\* The values of "where" in a call, the last first.
RECURSIVE Wheres(_)
Wheres(e) ==
    (IF e.is = "where" THEN <<e.parts[1]>> ELSE <<>>)
    \o FlattenSeq([i \in DOMAIN e.parts |-> Wheres(Reverse(e.parts)[i])])

\* A flow that is reported, if it is one.
Report(kind, flow, at) ==
    IF flow = NoFlow THEN <<>>
    ELSE <<[kind |-> kind, flow |-> Extended(flow, "sink", at, MaxReported)]>>

\* What comes to a parameter of a helper goes on to what that comes to.
Onward(x, flow, at) ==
    IF flow = NoFlow THEN <<>>
    ELSE <<[kind |-> x.kind, flow |-> Kept(Append(flow, Step("call", at)) \o Tail(x.flow),
                                           MaxReported)]>>

SinksOf(e, arg, scope, summaries, at) ==
    LET Carried(x) == TaintOf(x, scope, summaries, at)
        InWhere == FlattenSeq([i \in DOMAIN Wheres(e) |->
                                  Report("nosql", Carried(Wheres(e)[i]), at)])
        InHelper(sinks) == FlattenSeq([i \in DOMAIN sinks |->
            Onward(sinks[i], Carried(Argument(e, sinks[i].param, Constant)), at)])
    IN InWhere \o (CASE arg # <<>> -> Report(e.name, Carried(arg[1]), at)
                     [] arg = <<>> /\ e.is = "helper" /\ e.name \in DOMAIN summaries ->
                            InHelper(summaries[e.name].sinks)
                     [] OTHER -> <<>>)

Call(e, scope, summaries, at) ==
    [scope EXCEPT !.sinks = @ \o SinksOf(e, SinkArgument(e, scope), scope, summaries, at)]

\* The calls in an expression, outer ones first.
RECURSIVE Calls(_)
Calls(e) ==
    (IF e.is \in {"sink", "helper", "sanitizer", "call"} THEN <<e>> ELSE <<>>) \o
    FlattenSeq([i \in DOMAIN e.parts |-> Calls(e.parts[i])])

\* Those in a statement: what an arrow is by itself is not looked at.
CallsIn(s) ==
    IF s.does = "arrow" THEN FlattenSeq([i \in DOMAIN s.value.parts |-> Calls(s.value.parts[i])])
    ELSE Calls(s.value)

-----------------------------------------------------------------------------
\* Names are tainted with a flow, if there is one, and some no longer if there is none.
Given(scope, names, flow, clean, joined) ==
    [scope EXCEPT
        !.tainted = IF flow # NoFlow THEN [n \in names |-> flow] @@ @
                    ELSE [n \in DOMAIN @ \ clean |-> @[n]],
        !.built = (IF flow # NoFlow THEN @ ELSE @ \ clean) \cup (IF joined THEN names ELSE {})]

\* A value that is input begins a flow where it is given.
Assigned(e, scope, summaries, at) ==
    IF Uses(e, scope, DOMAIN summaries) = "request" THEN <<Step("source", at)>>
    ELSE Extended(TaintOf(e, scope, summaries, at), "assign", at, MaxAssigned)

\* Names are tainted by a tainted value, and by another no longer, unless it is added;
\* a sanitized one clears them even then.
Assign(s, scope, summaries, at) ==
    Given(scope, s.to, Assigned(s.value, scope, summaries, at),
          IF s.does = "assign" \/ s.value.is = "sanitizer" THEN s.to ELSE {},
          s.value.is = "joined")

Return(s, scope, summaries, at) ==
    [scope EXCEPT !.returns = @ \o SelectSeq(<<TaintOf(s.value, scope, summaries, at)>>,
                                             LAMBDA x : x # NoFlow)]

Write(s, scope, summaries, at) ==
    [scope EXCEPT !.sinks = @ \o Report(IF s.does = "html" THEN "template" ELSE "redirect",
                                        TaintOf(s.value, scope, summaries, at), at)]

\* What handles a route knows its first parameters for the request and the response.
Entered(function, scope) ==
    LET params(i) == {function.params[j] : j \in {i} \cap DOMAIN function.params} \ {"none"}
    IN IF function.is # "route" THEN scope
       ELSE [scope EXCEPT !.req = @ \cup params(1), !.res = @ \cup params(2)]

\* The nodes of a function are looked at in the order of the text, one branch after the
\* other: a statement, and then the calls in it.  A function is looked at where it is written, with what is
\* known there but for its own parameters; of that only what it reports is kept.
RECURSIVE Analyse(_, _, _, _)
Analyse(f, code, scope, summaries) ==
    LET Within(g, known) ==
            [known EXCEPT !.sinks = Analyse(g, code,
                [known EXCEPT !.tainted = [n \in DOMAIN @ \ Range(code[g].params) |-> @[n]]],
                summaries).sinks]
        Stated(s, known, at) ==
            CASE s.does \in {"assign", "augment"} -> Assign(s, known, summaries, at)
              [] s.does = "return" -> Return(s, known, summaries, at)
              [] s.does \in {"html", "location"} -> Write(s, known, summaries, at)
              [] s.does = "function" -> Within(s.fn, known)
              [] OTHER -> known
        Statement(known, k) ==
            FoldLeft(LAMBDA all, e : Call(e, all, summaries, <<f, k>>),
                     Stated(code[f].body[k], known, <<f, k>>), CallsIn(code[f].body[k]))
    IN FoldLeft(Statement, Entered(code[f], scope), [k \in DOMAIN code[f].body |-> k])

-----------------------------------------------------------------------------
\* The functions that a call can reach by their name, if it is that of one.
Helpers(code) ==
    LET named == {f \in DOMAIN code : code[f].is = "helper"}
    IN {f \in named : \A g \in named : code[g].name = code[f].name => g = f}

\* What a function does with its parameters, as far as its helpers are known.
Summary(f, code, summaries) ==
    LET seeds == [p \in Range(code[f].params) \ {"none"} |-> <<FromParam(p, <<f, 0>>)>>]
        Of(known) == Told(code[f].params, known.sinks, known.returns, <<>>, MaxSinks)
    IN Of(Analyse(f, code, Scope(seeds), summaries))

\* Round after round, from what the round before knew.
Round(code, helpers, known) ==
    [n \in {code[f].name : f \in helpers} |->
        LET f == CHOOSE g \in helpers : code[g].name = n IN Summary(f, code, known)]

Summaries(code) ==
    FoldLeft(LAMBDA known, i : Round(code, Helpers(code), known), <<>>, [i \in 1..Rounds |-> i])

\* The flows of a file, but those from a parameter, which is not input.
FlowsOf(code, summaries) ==
    Once(Ends(SelectSeq(Analyse(1, code, Scope(<<>>), summaries).sinks,
                        LAMBDA x : x.flow[1].param = "none")))

Flows(code) == FlowsOf(code, Summaries(code))

-----------------------------------------------------------------------------
(***************************************************************************)
(* What runs                                                               *)
(***************************************************************************)

\* The parts of an expression that are dangerous if they carry input.
Dangerous(e, env) ==
    LET Text(x) == x.is = "joined" \/ (x.is = "name" /\ x.on \in env.built)
        at == IF e.name = "redirect" THEN Len(e.parts) ELSE 1
    IN {x \in {e.parts[i] : i \in {at} \cap DOMAIN e.parts} :
            /\ e.is = "sink"
            /\ e.name = "sql" => Text(x)
            /\ e.name \in {"redirect", "response"} => e.on \in env.res
            /\ e.name = "response" => x.is # "object"}

\* What a function that is written here begins with.
Begins(function, env) ==
    LET routed == function.is = "route"
    IN [env EXCEPT !.carrying = @ \ Range(function.params),
                   !.req = IF routed THEN @ \cup {function.params[1]} ELSE @,
                   !.res = IF routed THEN @ \cup {function.params[2]} ELSE @]

\* The dangerous calls that input comes to when a function runs in which these names
\* carry input, and whether what it returns does, on some way through it: parts before
\* the whole, a helper where it is called, another function where it is written.
RECURSIVE Run(_, _, _)
RECURSIVE Value(_, _, _, _)

Value(code, e, env, at) ==
    LET parts == [i \in DOMAIN e.parts |-> Value(code, e.parts[i], env, at)]
        some == e.on \in env.carrying \/ \E i \in DOMAIN parts : parts[i].carries
        Carries(xs) == \E x \in xs : Value(code, x, env, at).carries
        within == UNION {parts[i].sunk : i \in DOMAIN parts} \cup
                  {x \in {<<e.name, at>>} : Carries(Dangerous(e, env))} \cup
                  {x \in {<<"nosql", at>>} : Calls(e) # <<>> /\ Calls(e)[1] = e
                                             /\ Carries(Range(Wheres(e)))}
        callee == CHOOSE g \in DOMAIN code : code[g].is = "helper" /\ code[g].name = e.name
        passed == {code[callee].params[i] : i \in {j \in DOMAIN parts : parts[j].carries}}
        called == Run(code, callee, [env EXCEPT !.carrying = passed, !.built = {},
                                                !.req = RequestNames, !.res = ResponseNames])
    IN CASE e.is = "helper" -> [carries |-> called.carries, sunk |-> within \cup called.sunk]
         [] OTHER -> [sunk |-> within,
                      carries |-> CASE e.is = "request" -> TRUE
                                    [] e.is = "property" -> some \/ e.on \in env.req
                                    [] e.is \in {"constant", "sanitizer"} -> FALSE
                                    [] OTHER -> some]

Run(code, f, env) ==
    LET body == code[f].body
        Changed(names, s, more) ==
            IF more THEN names \cup s.to ELSE names \ (IF s.does = "assign" THEN s.to ELSE {})
        Line(known, k) ==
            LET s == body[k]
                v == Value(code, s.value, known.env, <<f, k>>)
                written == {x \in {<<IF s.does = "html" THEN "template" ELSE "redirect", <<f, k>>>>} :
                               s.does \in {"html", "location"} /\ v.carries}
            IN [env |-> [known.env EXCEPT !.carrying = Changed(@, s, v.carries),
                                          !.built = Changed(@, s, s.value.is = "joined")],
                carries |-> s.does = "return" /\ v.carries,
                sunk |-> known.sunk \cup v.sunk \cup written \cup
                         (IF s.does = "function"
                          THEN Run(code, s.fn, Begins(code[s.fn], known.env)).sunk ELSE {})]
        Along(way) == FoldLeft(Line, [env |-> env, carries |-> FALSE, sunk |-> {}], way)
        ends == {Along(way) : way \in Paths(body)}
    IN [carries |-> \E x \in ends : x.carries, sunk |-> UNION {x.sunk : x \in ends}]

Reached(code) ==
    Run(code, 1, [carrying |-> {}, built |-> {}, req |-> RequestNames, res |-> ResponseNames]).sunk

\* The names that an expression reads.
RECURSIVE Reads(_)
Reads(e) == {e.on} \cup UNION {Reads(e.parts[i]) : i \in DOMAIN e.parts}

\* What the analysis says that it follows: functions that call later ones, none of which
\* is a namesake's, with nothing after a return, and helpers that read only their own
\* names.  Left out, though it does not say so, are an arrow without a body, text that a name is given both joined
\* and not, a sanitized value that is added, and a statement that gives a name that it
\* also reads in a call.
Followed(code) ==
    LET Own(f) == Range(code[f].params) \cup UNION {s.to : s \in Range(code[f].body)}
        Joins(f) == UNION {s.to : s \in {t \in Range(code[f].body) : t.value.is = "joined"}}
    IN /\ Helpers(code) = {f \in DOMAIN code : code[f].is = "helper"}
       /\ \A f \in DOMAIN code : NothingAfterReturns(code[f].body)
       /\ \A f \in DOMAIN code : \A k \in DOMAIN code[f].body :
              LET s == code[f].body[k]
              IN /\ code[f].is = "route" => Len(code[f].params) >= 2
                 /\ s.does # "arrow"
                 /\ code[f].is = "helper" =>
                        Reads(s.value) \subseteq Own(f) \cup RequestNames \cup ResponseNames \cup {"none"}
                 /\ s.to \cap Joins(f) # {} => s.value.is \in {"joined", "constant", "sanitizer"}
                 /\ s.does = "augment" => s.value.is # "sanitizer"
                 /\ Calls(s.value) # <<>> => s.to \cap Reads(s.value) = {}
                 /\ \A e \in Range(Calls(s.value)) : e.is = "helper" =>
                        \A g \in Helpers(code) : code[g].name = e.name => g > f

\* What a line reads, with what a function that is written there does.
RECURSIVE ReadsIn(_, _)
ReadsIn(code, f) ==
    LET Within(s) == IF s.does # "function" THEN {}
                     ELSE UNION Range(ReadsIn(code, s.fn)) \ Range(code[s.fn].params)
    IN [k \in DOMAIN code[f].body |-> Reads(code[f].body[k].value) \cup Within(code[f].body[k])]

\* Branches and loops are run through in order of the text, as in Python (Taint).
AllOnTheWay(code) == \A f \in DOMAIN code : OnTheWay(code[f].body, ReadsIn(code, f))
NonePassedBy(code) ==
    LET Known(f) == Range(code[f].params) \cup
                    UNION {s.to : s \in UNION {Range(code[g].body) : g \in DOMAIN code \ {f}}}
    IN \A f \in DOMAIN code : NothingPassedBy(code[f].body, ReadsIn(code, f), Known(f))

=============================================================================
