----------------------------- MODULE MCAnalyses -----------------------------
(***************************************************************************)
(* Small inputs for every analysis.                                        *)
(***************************************************************************)
EXTENDS FlowsAndPackages, TLC

FlowsOf(in) == X!AnalyzeTaint(in)
PackagesOf(in) == I!RecordDependencies(in)

\* Sequences of members of a set, at least a and at most n of them.
Lists(of, a, n) == UNION {[1..k -> of] : k \in a..n}

-----------------------------------------------------------------------------
\* Programs of three functions, the third of which may be a namesake of the
\* second.  A function may call another, with a value; module-level code may
\* mention the third, a script may call the first.
CallValues == {"none", "constant", "parameter", "tainted"}
Called == {<<1, 2>>, <<1, 3>>, <<2, 3>>, <<3, 2>>}

Fn(names, calls, marked, value) ==
    [i \in 1..3 |->
        LET out == {e \in Called : e[1] = i /\ calls[e] # "none"}
        IN [name |-> names[i], file |-> IF i = 3 THEN "f2" ELSE "f1", marked |-> i \in marked,
            bare |-> {names[e[2]] : e \in out}, attr |-> {}, runs |-> {e[2] : e \in out},
            passes |-> {[name |-> names[e[2]], value |-> calls[e]] : e \in out},
            body |-> <<[reads |-> FALSE, cited |-> TRUE, match |-> "dangerous", value |-> value]>>]]

Programs ==
    {[fn |-> Fn(names, calls, marked, value), module |-> m, doors |-> d, outside |-> {}] :
        names \in {<<"a", "b", "c">>, <<"a", "b", "b">>},
        calls \in {c \in [Called -> CallValues] : c[<<1, 3>>] # "parameter" /\ c[<<3, 2>>] # "tainted"},
        marked \in {{}, {1}, {3}}, value \in {"parameter", "sanitized"},
        m \in {{}, {"c"}}, d \in {{}, {"a"}}}

Finding(names, complete, claim) ==
    [verified |-> TRUE, python |-> TRUE, category |-> "flow", complete |-> complete,
     source |-> [names |-> names, files |-> {}], sink |-> [names |-> <<"c">>, files |-> {}],
     at |-> 3, file |-> "f2", claim |-> claim]

NoClaim == [verdict |-> "none", quoted |-> FALSE]

Assessed ==
    {[code |-> c, finding |-> f] : c \in Programs,
        f \in {Finding(<<>>, FALSE, NoClaim), Finding(<<"a">>, TRUE, NoClaim),
               Finding(<<"x", "b">>, TRUE, [verdict |-> "false_positive", quoted |-> TRUE])}}

-----------------------------------------------------------------------------
\* Up to two of some findings, files that are little watched, divergences and
\* combinations.
Flaw(k, category, status, admin, account) ==
    [matches |-> {k}, category |-> category, status |-> status, verified |-> TRUE,
     admin |-> admin, account |-> account, rule |-> "none", assessment |-> "none"]
McpFlaw(rule, assessment) ==
    [matches |-> {}, category |-> "mcp", status |-> "exists", verified |-> TRUE,
     admin |-> FALSE, account |-> FALSE, rule |-> rule, assessment |-> assessment]

Flaws == <<Flaw(1, "injection", "reachable", FALSE, FALSE),
           Flaw(2, "injection", "corroborated", TRUE, FALSE),
           Flaw(2, "injection", "inconclusive", FALSE, FALSE),
           Flaw(7, "authz", "reachable", FALSE, FALSE),
           Flaw(9, "authz", "reachable", FALSE, TRUE),
           McpFlaw("environment_exposed", "confirmed")>>

FlawLists ==
    LET Id(f, i) == [k \in DOMAIN f \cup {"id"} |-> IF k = "id" THEN i ELSE f[k]]
    IN {<<>>} \cup {<<Id(Flaws[i], i)>> : i \in DOMAIN Flaws}
       \cup {<<Id(Flaws[e[1]], e[1]), Id(Flaws[e[2]], e[2])>> :
                e \in {p \in (DOMAIN Flaws) \X (DOMAIN Flaws) : p[1] < p[2]}}

Watched == {<<>>,
            <<[id |-> 1, codes |-> {"ci_workflow", "ci_secrets", "ci_deploy"}, leverage |-> 8,
               oversight |-> 3]>>,
            <<[id |-> 1, codes |-> {"agent_config"}, leverage |-> 8, oversight |-> 7],
              [id |-> 2, codes |-> {"ci_workflow", "ci_pr_target"}, leverage |-> 9,
               oversight |-> 2]>>}

Attacks ==
    {[findings |-> fs, leverage |-> w, divergences |-> d.divergences,
      combinations |-> d.combinations, jewels |-> js,
      uses |-> [db |-> FALSE, admin |-> TRUE]] :
        fs \in FlawLists, w \in Watched, js \in {DOMAIN A!JewelKinds, {"administration"}},
        d \in {[divergences |-> <<>>, combinations |-> <<>>],
               [divergences |-> <<[id |-> 1, kind |-> "hidden_content"],
                                  [id |-> 2, kind |-> "unexpected_execution"]>>,
                combinations |-> <<[kind |-> "exfiltration", unattended |-> TRUE,
                                    steps |-> {1, 2}]>>]}}

-----------------------------------------------------------------------------
\* A workflow that two commits changed, through a merged pull request and without
\* one, on a repository that GitHub tells less or more of.
Commit(sha, merge, brings, squash, ai) ==
    [sha |-> sha, merge |-> merge, brings |-> brings, squash |-> squash, ai |-> ai,
     files |-> {"ci.yml", "app.py"}]

Truth(protected, rule, approvers) ==
    (<<"repo">> :> [found |-> TRUE]) @@
    (<<"branch">> :> [found |-> TRUE, protected |-> protected, reviews |-> 0]) @@
    (<<"rules">> :> [found |-> rule, protected |-> rule, reviews |-> 1]) @@
    (<<"pulls", 1>> :> [found |-> TRUE, pr |-> 7, author |-> "u"]) @@
    (<<"reviews", 7>> :> [found |-> TRUE, approvers |-> approvers]) @@
    (<<"pulls", 2>> :> [found |-> TRUE, pr |-> 0, author |-> "u"])

Reviewed ==
    {[files |-> <<[name |-> "ci.yml", kind |-> "ci_workflow", tier |-> "auto_execution",
                   marks |-> {"ci_deploy"}, run_by |-> FALSE, divergences |-> {}, findings |-> 1,
                   attacked |-> FALSE],
                  [name |-> "app.py", kind |-> "none", tier |-> "code", marks |-> {},
                   run_by |-> run_by, divergences |-> {"hidden_content"}, findings |-> 0,
                   attacked |-> TRUE]>>,
      commits |-> <<Commit(2, 0, {}, 0, TRUE), Commit(3, 7, {1}, 0, FALSE),
                    Commit(1, 0, {}, 0, FALSE)>>,
      token |-> token, budget |-> budget,
      world |-> [truth |-> [t EXCEPT ![<<"repo">>] = @] @@
                           (<<"pulls", 3>> :> [found |-> TRUE, pr |-> 7, author |-> "u"]),
                 fails |-> fails],
      rules |-> <<[files |-> {"ci.yml", "app.py"}, owners |-> {"o"}],
                  [files |-> {"app.py"}, owners |-> {}]>>] :
        run_by \in BOOLEAN, token \in BOOLEAN, budget \in {0, 2, 4, 20},
        t \in {Truth(p, r, a) : p \in BOOLEAN, r \in BOOLEAN, a \in {{}, {"u"}, {"v"}}},
        fails \in {{}} \cup {{<<k>>} : k \in {"repo", "branch", "rules"}}
                  \cup {{<<"pulls", 1>>}, {<<"reviews", 7>>}, {<<"rules">>, <<"pulls", 1>>}}}

\* A settings file, a file of servers and instructions.
Agents ==
    {[settings |-> <<[file |-> "s", bypass |-> bypass, allow |-> allow, directories |-> FALSE,
                      hooks |-> hooks, command |-> FALSE, enabled |-> enabled, all |-> all]>>,
      others |-> <<[kind |-> "mcp", file |-> "m", servers |-> <<
                       [name |-> "x", local |-> TRUE, network |-> network],
                       [name |-> "y", local |-> FALSE, network |-> TRUE]>>],
                   [kind |-> "instructions", file |-> "i"]>>,
      hidden |-> hidden] :
        bypass \in BOOLEAN, enabled \in {{}, {"x"}}, all \in BOOLEAN, network \in BOOLEAN,
        hidden \in {{}, {"i"}},
        allow \in {<<>>, <<[tool |-> "Bash", broad |-> TRUE, network |-> FALSE, reads |-> FALSE],
                           [tool |-> "Read", broad |-> FALSE, network |-> FALSE, reads |-> FALSE]>>},
        hooks \in {<<>>, <<[on_start |-> TRUE, network |-> FALSE, reads |-> TRUE]>>}}

-----------------------------------------------------------------------------
\* One file with any short text; and checkouts with something that runs, blind
\* spots and a package.
Text(name, form, agent, text, comments) ==
    [name |-> name, form |-> form, agent |-> agent, text |-> text, comments |-> comments,
     spells |-> TRUE, kind |-> "text"]

Texts == Lists({"ascii", "other", "joiner", "selector", "bytes", "presentation", "tag"}, 0, 4)
         \cup Lists({"bom", "bidi", "selector"}, 1, 3)

NoPackages == [checkout |-> TRUE, links |-> {}, packages |-> <<>>, published |-> FALSE,
               rows |-> {}, padding |-> FALSE]

Plain(f, kind, more) ==
    more @@ [f EXCEPT !.kind = kind]

Runners ==
    LET base == Text("r", "json", FALSE, <<"ascii">>, {})
    IN {Plain(base, "package.json", [install |-> i, gyp |-> g, installs_hooks |-> h]) :
            i \in {<<>>, [install |-> "suspicious"], [prepare |-> "plain"]}, g \in BOOLEAN,
            h \in BOOLEAN}
       \cup {Plain(base, "tasks.json", [tasks |-> {[on |-> "folderOpen"]}]),
             Plain(base, "settings.json", [paths |-> {"r", "gone"}]),
             Plain(base, "devcontainer", [commands |-> {[key |-> "initializeCommand",
                                                         command |-> "plain"]}]),
             Plain(base, "claude", [hooks |-> {1}, keys |-> {}, status |-> {}, all |-> TRUE]),
             Plain(base, "gitattributes", [drivers |-> {"d"}]),
             Plain(base, "setup.py", [cmdclass |-> {1}, calls |-> {1}]),
             Plain(base, "pyproject", [own_backend |-> TRUE]),
             Plain(base, "pth", [imports |-> TRUE])}

Hook == Plain(Text("h", "code", FALSE, <<>>, {}), "git_hook", [body |-> "routine"])
Mcp == Plain(Text("m", "json", TRUE, <<>>, {}), "mcp",
             [servers |-> {[local |-> TRUE, command |-> "plain"]}])

Package ==
    [versioned |-> TRUE, registry |-> "served", tagged |-> TRUE, broken |-> FALSE,
     tree |-> [a |-> [readable |-> TRUE, content |-> "1"], b |-> [readable |-> FALSE, content |-> "1"]],
     published |-> [p \in {"a", "c", "d"} |->
         [generated |-> FALSE, version_file |-> FALSE, content |-> "2", code |-> p # "d",
          build_output |-> p = "d", compiled |-> FALSE]]]

Rows == {[file |-> "e", tier |-> 1, audited |-> FALSE, partly |-> FALSE, why |-> "failed"],
         [file |-> "g", tier |-> 5, audited |-> TRUE, partly |-> TRUE, why |-> "audited"]}

Checkouts ==
    {[NoPackages EXCEPT !.checkout = c] @@ [files |-> {Text("t", form, agent, text, {})}] :
        c \in BOOLEAN, text \in Texts, form \in {"code", "markdown"}, agent \in BOOLEAN}
    \cup {[NoPackages EXCEPT !.packages = <<[Package EXCEPT !.registry = g, !.broken = b]>>,
                             !.published = TRUE, !.rows = rs, !.padding = p,
                             !.links = l] @@ [files |-> {r, Hook, Mcp}] :
              r \in Runners, rs \in SUBSET Rows, p \in BOOLEAN, b \in BOOLEAN,
              g \in {"served", "absent", "error"}, l \in {{}, {[name |-> "h", outside |-> TRUE]}}}

-----------------------------------------------------------------------------
\* Three files, of more lines than a request has room for among them, one of which
\* alone has more.
File(tier, known, text, lines) ==
    [directory |-> "no", ignored |-> FALSE, link |-> FALSE, known |-> known, script |-> FALSE,
     text |-> text, tier |-> tier, lines |-> lines, width |-> 30, hint |-> 0, shape |-> 1]

FileKinds == {File(1, FALSE, TRUE, 25), File(2, TRUE, FALSE, 3), File(4, TRUE, TRUE, 70),
              File(5, TRUE, TRUE, 30), File(6, FALSE, TRUE, 3),
              [File(3, TRUE, TRUE, 3) EXCEPT !.link = TRUE]}

Names == <<"f", "g", "h">>

Audits(kinds) ==
    {[files |-> [i \in 1..3 |-> [k \in DOMAIN fs[i] \cup {"name"} |->
                                    IF k = "name" THEN Names[i] ELSE fs[i][k]]],
      only |-> only, budget |-> 2600, overhead |-> 200, requests |-> n, answers |-> as] :
        fs \in [1..3 -> kinds], only \in {{}, {"f", "g"}}, n \in 1..2,
        as \in [1..2 -> {[kind |-> "aborts"], [kind |-> "garbled"],
                         [kind |-> "answers",
                          findings |-> <<[print |-> 1, verified |-> FALSE, severity |-> 1],
                                         [print |-> 1, verified |-> TRUE, severity |-> 2]>>]}]}

Claims ==
    {[findings |-> fs, limit |-> n, answer |-> [kind |-> k, of |-> of]] :
        fs \in [1..2 -> [verified : BOOLEAN, complete : {TRUE}, located : BOOLEAN, severity : 1..2]],
        n \in 1..2, k \in {"answers", "garbled"}, of \in [{1, 2} -> {"holds", "false_positive", "x"}]}

Fixes ==
    {[fixed |-> <<[print |-> "p", fix |-> f, vulnerable |-> TRUE, language |-> TRUE],
                  [print |-> "q", fix |-> TRUE, vulnerable |-> TRUE, language |-> TRUE]>>,
      known |-> known, limit |-> n, answer |-> [kind |-> "answers", of |-> of]] :
        f \in BOOLEAN, known \in SUBSET {"p", "q"}, n \in 1..2, of \in [{1, 2} -> {"none", "r"}]}

-----------------------------------------------------------------------------
\* Two files, one or both of which take decoys.
Line(kind) == [kind |-> kind, of |-> 0]
Source(lang, parses, kinds) ==
    [lang |-> lang, parses |-> parses, lines |-> [i \in DOMAIN kinds |-> Line(kinds[i])]]

Sources == {Source("python", TRUE, <<"other", "decorator", "head", "other", "blank">>),
            Source("python", FALSE, <<"head", "other", "blank", "blank">>),
            Source("javascript", TRUE, <<"head", "other", "head", "other">>),
            Source("other", TRUE, <<"other">>)}

Decoys ==
    {[files |-> fs, count |-> n, order |-> <<2, 1>>, kinds |-> kinds, places |-> places,
      chunks |-> <<[failed |-> FALSE, segments |-> <<[lang |-> fs[1].lang, partial |-> FALSE]>>]>>,
      answer |-> [kind |-> "answers", findings |-> {[file |-> 2, names |-> 0, line |-> 4]}]] :
        fs \in [1..2 -> Sources], n \in 0..3, places \in [1..3 -> 1..3],
        kinds \in {<<"mcp_tool_exec", "code_eval", "sql_injection">>,
                   <<"code_eval", "mcp_tool_exec", "path_traversal">>,
                   <<"sql_injection", "code_eval", "mcp_tool_exec">>}}

\* Files of four lines, of which a request carried all, or two.
Lines == {<<>>, <<"a", "b">>, <<"b", "s1">>}
Quotes == {<<"b">>, <<"a", "b">>, <<"b", "[s1]">>, <<"[s2]">>}

Evidences ==
    {[file |-> [readable |-> file[1], lines |-> file[2]],
      finding |-> [snippet |-> [i \in DOMAIN q |-> [numbered |-> i = 1 /\ n, tokens |-> q[i]]],
                   line |-> hint, chunk |-> chunk, verified |-> hint = 0 \/ file[1]],
      manifest |-> [known |-> known,
                    parts |-> <<[index |-> 1, ranges |-> <<<<1, 2>>>>],
                                [index |-> 2, ranges |-> <<<<3, 4>>, <<2, 9>>>>]>>]] :
        file \in ({TRUE} \X [1..4 -> Lines]) \cup {<<FALSE, [i \in 1..4 |-> <<"a", "b">>]>>},
        q \in Lists(Quotes, 0, 2), n \in BOOLEAN,
        hint \in {0, 4}, chunk \in {0, 2}, known \in BOOLEAN}

-----------------------------------------------------------------------------
\* What auditors claim: code that is there and code that is not, graver or less;
\* what scanners and rules find, at the same lines or not.
Claim(print, severity, at, snippet, weighed) ==
    [print |-> print, severity |-> severity, category |-> "flow", file |-> "f", at |-> at,
     line |-> 0, snippet |-> snippet, verified |-> TRUE, weighed |-> weighed]

Told == {Claim(1, "high", 4, TRUE, "corroborated"), Claim(2, "high", 0, TRUE, "inconclusive"),
         Claim(2, "low", 0, FALSE, "reachable"), Claim(3, "high", 7, TRUE, "refuted"),
         [Claim(4, "low", 7, TRUE, "reachable") EXCEPT !.verified = FALSE]}

Rule(module, print, at, stated, dynamic) ==
    [Claim(print, "high", at, TRUE, "inconclusive") EXCEPT !.line = at] @@
    [module |-> module, stated |-> stated, dynamic |-> dynamic]

RuleFinds == {<<>>, <<Rule("taint", 1, 4, "none", FALSE)>>,
              <<Rule("mcp", 5, 4, "confirmed", FALSE), Rule("secrets", 6, 9, "none", FALSE)>>,
              <<Rule("taint", 5, 9, "potential", TRUE)>>}

Earlier(prints) ==
    [i \in DOMAIN prints |-> [print |-> prints[i]]]

Removes(text, back) ==
    <<[file |-> "f", tier |-> 4, deleted |-> FALSE,
       lines |-> <<[side |-> "-", shows |-> {"auth_check_removed"}, text |-> text],
                   [side |-> "+", shows |-> {}, text |-> back]>>]>>

\* The checkout, the scan of it and the commit it is compared with are there or not;
\* what the audit before found, and what is fixed since.
Views == {<<TRUE, TRUE, TRUE>>, <<TRUE, TRUE, FALSE>>, <<TRUE, FALSE, TRUE>>,
          <<FALSE, TRUE, TRUE>>, <<FALSE, FALSE, FALSE>>}
Pasts == {<<<<>>, {}>>, <<<<1, 8>>, {}>>, <<<<1, 8>>, {1, 9}>>}

Stores ==
    {[found |-> fs, checkout |-> view[1], scan |-> view[2], fails |-> fails, rules |-> rules,
      matched |-> IF m THEN <<Claim(9, "high", 4, TRUE, "none"), Claim(9, "high", 5, m, "none")>>
                  ELSE <<>>,
      canary |-> [planted |-> 2, found |-> 1, failed |-> FALSE], hidden |-> m,
      before |-> Earlier(past[1]), fixed |-> past[2],
      base |-> [known |-> TRUE, fetched |-> view[3]], diff |-> Removes("a", "b")] :
        fs \in Lists(Told, 0, 2), view \in Views, rules \in RuleFinds, m \in BOOLEAN,
        past \in Pasts,
        fails \in {{}, {"taint"}, {"falsifiability"}, {"parallax"}, {"immune"}, {"attacker"},
                   {"leverage", "drift"}}}

\* A patch to one file, for a finding of the auditor or of a rule.
Key(part, rule, anchor) == [part |-> part, rule |-> rule, file |-> "f", anchor |-> anchor]
Before == {Key("taint", "r1", 1), Key("secrets", "r2", 1)}

Run(exit, tests) == [exit |-> exit, tests |-> [t \in {1, 2} |-> tests[t]]]

Runs == {Run("ok", <<"PASSED", "PASSED">>), Run("failed", <<"PASSED", "FAILED">>),
         Run("failed", <<"FAILED", "PASSED">>), Run("failed", <<"absent", "absent">>),
         Run("timeout", <<"PASSED", "PASSED">>), Run("none_collected", <<"absent", "absent">>)}

Diffs == {<<>>, Removes("a", "b"), Removes("a", "a"),
          <<[file |-> "f", tier |-> 4, deleted |-> FALSE,
             lines |-> <<[side |-> "+", shows |-> {"tls_verification_off"}, text |-> "t"]>>]>>,
          <<[file |-> "g", tier |-> 4, deleted |-> TRUE,
             lines |-> <<[side |-> "-", shows |-> {"auth_check_removed"}, text |-> "a"]>>]>>}

Patches ==
    LET Tried(diff, cited, there, fails, finding, matched, b, a) ==
            [patch |-> [empty |-> FALSE, large |-> FALSE, special |-> FALSE, files |-> {"f"},
                        outside |-> FALSE, applies |-> TRUE, diff |-> diff],
             cloned |-> TRUE, cited |-> cited, finding |-> finding,
             before |-> [there |-> Before, fails |-> {}, stopped |-> FALSE],
             after |-> [there |-> there, fails |-> fails, stopped |-> FALSE],
             immune |-> [semgrep |-> TRUE, fails |-> FALSE, matched |-> matched],
             sandbox |-> [on |-> TRUE, fails |-> FALSE, runner |-> TRUE, before |-> b, after |-> a]]
        good == Tried(<<>>, FALSE, {}, {}, [rule |-> "none", key |-> Key("none", "none", 0)], {},
                      Run("ok", <<"PASSED", "PASSED">>), Run("failed", <<"PASSED", "FAILED">>))
    IN {Tried(diff, cited, there, fails, finding, matched, b, a) :
            diff \in Diffs, cited \in BOOLEAN, fails \in {{}, {"taint"}}, matched \in {{}, {1}},
            there \in SUBSET Before \cup {{Key("taint", "r1", 2)}, {Key("mcp", "r3", 1)}},
            finding \in {good.finding, [rule |-> "r1", key |-> Key("taint", "r1", 1)]},
            a \in Runs, b \in Runs}
       \cup {[good EXCEPT !.patch.outside = o, !.patch.applies = y, !.cloned = c, !.sandbox.on = on,
                          !.sandbox.runner = r, !.sandbox.fails = f, !.immune.fails = f] :
                o \in BOOLEAN, y \in BOOLEAN, c \in BOOLEAN, on \in BOOLEAN, r \in BOOLEAN,
                f \in BOOLEAN}

-----------------------------------------------------------------------------
\* A function that passes input on, its helper and the helper's helper; and a helper
\* that gives what it got as many names as a flow keeps steps.
Constant == [is |-> "constant", name |-> "none", parts |-> <<>>]
Input == [Constant EXCEPT !.is = "request"]
Name(n) == [Constant EXCEPT !.is = "name", !.name = n]
Of(is, name, e) == [is |-> is, name |-> name, parts |-> <<e>>]
Does(does, to, e) == [does |-> does, to |-> to, value |-> e, then |-> 0, orelse |-> 0]
Function(name, route, body) == [name |-> name, params |-> <<"p">>, route |-> route, body |-> body]

Firsts == {Input, Constant, Of("sanitizer", "int", Input), Of("helper", "g", Name("p")),
           Of("helper", "g", Constant), Of("joined", "none", Name("p")), Name("p")}

Lasts(helper) ==
    {<<Does("do", {}, Of("sink", "sql", Of("joined", "none", Name("v"))))>>,
     <<Does("do", {}, Of("helper", helper, Name("v")))>>,
     <<Does("augment", {"v"}, Constant), Does("return", {}, Name("v"))>>,
     <<Does("assign", {"v"}, Constant), Does("return", {}, Of("joined", "none", Name("v")))>>,
     <<Does("assign", {"w"}, Name("v")), Does("assign", {"v"}, Constant),
       Does("do", {}, Of("sink", "code", Name("v")))>>,
     <<Does("assign", {"v"}, Of("sink", "path", Of("helper", helper, Name("v"))))>>}

Ends == {Does("do", {}, Of("sink", "command", Name("p"))), Does("return", {}, Name("p")),
         Does("return", {}, Input), Does("return", {}, Of("sanitizer", "int", Name("p")))}

Chain(n) == [k \in 1..n |-> Does("assign", {<<"a", "b">>[(k % 2) + 1]},
                                 Name(IF k = 1 THEN "p" ELSE <<"a", "b">>[((k - 1) % 2) + 1]))]
            \o <<Does("return", {}, Name(<<"a", "b">>[(n % 2) + 1]))>>

Codes ==
    {<<Function("f", route, <<Does("assign", {"v"}, a)>> \o b),
       Function("g", {}, <<Does("assign", {"v"}, c)>> \o d),
       Function("h", {}, <<e>>)>> :
        route \in {{}, {"p"}}, a \in Firsts, b \in Lasts("g"),
        c \in {[x EXCEPT !.name = IF x.is = "helper" THEN "h" ELSE @] : x \in Firsts},
        d \in Lasts("h"), e \in Ends}
    \cup {<<Function("f", {}, <<Does("do", {}, Of("helper", "g", Input))>>),
            Function("g", {}, <<Does("do", {}, Of("helper", "h", Name("p")))>>),
            Function("h", {}, <<Does("do", {}, Of("helper", "i", Name("p")))>>),
            Function(name, {}, <<e>>)>> : e \in Ends, name \in {"g", "i"}}

ChainCodes ==
    {<<Function("f", {}, <<Does("do", {}, Of("sink", "command", Of("helper", "g", Constant)))>>),
       Function("g", {}, Chain(n))>> : n \in 1..12}

\* A helper with branches and loops, one in the other, in which names get a value and
\* are read, and which return.
Split(line, does, then, orelse) ==
    <<[line EXCEPT !.does = does, !.then = Len(then), !.orelse = Len(orelse)]>> \o then \o orelse

Bodies(line, lines) ==
    {Split(line, "if", a, b) : a \in Lists(lines, 1, 2), b \in Lists(lines, 0, 1)}
    \cup {Split(line, "try", a, b) : a \in Lists(lines, 1, 2), b \in Lists(lines, 1, 1)}
    \cup {Split(line, "loop", a, <<>>) : a \in Lists(lines, 1, 3)}
    \cup {Split(line, "loop", Split(line, "if", a, b) \o <<c>>, <<>>) :
              a \in Lists(lines, 1, 1), b \in Lists(lines, 0, 1), c \in lines}

BranchLines ==
    {Does("assign", {"v"}, Constant), Does("assign", {"v"}, Name("p")), Does("augment", {"v"}, Input),
     Does("assign", {"p"}, Constant),
     Does("assign", {"w"}, Name("v")), Does("do", {}, Of("sink", "path", Name("p"))),
     Does("return", {}, Name("w"))}

BranchCodes ==
    {<<Function("f", {}, <<Does("do", {}, Of("sink", "command", Of("helper", "g", e)))>>),
       Function("g", {}, <<Does("assign", {"v"}, a)>> \o b \o
                         <<Does("do", {}, Of("sink", "code", Name("w"))), Does("return", {}, Name("v"))>>)>> :
        e \in {Constant, Input}, a \in {Constant, Name("p")},
        b \in Bodies(Does("do", {}, Of("sink", "ssrf", Name("v"))), BranchLines)}

\* A file in JavaScript: what handles a route, a callback in it, and helpers.
Js(is, name, on, parts) == [is |-> is, name |-> name, on |-> on, parts |-> parts]
JsConstant == Js("constant", "none", "none", <<>>)
JsName(n) == Js("name", "none", n, <<>>)
JsInput(on) == Js("property", "none", on, <<>>)
JsJoined(e) == Js("joined", "none", "none", <<JsConstant, e>>)
JsDoes(does, to, e) == [fn |-> 1] @@ Does(does, to, e)
JsHolds(f) == [JsDoes("function", {}, JsConstant) EXCEPT !.fn = f]
JsFunction(is, name, params, body) == [is |-> is, name |-> name, params |-> params, body |-> body]
JsCall(g, e) == Js("helper", g, "none", <<e>>)
JsSink(kind, on, parts) == JsDoes("do", {}, Js("sink", kind, on, parts))

JsFirsts ==
    {JsConstant, JsInput("q"), JsInput("req"), JsInput("x"), JsJoined(JsInput("q")),
     Js("sanitizer", "none", "none", <<JsInput("q")>>), JsCall("g", JsInput("q")),
     JsCall("g", JsConstant)}

JsLasts ==
    {<<JsSink("sql", "db", <<JsName("v")>>)>>,
     <<JsDoes("assign", {"w"}, JsJoined(JsName("v"))), JsSink("sql", "db", <<JsName("w")>>)>>,
     <<JsSink("response", "z", <<JsName("v")>>), JsHolds(3)>>,
     <<JsDoes("do", {}, Js("call", "none", "none", <<Js("object", "none", "none",
           <<Js("where", "none", "none", <<JsName("v")>>)>>)>>)), JsHolds(3)>>,
     <<JsDoes("html", {}, JsName("v")), JsDoes("assign", {"v"}, JsConstant), JsHolds(3)>>,
     <<JsDoes("augment", {"v"}, JsConstant), JsDoes("do", {}, JsCall("g", JsName("v")))>>,
     <<JsSink("redirect", "s", <<JsConstant, Js("call", "none", "v", <<>>)>>),
       JsDoes("location", {}, JsCall("g", JsName("v")))>>}

JsGiven == {JsName("p"), JsJoined(JsName("p")), JsCall("h", JsName("p")), JsInput("request"),
            Js("sanitizer", "none", "none", <<JsName("p")>>)}

JsEnds(n) ==
    {<<JsSink("command", "none", <<JsName(n)>>)>>, <<JsDoes("return", {}, JsName(n))>>,
     <<JsDoes("assign", {n}, JsConstant), JsDoes("return", {}, JsName(n))>>,
     <<JsDoes("do", {}, Js("call", "none", "none", <<JsCall("h", JsName(n))>>))>>}

JsCodes ==
    {<<JsFunction("closure", "none", <<>>, <<JsHolds(2), JsHolds(4), JsHolds(5)>>),
       JsFunction("route", "none", <<"q", "s">>, <<JsDoes("assign", {"v"}, a)>> \o b),
       JsFunction("closure", "none", <<shadow>>, <<JsSink("response", "s", <<JsName("v")>>)>>),
       JsFunction("helper", "g", <<"p">>, <<JsDoes("assign", {"v"}, c)>> \o d),
       JsFunction("helper", "h", <<"p">>, e)>> :
        a \in JsFirsts, b \in JsLasts, shadow \in {"v", "e"}, c \in JsGiven, d \in JsEnds("v"),
        e \in {<<JsSink("path", "none", <<JsName("p")>>)>>, <<JsDoes("return", {}, JsName("p"))>>}}
    \cup {<<JsFunction("closure", "none", <<>>, <<JsHolds(2)>>),
            JsFunction("route", "none", <<"q", "s">>, <<JsDoes("do", {}, JsCall("g", JsInput("q")))>>),
            JsFunction("helper", "g", <<"p">>, <<JsDoes("do", {}, JsCall("h", JsName("p")))>>),
            JsFunction("helper", "h", <<"p">>, <<JsDoes("do", {}, JsCall("i", JsName("p")))>>),
            JsFunction("helper", name, <<"p">>, <<arrow>>)>> :
            name \in {"g", "i"}, arrow \in {JsSink("path", "none", <<JsName("p")>>),
                                            JsDoes("arrow", {}, JsCall("h", JsName("p")))}}

Tainted(name, language, codes, skipped) ==
    {<<[name |-> name, skipped |-> s, language |-> language, code |-> c]>> :
        c \in codes, s \in skipped}

\* What handles a route, with branches and a callback in them.
JsBranchLines ==
    {JsDoes("assign", {"v"}, JsConstant), JsDoes("assign", {"v"}, JsJoined(JsInput("q"))),
     JsDoes("assign", {"w"}, JsName("v")), JsSink("response", "s", <<JsName("w")>>),
     JsDoes("return", {}, JsConstant), JsHolds(3)}

JsBranchCodes ==
    {<<JsFunction("closure", "none", <<>>, <<JsHolds(2)>>),
       JsFunction("route", "none", <<"q", "s">>,
                  <<JsDoes("assign", {"v"}, a)>> \o b \o
                  <<JsSink("sql", "db", <<JsName("v")>>)>>),
       JsFunction("closure", "none", <<"e">>, <<JsSink("response", "s", <<JsName("v")>>)>>)>> :
        a \in {JsConstant, JsJoined(JsInput("q"))}, b \in Bodies(JsDoes("do", {}, JsConstant), JsBranchLines)}

TaintCases ==
    Tainted("a.py", "python", Codes \cup BranchCodes, {FALSE}) \cup Tainted("a.py", "python", ChainCodes, BOOLEAN)
    \cup Tainted("a.js", "javascript", JsCodes \cup JsBranchCodes, {FALSE})

-----------------------------------------------------------------------------
\* Manifests of up to two lines, of each format and of two formats together, and
\* what OSV and the registries know of the packages in them.
Manifest(name, format, lines) ==
    [name |-> name, format |-> format, scope |-> "runtime", lines |-> lines,
     props |-> <<>>, managed |-> <<>>]

PythonLine(kind, name, version) == [kind |-> kind, name |-> name, version |-> version]
PythonLines ==
    {PythonLine("requirement", <<"a", "a">>, <<"1">>), PythonLine("requirement", <<"a", "A">>, <<"1">>),
     PythonLine("requirement", <<"a", "a">>, <<"2">>), PythonLine("requirement", <<"b", "b">>, <<"1">>),
     PythonLine("requirement", <<"a", "a">>, <<"range">>), PythonLine("requirement", <<"b", "b">>, <<>>),
     PythonLine("url", <<"b", "b">>, <<>>), PythonLine("url", <<>>, <<>>),
     PythonLine("extra_index", <<>>, <<>>), PythonLine("index", <<>>, <<>>)}

NpmLines ==
    {[name |-> n, version |-> v, section |-> s, url |-> "range" \in Range(v) /\ s = "dev"] :
        n \in {"a", "b"}, v \in {<<"1">>, <<"range">>}, s \in {"dependencies", "dev"}}
LockLines ==
    {[name |-> n, version |-> v, scope |-> "runtime", host |-> n, http |-> n = "b"] :
        n \in {"a", "b"}, v \in {<<"1">>, <<>>}}

GoLines ==
    {[kind |-> k, name |-> "a", version |-> <<"1">>, indirect |-> i] :
        k \in {"entry", "single"}, i \in BOOLEAN}
    \cup {[kind |-> k, name |-> "none", version |-> <<>>, indirect |-> FALSE] : k \in {"open", "close"}}

Part(t) == [ref |-> FALSE, text |-> t]
Property(name) == [ref |-> TRUE, text |-> name]
PomLine(group, version) == [group |-> group, artifact |-> "a", version |-> version, test |-> FALSE]
PomLines ==
    {PomLine(g, v) : g \in {<<Part("g")>>, <<Property("p")>>},
        v \in {<<>>, <<Part("1")>>, <<Property("p")>>, <<Part("1"), Property("q")>>}}
Properties ==
    UNION {[names -> {<<Part("1")>>, <<Part("g")>>, <<Property("q")>>, <<Part("1"), Property("p")>>}] :
           names \in SUBSET {"p", "q"}}
Poms ==
    {[Manifest("pom.xml", "pom", <<l>>) EXCEPT !.props = ps, !.managed = ms] :
        l \in PomLines, ps \in Properties,
        ms \in Lists({PomLine(<<Part("g")>>, <<Property("p")>>), PomLine(<<Part("g")>>, <<Part("1")>>),
                      PomLine(<<Property("p")>>, <<Part("1")>>), PomLine(<<Part("g")>>, <<Part("2")>>)}, 0, 2)}

FileLists ==
    {<<Manifest("requirements.txt", "requirements", ls)>> : ls \in Lists(PythonLines, 0, 2)}
    \cup {<<Manifest("package-lock.json", "package_lock", ls), Manifest("package.json", "package_json", ks)>> :
              ls \in Lists(LockLines, 0, 2), ks \in Lists(NpmLines, 0, 1)}
    \cup {<<Manifest("go.mod", "go_mod", ls)>> : ls \in Lists(GoLines, 1, 3)}
    \cup {<<Manifest("package.json", "package_json", ls), Manifest("requirements.txt", "requirements", ks)>> :
              ls \in {l \in Lists(NpmLines, 2, 2) : <<l[1].name, l[1].section>> # <<l[2].name, l[2].section>>},
              ks \in {<<>>, <<PythonLine("requirement", <<"a", "a">>, <<"1">>)>>}}

Registry(age, deprecated) == [age |-> age, deprecated |-> deprecated]
World ==
    [osv |-> (<<"PyPI", "a", <<"1">>>> :> {1, 2}) @@ (<<"PyPI", "b", <<"1">>>> :> {2, 3}) @@
             (<<"PyPI", "a", <<"range">>>> :> {1}) @@ (<<"npm", "a", <<"1">>>> :> {3}) @@
             (<<"npm", "b", <<"1">>>> :> {1}) @@ (<<"Go", "a", <<"1">>>> :> {1}) @@
             (<<"Maven", <<<<Part("g")>>, "a">>, <<"1">>>> :> {1}) @@
             (<<"Maven", <<<<Part("1")>>, "a">>, <<"1">>>> :> {1}) @@
             (<<"Maven", <<<<Part("g")>>, "a">>, <<"1", "1">>>> :> {2}),
     refused |-> {}, severity |-> <<"high", "low", "none">>, untold |-> {1},
     registry |-> (<<"PyPI", "a">> :> Registry(1, TRUE)) @@ (<<"PyPI", "b">> :> Registry(9, FALSE)) @@
                  (<<"npm", "a">> :> Registry(9, FALSE)) @@ (<<"npm", "b">> :> Registry(2, FALSE))]

Limits(components, queries, batch) ==
    [components |-> components, queries |-> queries, batch |-> batch, details |-> 2, releases |-> 2, signals |-> 1,
     age |-> 5]

Inventories ==
    {[files |-> fs, limits |-> l, ask_osv |-> TRUE, ask_registries |-> TRUE,
      world |-> [World EXCEPT !.refused = refused]] :
        fs \in FileLists, refused \in {{}, {2}},
        l \in {Limits(5, 5, 1), Limits(5, 1, 1), Limits(1, 5, 2)}}
    \cup {[files |-> <<pom>>, limits |-> Limits(5, 5, 1), ask_osv |-> TRUE, ask_registries |-> FALSE,
            world |-> World] : pom \in Poms}

OnlyTainted == [taint |-> TaintCases]

AllCases ==
    [assess |-> Assessed, attack |-> Attacks, leverage |-> Reviewed, agent |-> Agents,
     parallax |-> Checkouts, audit |-> Audits(FileKinds), devil |-> Claims, rules |-> Fixes,
     canaries |-> Decoys, evidence |-> Evidences,
     store |-> Stores, patch |-> Patches, taint |-> TaintCases,
     dependencies |-> Inventories]

=============================================================================
