------------------------------ MODULE Attacker ------------------------------
(***************************************************************************)
(* Module 5: which path an attacker would take, and what cuts it.          *)
(*                                                                         *)
(* What an attacker can hold is a place, a step leads from one place to    *)
(* another at a cost, and a fix removes the steps of one finding,          *)
(* divergence, file or agent capability.  A step that follows from what is *)
(* held already, with no flaw, is structural.  Costs are in tenths.        *)
(*                                                                         *)
(* What patterns see in a text is given with the input: the kinds that     *)
(* match a finding (matches), whether its preconditions ask for an         *)
(* administrator (admin) and its text for an account (account).            *)
(***************************************************************************)
EXTENDS Integers, Sequences, FiniteSets, SequencesExt, TLC

\* Where each profile starts.
Personas == {"start:anonymous", "start:authenticated_user", "start:malicious_contributor",
             "start:compromised_dependency", "start:manipulated_agent"}

\* All places, in the order in which the search prefers them at equal cost.
Places == <<"accesses_admin", "changes_code", "controls_agent", "executes_code",
            "executes_on_developer", "gets_session", "publishes_release", "reaches_internal",
            "reads_files", "reads_repository", "reads_secret", "reads_user_data", "runs_in_ci",
            "sends_requests", "start:anonymous", "start:authenticated_user",
            "start:compromised_dependency", "start:malicious_contributor",
            "start:manipulated_agent", "user_account", "writes_db">>

JewelKinds == [secrets |-> "reads_secret", user_data |-> "reads_user_data",
               deployment |-> "publishes_release", administration |-> "accesses_admin",
               code_execution |-> "executes_code"]

Position == [n \in Range(Places) |-> CHOOSE i \in DOMAIN Places : Places[i] = n]

\* What is fixed to remove a step; a step of no fix has this one.
NoFix == <<"none", 0>>
Step(from, to, cost, fix, tentative, structural) ==
    [from |-> from, to |-> to, cost |-> cost, fix |-> fix, tentative |-> tentative,
     structural |-> structural]

\* A step that is there or not.
Option(test, step) == IF test THEN <<step>> ELSE <<>>

-----------------------------------------------------------------------------
(***************************************************************************)
(* Where steps come from                                                   *)
(***************************************************************************)

\* The kinds of flaw, the more telling first, with the categories they are of.
Kinds == <<
    <<"sql_injection", {"injection"}>>, <<"command_injection", {"injection"}>>,
    <<"code_injection", {"injection"}>>,
    <<"deserialization", {"injection", "other", "dependencies"}>>,
    <<"path_traversal", {"file_handling", "injection"}>>, <<"ssrf", {"injection", "other"}>>,
    <<"missing_auth", {"authz", "sessions"}>>, <<"privilege", {"authz", "sessions"}>>,
    <<"idor", {"authz"}>>, <<"privilege", {"authz"}>>, <<"session", {"sessions"}>>,
    <<"xss", {"xss"}>>, <<"csrf", {"csrf"}>>,
    <<"brute_force", {"rate_limiting", "sessions", "authz"}>>,
    <<"hardcoded_secret", {"secrets"}>>, <<"info_disclosure", {"error_handling"}>>,
    <<"cors", {"cors"}>> >>

Fallback == [xss |-> "xss", csrf |-> "csrf", secrets |-> "hardcoded_secret",
             rate_limiting |-> "brute_force", sessions |-> "session",
             file_handling |-> "path_traversal"]

\* matches: the positions in Kinds whose pattern is in the finding's text.
KindOf(f) ==
    LET fit == {i \in f.matches : f.category \in Kinds[i][2]}
    IN IF fit # {} THEN Kinds[CHOOSE i \in fit : \A j \in fit : i <= j][1]
       ELSE IF f.category \in DOMAIN Fallback THEN Fallback[f.category] ELSE "none"

\* What a flaw of a kind gains, and the cost of using it.
Techniques == [
    sql_injection     |-> [gains |-> <<"reads_user_data", "writes_db">>, cost |-> 10],
    command_injection |-> [gains |-> <<"executes_code">>, cost |-> 10],
    code_injection    |-> [gains |-> <<"executes_code">>, cost |-> 10],
    deserialization   |-> [gains |-> <<"executes_code">>, cost |-> 20],
    path_traversal    |-> [gains |-> <<"reads_files">>, cost |-> 10],
    ssrf              |-> [gains |-> <<"reaches_internal">>, cost |-> 10],
    idor              |-> [gains |-> <<"reads_user_data">>, cost |-> 15],
    privilege         |-> [gains |-> <<"accesses_admin">>, cost |-> 10],
    missing_auth      |-> [gains |-> <<"user_account">>, cost |-> 10],
    session           |-> [gains |-> <<"gets_session">>, cost |-> 20],
    xss               |-> [gains |-> <<"gets_session">>, cost |-> 20],
    csrf              |-> [gains |-> <<"writes_db">>, cost |-> 20],
    brute_force       |-> [gains |-> <<"user_account">>, cost |-> 35],
    hardcoded_secret  |-> [gains |-> <<"reads_secret">>, cost |-> 10],
    info_disclosure   |-> [gains |-> <<>>, cost |-> 10],
    cors              |-> [gains |-> <<"gets_session">>, cost |-> 20]]

\* A finding is a step when it was evidenced and not refuted, and tentative
\* when nothing was proved either way.
FindingEdges(f) ==
    LET kind == KindOf(f)
        from == CASE kind = "hardcoded_secret" -> "reads_repository"
                  [] kind \notin {"hardcoded_secret", "privilege", "missing_auth"} /\ f.admin ->
                         "accesses_admin"
                  [] kind \in {"idor", "csrf"} /\ ~f.admin -> "user_account"
                  [] kind = "privilege" -> "user_account"
                  [] OTHER -> IF f.account THEN "user_account" ELSE "sends_requests"
    IN IF \/ f.status \notin {"reachable", "corroborated", "inconclusive"}
          \/ ~f.verified \/ kind = "none"
       THEN <<>>
       ELSE [i \in DOMAIN Techniques[kind].gains |->
                Step(from, Techniques[kind].gains[i], Techniques[kind].cost, <<"finding", f.id>>,
                     f.status = "inconclusive", FALSE)]

\* A finding of a rule about MCP servers: where its step leads, and its cost.
McpSteps == [
    exec_in_tool            |-> <<"controls_agent", "executes_code", 10>>,
    unconfined_path         |-> <<"controls_agent", "reads_files", 10>>,
    file_resource_template  |-> <<"controls_agent", "reads_files", 10>>,
    environment_exposed     |-> <<"controls_agent", "reads_secret", 10>>,
    literal_secret_in_config |-> <<"reads_repository", "reads_secret", 10>>,
    token_in_url            |-> <<"reads_repository", "reads_secret", 10>>,
    enable_all_project_servers |-> <<"changes_code", "executes_on_developer", 30>>,
    auto_approved_tools     |-> <<"controls_agent", "executes_on_developer", 10>>,
    unpinned_package        |-> <<"start:compromised_dependency", "executes_on_developer", 20>>,
    pipe_to_shell           |-> <<"start:compromised_dependency", "executes_on_developer", 20>>,
    unpinned_image          |-> <<"start:compromised_dependency", "executes_on_developer", 20>>,
    plain_http_remote       |-> <<"reaches_internal", "controls_agent", 20>>,
    instructions_in_description |-> <<"changes_code", "controls_agent", 30>>,
    invisible_characters    |-> <<"changes_code", "controls_agent", 30>>,
    external_content_unmarked |-> <<"sends_requests", "controls_agent", 20>>,
    network_server_without_auth |-> <<"sends_requests", "controls_agent", 10>>]

McpEdges(f) ==
    IF \/ f.category # "mcp" \/ ~f.verified \/ f.status = "refuted"
       \/ f.assessment = "discarded" \/ f.rule \notin DOMAIN McpSteps
    THEN <<>>
    ELSE LET step == McpSteps[f.rule]
         IN <<Step(step[1], step[2], step[3], <<"finding", f.id>>,
                   f.assessment # "confirmed", FALSE)>>

\* A file that runs by itself and is little watched, and how hard a change is to
\* get in: as hard as into the weakest watched file.  Leverage and oversight are
\* in tenths.
LeverageEdges(rows) ==
    LET fix(r) == <<"leverage", r.id>>
        gain(r) == IF {"ci_workflow", "run_by"} \cap r.codes # {} THEN "runs_in_ci"
                   ELSE IF "agent_config" \in r.codes THEN "controls_agent"
                   ELSE "executes_on_developer"
        of(r) ==
            Option("ci_pr_target" \in r.codes,
               Step("start:malicious_contributor", "runs_in_ci", 10, fix(r), FALSE, FALSE)) \o
            Option(/\ r.leverage >= 7 /\ r.oversight < 6
               /\ {"ci_workflow", "install_script", "run_by", "agent_config"} \cap r.codes # {},
               Step("changes_code", gain(r), 30, fix(r), FALSE, FALSE)) \o
            Option("ci_secrets" \in r.codes,
               Step("runs_in_ci", "reads_secret", 10, fix(r), FALSE, TRUE)) \o
            Option("ci_deploy" \in r.codes,
               Step("runs_in_ci", "publishes_release", 10, fix(r), FALSE, TRUE))
        watched == {i \in DOMAIN rows : rows[i].leverage >= 7}
        weakest == CHOOSE i \in watched : \A j \in watched :
                       \/ rows[i].oversight < rows[j].oversight
                       \/ rows[i].oversight = rows[j].oversight /\ i <= j
    IN FlattenSeq([i \in DOMAIN rows |-> of(rows[i])]) \o
       Option(watched # {},
              Step("start:malicious_contributor", "changes_code",
                   10 + 4 * rows[weakest].oversight, fix(rows[weakest]), FALSE, FALSE))

DivergenceEdges(rows) ==
    LET fix(d) == <<"divergence", d.id>>
        of(d) == CASE d.kind = "hidden_content" ->
                          <<Step("changes_code", "controls_agent", 10, fix(d), FALSE, FALSE)>>
                   [] d.kind = "unexpected_execution" ->
                          <<Step("reads_repository", "executes_on_developer", 20, fix(d),
                                 FALSE, FALSE),
                            Step("changes_code", "reads_repository", 0, fix(d), FALSE, TRUE)>>
                   [] OTHER -> <<>>
    IN FlattenSeq([i \in DOMAIN rows |-> of(rows[i])])

\* A combination of capabilities the repository gives its agent; its fix is all
\* of the capabilities it combines.
AgentEdges(combinations) ==
    LET of(c) == Step("controls_agent",
                      IF c.kind = "exfiltration" THEN "reads_secret" ELSE "executes_on_developer",
                      IF c.unattended THEN 10 ELSE 20, <<"agent", c.steps>>, FALSE, FALSE)
    IN FlattenSeq([i \in DOMAIN combinations |->
                      Option(combinations[i].steps # {}, of(combinations[i]))])

\* What holding one thing gives without any flaw.
StructuralEdges(deploys) ==
    LET e(from, to, cost) == Step(from, to, cost, NoFix, FALSE, TRUE)
    IN <<e("start:anonymous", "sends_requests", 0),
         e("start:authenticated_user", "sends_requests", 0),
         e("start:authenticated_user", "user_account", 0),
         e("start:malicious_contributor", "reads_repository", 0),
         e("start:compromised_dependency", "executes_code", 0),
         e("start:manipulated_agent", "controls_agent", 0),
         e("user_account", "sends_requests", 0), e("gets_session", "user_account", 0),
         e("executes_code", "reads_secret", 10), e("executes_code", "reads_user_data", 10),
         e("executes_code", "writes_db", 10), e("executes_code", "reads_files", 0),
         e("accesses_admin", "reads_user_data", 10), e("accesses_admin", "writes_db", 10),
         e("reads_files", "reads_secret", 10), e("reaches_internal", "reads_secret", 20),
         e("writes_db", "accesses_admin", 20), e("changes_code", "reads_repository", 0),
         e("executes_on_developer", "reads_secret", 10),
         e("controls_agent", "executes_on_developer", 10)>> \o
       IF deploys THEN <<e("reads_secret", "publishes_release", 10)>> ELSE <<>>

\* All the steps, in the order in which the search meets them.
Edges(in) ==
    StructuralEdges(\E i \in DOMAIN in.leverage : "ci_deploy" \in in.leverage[i].codes) \o
    FlattenSeq([i \in DOMAIN in.findings |->
        IF FindingEdges(in.findings[i]) # <<>> THEN FindingEdges(in.findings[i])
        ELSE McpEdges(in.findings[i])]) \o
    LeverageEdges(in.leverage) \o DivergenceEdges(in.divergences) \o AgentEdges(in.combinations)

Goals(in) == {JewelKinds[j] : j \in in.jewels}

-----------------------------------------------------------------------------
(***************************************************************************)
(* Paths                                                                   *)
(***************************************************************************)

Least(ns) == CHOOSE n \in ns : \A m \in ns : n <= m

\* The steps that lead out of what a tree reaches, and the cost of a place by one.
Outgoing(edges, allowed, tree) ==
    {i \in allowed : edges[i].from \in DOMAIN tree /\ edges[i].to \notin DOMAIN tree}
CostBy(edges, tree, i) == tree[edges[i].from].cost + edges[i].cost

\* Mutant: the search takes places by the number of steps.
NearestFirstFound(edges, tree, out) == Least(out)

\* Those of the lowest value.
Lowest(some, value) == {i \in some : \A j \in some : value[i] <= value[j]}

\* The step to the nearest place, by name among equals; of steps that lead there for
\* the same cost the one from the place settled first, and of these the first.
Nearest(edges, tree, out) ==
    LET near == Lowest(out, [i \in out |-> CostBy(edges, tree, i)])
        there == Lowest(near, [i \in out |-> Position[edges[i].to]])
    IN Least(Lowest(there, [i \in out |-> tree[edges[i].from].rank]))

\* A place joins the tree by step i, the k-th to do so.
Join(edges, tree, i, k) ==
    [n \in DOMAIN tree \cup {edges[i].to} |->
        IF n \in DOMAIN tree THEN tree[n]
        ELSE [cost |-> CostBy(edges, tree, i), back |-> i, rank |-> k]]

\* The k-th place is settled, if there is one.
Settle(edges, allowed, tree, k) ==
    LET out == Outgoing(edges, allowed, tree)
    IN IF out = {} THEN tree ELSE Join(edges, tree, Nearest(edges, tree, out), k)

\* The tree of cheapest paths from start over the allowed steps: the cost of every
\* place it reaches, the step by which it does, and when it was settled.
Cheapest(edges, start, allowed) ==
    LET tree[k \in 0..Len(Places) - 1] ==
            IF k = 0 THEN [n \in {start} |-> [cost |-> 0, back |-> 0, rank |-> 0]]
            ELSE Settle(edges, allowed, tree[k - 1], k)
    IN tree[Len(Places) - 1]

Reaches(tree, n) == n \in DOMAIN tree

\* The steps of the path to a place.
PathTo(edges, tree, n) ==
    LET steps[m \in DOMAIN tree] ==
            IF tree[m].back = 0 THEN {} ELSE {tree[m].back} \cup steps[edges[tree[m].back].from]
    IN steps[n]

\* From 0, critical, to 3, low; a tentative path is one milder.
PathSeverity(cost, tentative) ==
    LET level == IF cost <= 30 THEN 0 ELSE IF cost <= 50 THEN 1 ELSE IF cost <= 80 THEN 2 ELSE 3
    IN IF tentative /\ level < 3 THEN level + 1 ELSE level

\* The cheapest path of each profile to each jewel, unless no step of it is a flaw.
Paths(edges, goals, allowed) ==
    LET tree == [p \in Personas |-> Cheapest(edges, p, allowed)]
        path(p, g) ==
            LET steps == PathTo(edges, tree[p], g)
            IN [persona |-> p, goal |-> g, steps |-> steps, cost |-> tree[p][g].cost,
                severity |-> PathSeverity(tree[p][g].cost, \E i \in steps : edges[i].tentative)]
    IN {x \in UNION {{path(p, g) : g \in goals \cap DOMAIN tree[p]} : p \in Personas} :
           \E i \in x.steps : ~edges[i].structural}

\* The severities of the cheapest paths that a profile takes step i on, if what
\* the step gives was not to be had before for as little.
Through(edges, i, start, goals) ==
    LET all == DOMAIN edges
        head == Cheapest(edges, start, all)
        held == Cheapest(edges, start, all \ {i})
        tail == Cheapest(edges, edges[i].to, all)
        path(g) == PathTo(edges, head, edges[i].from) \cup {i} \cup PathTo(edges, tail, g)
        before == head[edges[i].from].cost
    IN IF \/ ~Reaches(head, edges[i].from)
          \/ Reaches(held, edges[i].to) /\ held[edges[i].to].cost <= before
       THEN {}
       ELSE {PathSeverity(before + edges[i].cost + tail[g].cost,
                          \E j \in path(g) : edges[j].tentative) :
                g \in goals \cap DOMAIN tail}

\* Mutant: only the first step of a finding counts.
ContextualSeverityFirst(edges, goals) ==
    LET flaws == {i \in DOMAIN edges : edges[i].fix[1] = "finding"}
        of(id) == LET i == CHOOSE i \in flaws : /\ edges[i].fix[2] = id
                                                /\ \A j \in flaws : edges[j].fix[2] = id => i <= j
                  IN UNION {Through(edges, i, p, goals) : p \in Personas}
        ids == {edges[i].fix[2] : i \in flaws}
    IN [id \in {x \in ids : of(x) # {}} |-> CHOOSE s \in of(id) : \A t \in of(id) : s <= t]

\* What a finding is worth: the gravest path that takes a step of it.
ContextualSeverity(edges, goals) ==
    LET flaws == {i \in DOMAIN edges : edges[i].fix[1] = "finding"}
        of(id) == UNION {Through(edges, i, p, goals) :
                            i \in {j \in flaws : edges[j].fix[2] = id}, p \in Personas}
        severities == [id \in {edges[i].fix[2] : i \in flaws} |-> of(id)]
    IN [id \in {x \in DOMAIN severities : severities[x] # {}} |->
           CHOOSE s \in severities[id] : \A t \in severities[id] : s <= t]

-----------------------------------------------------------------------------
(***************************************************************************)
(* The fixes to recommend                                                  *)
(***************************************************************************)

\* How many fixes are recommended at most.
CutLimit == 3

Pairs(paths) == {<<p.persona, p.goal>> : p \in paths}
TotalCost(paths) == FoldSet(LAMBDA p, total : total + p.cost, 0, paths)

\* Mutant: every path that takes a step of a fix counts as cut by it.
MinCutOnPath(edges, goals) ==
    LET solid == {i \in DOMAIN edges : ~edges[i].tentative}
        fixable == {i \in solid : edges[i].fix # NoFix /\ ~edges[i].structural}
        ids(fix) == {i \in fixable : edges[i].fix = fix}
        More(c, k) ==
            LET tried == [fix \in {edges[i].fix : i \in fixable} \ Range(c.chosen) |->
                    [cut |-> c.remaining \cap Pairs({x \in Paths(edges, goals, solid) :
                                                       x.steps \cap ids(fix) # {}})]]
                cutting == {fix \in DOMAIN tried : tried[fix].cut # {}}
                best == CHOOSE f \in cutting : \A g \in cutting :
                            Cardinality(tried[f].cut) >= Cardinality(tried[g].cut)
            IN IF c.remaining = {} \/ cutting = {} THEN c
               ELSE [chosen |-> Append(c.chosen, best),
                     remaining |-> c.remaining \ tried[best].cut]
    IN FoldLeft(More, [chosen |-> <<>>, remaining |-> Pairs(Paths(edges, goals, solid))],
                [k \in 1..CutLimit |-> k])

\* The solid steps of a fix, and what is left of the paths without them: the pairs
\* that it cuts, and what the other paths cost.
StepsOf(edges, fix) ==
    {i \in DOMAIN edges : ~edges[i].tentative /\ ~edges[i].structural /\ edges[i].fix = fix}

Without(edges, fix, remaining, left) ==
    [cut |-> remaining \ Pairs(left), cost |-> TotalCost(left), place |-> Least(StepsOf(edges, fix))]

\* A fix is as good as another: it cuts more, or as many and makes what stays dearer,
\* or is met no later.
AsGood(tried, f, g) ==
    LET size == Cardinality(tried[f].cut)
        other == Cardinality(tried[g].cut)
    IN \/ size > other
       \/ size = other /\ tried[f].cost > tried[g].cost
       \/ size = other /\ tried[f].cost = tried[g].cost /\ tried[f].place <= tried[g].place
BestFix(tried, cutting) == CHOOSE f \in cutting : \A g \in cutting : AsGood(tried, f, g)

Recommend(c, tried, best) ==
    [chosen |-> Append(c.chosen, best), remaining |-> c.remaining \ tried[best].cut]

ChooseFix(c, tried) ==
    LET cutting == {fix \in DOMAIN tried : tried[fix].cut # {}}
    IN IF c.remaining = {} \/ cutting = {} THEN c ELSE Recommend(c, tried, BestFix(tried, cutting))

\* The steps that hold for certain, and the fixes that remove some of them.
Solid(edges) == {i \in DOMAIN edges : ~edges[i].tentative}
Fixes(edges) == {edges[i].fix : i \in {j \in Solid(edges) : ~edges[j].structural}} \ {NoFix}

\* What every other fix would do, beside those that are chosen.
Tried(edges, goals, c) ==
    LET removed(fix) == UNION {StepsOf(edges, f) : f \in Range(c.chosen) \cup {fix}}
    IN [fix \in Fixes(edges) \ Range(c.chosen) |->
           Without(edges, fix, c.remaining, Paths(edges, goals, Solid(edges) \ removed(fix)))]

ChooseNext(edges, goals, c) == ChooseFix(c, Tried(edges, goals, c))

\* One fix after another is chosen: the one without which the most pairs of a
\* profile and a jewel are left without a path worth reporting.  Tentative steps are
\* left out.
MinCut(edges, goals) ==
    LET round[k \in 0..CutLimit] ==
            IF k = 0 THEN [chosen |-> <<>>, remaining |-> Pairs(Paths(edges, goals, Solid(edges)))]
            ELSE ChooseNext(edges, goals, round[k - 1])
    IN round[CutLimit]

\* The crown jewels that the repository itself points at.
SuggestJewels(uses, in) ==
    {"secrets"} \cup
    (IF uses.db \/ \E i \in DOMAIN in.findings :
                      KindOf(in.findings[i]) \in {"sql_injection", "idor"}
     THEN {"user_data"} ELSE {}) \cup
    (IF \E i \in DOMAIN in.leverage : "ci_deploy" \in in.leverage[i].codes
     THEN {"deployment"} ELSE {}) \cup
    (IF uses.admin THEN {"administration"} ELSE {})

=============================================================================
