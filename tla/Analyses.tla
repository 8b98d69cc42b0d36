------------------------------ MODULE Analyses ------------------------------
(***************************************************************************)
(* The analyses that an audit makes of a checkout and of its findings,     *)
(* each a function of what it is given: one action per analysis, and what  *)
(* its answer must be.  Each analysis has a module of its own; here they   *)
(* are called, and an answer is fed to the next analysis where the code    *)
(* does that.                                                              *)
(***************************************************************************)
EXTENDS Integers, Sequences, FiniteSets, SequencesExt, Twin

CONSTANTS Cases,                  \* what each analysis is asked about
          MaxDivergences,         \* how many divergences are kept
          FlowsIn(_),             \* the two analyses that recurse over nested code and
          PackagesIn(_)           \* properties: FlowsAndPackages has them

F == INSTANCE Falsify
L == INSTANCE Leverage
P == INSTANCE Parallax
R == INSTANCE Requests
C == INSTANCE Canary
E == INSTANCE Evidence
S == INSTANCE Results
T == INSTANCE Trust
D == INSTANCE Drift
N == INSTANCE PullRequest
W == INSTANCE WhatIf

\* The inputs of an analysis.
Given(of) == IF of \in DOMAIN Cases THEN Cases[of] ELSE {}

\* What is weighed is an index of code, and the function that holds the cited lines.
ASSUME AssessAssumption ==
    \A in \in Given("assess") :
        F!IsIndex(in.code) /\ in.finding.at \in F!Functions(in.code) \cup {0}

\* A list is a sequence of what it holds.
IsList(s) == s \in Seq(Range(s))

\* What steps come from is listed.  What patterns see in a finding are kinds of flaw, a
\* file is watched to some degree, and jewels are of a kind.
IsAttack(in) ==
    /\ {"findings", "leverage", "divergences", "combinations", "jewels"} \subseteq DOMAIN in
    /\ IsList(in.findings) /\ IsList(in.leverage)
    /\ IsList(in.divergences) /\ IsList(in.combinations)
    /\ \A f \in Range(in.findings) :
           /\ f.matches \subseteq DOMAIN A!Kinds
           /\ {"id", "matches", "category", "status", "verified", "admin", "account", "rule",
               "assessment"} \subseteq DOMAIN f
    /\ \A r \in Range(in.leverage) : r.oversight \in Nat
    /\ in.jewels \subseteq DOMAIN A!JewelKinds

ASSUME AttackAssumption == \A in \in Given("attack") : IsAttack(in)

\* Files and commits are listed, and so many calls of GitHub are made at most.
ASSUME LeverageAssumption ==
    \A in \in Given("leverage") : IsList(in.files) /\ IsList(in.commits) /\ in.budget \in Nat

\* A patch is a list of blocks of lines; a scan has findings of its parts, each of a
\* rule, and a finding that is not of a rule has none.  A test has one result in each
\* copy, or none.
ASSUME PatchAssumption ==
    \A in \in Given("patch") :
        /\ IsList(in.patch.diff) /\ \A b \in Range(in.patch.diff) : IsList(b.lines)
        /\ \A scan \in {in.before, in.after} : \A k \in scan.there :
               k.part \in W!Parts /\ k.rule # "none"
        /\ in.finding.key.rule = in.finding.rule
        /\ DOMAIN in.sandbox.after.tests = DOMAIN in.sandbox.before.tests
        /\ \A run \in {in.sandbox.before, in.sandbox.after} :
               Range(run.tests) \subseteq {"PASSED", "FAILED", "ERROR", "absent"}

\* Claims and what scanners find have a place, a snippet or none, and are verified or
\* not; what a rule matches is at a line.  What fails is a scanner or a module.
ASSUME StoreAssumption ==
    \A in \in Given("store") :
        /\ in.checkout \in BOOLEAN /\ in.scan \in BOOLEAN
        /\ IsList(in.found) /\ IsList(in.rules) /\ IsList(in.matched)
        /\ \A f \in Range(in.found) \cup Range(in.rules) \cup Range(in.matched) :
               {"at", "line", "snippet", "verified"} \subseteq DOMAIN f
               /\ f.snippet \in BOOLEAN /\ f.verified \in BOOLEAN
        /\ \A m \in Range(in.matched) : m.at # 0
        /\ in.fails \subseteq Range(S!Scanners) \cup
               {"falsifiability", "parallax", "immune", "leverage", "attacker", "drift"}

\* A text is a list of kinds of characters.
ASSUME ViewsAssumption == \A in \in Given("parallax") : \A f \in in.files : IsList(f.text)

\* Files are told apart by name and have a tier, a request may be opened or not, and a
\* backend does one of three things with each.
ASSUME AuditAssumption ==
    \A in \in Given("audit") :
        /\ IsList(in.files)
        /\ \A i, j \in DOMAIN in.files : in.files[i].name = in.files[j].name => i = j
        /\ \A f \in Range(in.files) : f.tier \in 1..6 /\ f.hint \in Int
        /\ in.requests \in Nat
        /\ \A k \in 1..in.requests : in.answers[k].kind \in {"aborts", "garbled", "answers"}

\* Decoys go into the files that a list names, of lines that are none's yet.
ASSUME DecoysAssumption ==
    \A in \in Given("canaries") :
        /\ in.count \in Nat /\ \A i \in 1..in.count : in.places[i] \in Int
        /\ IsList(in.order) /\ Range(in.order) \subseteq DOMAIN in.files
        /\ in.files = [p \in DOMAIN in.files |-> in.files[p]]
        /\ \A p \in DOMAIN in.files :
               LET f == in.files[p]
               IN /\ f = [lang |-> f.lang, parses |-> f.parses, lines |-> f.lines]
                  /\ IsList(f.lines) /\ \A j \in DOMAIN f.lines : f.lines[j].of = 0

\* Lines are lists of tokens, and what was sent are ranges of lines.
ASSUME EvidenceAssumption ==
    \A in \in Given("evidence") :
        /\ IsList(in.file.lines) /\ \A l \in Range(in.file.lines) : IsList(l)
        /\ IsList(in.finding.snippet) /\ \A l \in Range(in.finding.snippet) : IsList(l.tokens)
        /\ in.finding.line \in Nat
        /\ in.manifest.known =>
               /\ IsList(in.manifest.parts)
               /\ \A part \in Range(in.manifest.parts) :
                      /\ IsList(part.ranges)
                      /\ \A r \in Range(part.ranges) : r[1] \in Nat \ {0} /\ r[2] \in Nat

VARIABLES asked,                  \* the analysis that runs, and what it is given
          answer                  \* what it found, once it has

vars == <<asked, answer>>

None == [of |-> "none"]

Init == asked = None /\ answer = None

\* An audit comes to an analysis.
Ask ==
    /\ asked = None
    /\ \E of \in DOMAIN Cases : \E in \in Cases[of] : asked' = [of |-> of, in |-> in]
    /\ UNCHANGED answer

Answer(of, value) ==
    /\ answer = None
    /\ answer' = [of |-> of, value |-> value]
    /\ UNCHANGED asked

-----------------------------------------------------------------------------
\* A finding is weighed.
AssessFinding ==
    asked.of = "assess" /\ Answer("assess", F!Assess(asked.in.code, asked.in.finding))

\* What the recommended fixes of a kind are.
Chosen(cut, kind) == {c[2] : c \in {d \in Range(cut.chosen) : d[1] = kind}}

\* What comes of fixes, and of confirming every finding.
Fixed(in, cut) == Simulate(in, Chosen(cut, "finding"), {},
                           UNION Chosen(cut, "agent"), Chosen(cut, "divergence"))
Confirmed(in) == Simulate(in, {}, {in.findings[i].id : i \in DOMAIN in.findings}, {}, {})

\* Paths, what each finding is worth, the fixes to recommend and what comes of them.
Attack(in, edges, goals, cut) ==
    [paths |-> A!Paths(edges, goals, DOMAIN edges),
     severity |-> A!ContextualSeverity(edges, goals), cut |-> cut,
     fixed |-> Fixed(in, cut), confirmed |-> Confirmed(in),
     suggested |-> A!SuggestJewels(in.uses, in)]

AttackOn(in) ==
    LET edges == A!Edges(in)
        goals == A!Goals(in)
    IN Attack(in, edges, goals, A!MinCut(edges, goals))

ModelAttacker == asked.of = "attack" /\ Answer("attack", AttackOn(asked.in))

\* Leverage and oversight of every file.
MapLeverage ==
    asked.of = "leverage" /\ Answer("leverage", L!AnalyzeLeverage(asked.in))

\* What an agent inherits.
MapAgentSurface ==
    asked.of = "agent" /\ Answer("agent", L!AgentSurface(asked.in, asked.in.hidden))

\* The divergences of a checkout.
Divergences(in) == [all |-> P!AllDivergences(in), kept |-> P!AnalyzeParallax(in)]

CompareViews == asked.of = "parallax" /\ Answer("parallax", Divergences(asked.in))

\* What a finished audit says of what it did not read.
Audited(plan, audit) ==
    [plan |-> plan, audit |-> audit,
     spots |-> IF audit.done THEN P!AuditBlindSpots(Range(audit.coverage), audit.padding) ELSE {},
     trust |-> IF audit.done THEN T!Band(T!CoverageScore(audit.coverage, audit.summary))
               ELSE "unknown"]

Planned(in, entries, plan) == Audited(plan, R!AuditRepository(entries, plan, in.answers))

\* The files are put into requests, the backend answers them, and what it was not
\* shown becomes blind spots.
AuditOf(in) ==
    LET entries == R!Inventory(in.files, in.only)
    IN Planned(in, entries, R!PlanChunks(entries, in.budget, in.requests, in.overhead))

AuditFiles == asked.of = "audit" /\ Answer("audit", AuditOf(asked.in))

\* The strong findings are sent back to be refuted.
AskDevil ==
    asked.of = "devil" /\
    Answer("devil", R!DevilsAdvocate(asked.in.findings, asked.in.limit, asked.in.answer))

\* Rules are asked for what was fixed.
AskRules ==
    asked.of = "rules" /\
    Answer("rules", R!ProposeRules(asked.in.fixed, asked.in.known, asked.in.limit, asked.in.answer))

\* One request is repeated with decoys in it.
Decoyed(in) ==
    LET planted == C!PlantAll(in.files, in.count, in.order, in.kinds, in.places)
    IN [planted |-> planted, check |-> C!CanaryCheck(in.chunks, in.count, planted, in.answer)]

CheckCanaries == asked.of = "canaries" /\ Answer("canaries", Decoyed(asked.in))

\* A snippet is looked for in the file.
CheckEvidence ==
    asked.of = "evidence" /\
    Answer("evidence", E!Check(asked.in.file, asked.in.finding, asked.in.manifest))

\* What the auditor said becomes rows, what the rows and modules say of trust, and
\* what a pull request is told.
Stored(in) ==
    LET stored == S!Store(in)
        drift == IF "drift" \in in.fails \/ ~in.checkout THEN <<>>
                 ELSE D!Compare(in.base, in.diff).items
    IN [stored |-> stored, drift |-> drift, limits |-> T!Limits(stored.runs),
        trust |-> {T!Band(T!EvidenceScore(stored.rows)),
                   T!Band(T!AdversarialScore(stored.canary, in.hidden))},
        unreliable |-> T!UnreliableClean(stored.rows, stored.canary),
        report |-> N!Report(stored.rows, N!FindingDiff(in.before, stored.rows, in.fixed), drift)]

StoreAudit == asked.of = "store" /\ Answer("store", Stored(asked.in))

\* A fix is tried.
TryPatch ==
    asked.of = "patch" /\ Answer("patch", W!TryPatch(asked.in))

\* Flows of input are followed.
FollowInput ==
    asked.of = "taint" /\ Answer("taint", FlowsIn(asked.in))

\* What the manifests declare is listed, and others are asked of it.
TakeInventory ==
    asked.of = "dependencies" /\ Answer("dependencies", PackagesIn(asked.in))

Next ==
    \/ Ask
    \/ AssessFinding
    \/ ModelAttacker
    \/ MapLeverage
    \/ MapAgentSurface
    \/ CompareViews
    \/ AuditFiles
    \/ AskDevil
    \/ AskRules
    \/ CheckCanaries
    \/ CheckEvidence
    \/ StoreAudit
    \/ TryPatch
    \/ FollowInput
    \/ TakeInventory

Spec == Init /\ [][Next]_vars

-----------------------------------------------------------------------------
(***************************************************************************)
(* What the answers must be                                                *)
(***************************************************************************)

Answered(of) == answer.of = of

\* Code that runs and carries input is never refuted by reading it: a missing
\* chain means that nothing at the source can come to the sink, a missing entry
\* that nothing runs it, a harmless value that no caller gives it another.  Left
\* out are two things that the code does not see (falsify.py, Index and
\* _from_callers): a call of a namesake by its bare name, and one at the level of
\* a module.  The function of the sink is the one that holds the cited lines.
NothingLiveIsRefuted ==
    Answered("assess") =>
    LET code == asked.in.code
        at == asked.in.finding.at
        source == F!Resolve(code, asked.in.finding.source, code.fn[at].file)
        Refuted(m) == m \in DOMAIN answer.value.attempts /\ answer.value.attempts[m] = "refuted"
    IN F!NoNamesakes(code) /\ code.outside = {} /\ at # 0 =>
        /\ Refuted("callgraph") => source # 0 /\ ~F!Runs(code, source, at)
        /\ Refuted("reachability") => \A f \in F!Entries(code) : ~F!Runs(code, f, at)
        /\ Refuted("sanitizer") =>
               LET value == code.fn[at].body[F!SinkCall(code, at)].value
               IN value # "tainted" /\ (value = "parameter" => at \notin F!Fed(code))
        /\ answer.value.status \in {"reachable", "corroborated"} => \A m \in F!Methods : ~Refuted(m)

\* What the steps of a path cost together.
CostOf(edges, steps) ==
    LET sum[k \in 0..Len(edges)] ==
            IF k = 0 THEN 0 ELSE sum[k - 1] + (IF k \in steps THEN edges[k].cost ELSE 0)
    IN sum[Len(edges)]

\* Costs of places are distances: no step undercuts them, and each is the cost of
\* a place reached before it and of the step from there.
Distances(edges, tree, start) ==
    /\ tree[start].cost = 0
    /\ \A e \in Range(edges) : e.from \in DOMAIN tree =>
           e.to \in DOMAIN tree /\ tree[e.to].cost <= tree[e.from].cost + e.cost
    /\ \A n \in DOMAIN tree \ {start} :
           LET e == edges[tree[n].back]
           IN /\ e.to = n /\ e.from \in DOMAIN tree /\ tree[e.from].rank < tree[n].rank
              /\ tree[n].cost = tree[e.from].cost + e.cost

\* The steps that need no flaw, and that a place is nearer by some steps than by others.
Own(edges) == {i \in DOMAIN edges : edges[i].structural}
Firm(edges) == {i \in DOMAIN edges : ~edges[i].tentative}
Nearer(edges, start, some, others, n) ==
    LET tree == A!Cheapest(edges, start, some)
        other == A!Cheapest(edges, start, others)
    IN n \in DOMAIN tree /\ (n \notin DOMAIN other \/ tree[n].cost < other[n].cost)

\* Every path reported is one that nothing undercuts, and no jewel that some flaw
\* brings nearer than what a profile is by itself goes unreported.
CheapestPaths ==
    Answered("attack") =>
    LET edges == A!Edges(asked.in)
    IN \A p \in A!Personas :
        LET tree == A!Cheapest(edges, p, DOMAIN edges)
        IN /\ Distances(edges, tree, p)
           /\ \A x \in answer.value.paths : x.persona = p =>
                  x.cost = CostOf(edges, x.steps) /\ x.cost = tree[x.goal].cost
           /\ \A g \in A!Goals(asked.in) :
                  Nearer(edges, p, DOMAIN edges, Own(edges), g) =>
                      \E x \in answer.value.paths : x.persona = p /\ x.goal = g

\* With the recommended fixes in place, no flaw brings a profile that is said to be
\* cut off nearer to its jewel than what it is by itself.
CutsHold ==
    Answered("attack") =>
    LET edges == A!Edges(asked.in)
        left == {i \in Firm(edges) : edges[i].structural \/
                                     edges[i].fix \notin Range(answer.value.cut.chosen)}
    IN \A p \in A!Personas : \A g \in A!Goals(asked.in) :
           /\ Nearer(edges, p, Firm(edges), Own(edges), g)
           /\ <<p, g>> \notin answer.value.cut.remaining
           => ~Nearer(edges, p, left, Own(edges), g)

\* Other searches agree with the paths that are reported, though their ties may break
\* another way: a finding that a path takes is at least as grave as the path is;
\* a simulation of the recommended fixes, if it can make them all, shows no certain
\* path of a pair that is said to be cut; and to confirm what is not certain closes
\* no path.
SearchesAgree ==
    Answered("attack") =>
    LET edges == A!Edges(asked.in)
    IN /\ \A x \in answer.value.paths : \A i \in x.steps :
              edges[i].fix[1] = "finding" =>
                  /\ edges[i].fix[2] \in DOMAIN answer.value.severity
                  /\ answer.value.severity[edges[i].fix[2]] <= x.severity
       /\ Chosen(answer.value.cut, "leverage") = {} =>
              \A x \in answer.value.fixed.remaining :
                  ~x.tentative => x.pair \in answer.value.cut.remaining
       /\ answer.value.confirmed.closed = {}

\* What is said of the review of a repository is what GitHub would say: a call that
\* fails, or that there is no budget for, leaves it unknown and is never read as
\* an answer.
GitHubNeverGuessed ==
    Answered("leverage") =>
    LET truth == asked.in.world.truth
        told(path) == path \notin asked.in.world.fails
    IN /\ answer.value.gh.calls <= asked.in.budget
       /\ answer.value.protection.known =>
              /\ told(<<"repo">>) /\ told(<<"branch">>) /\ told(<<"rules">>)
              /\ answer.value.protection.protected <=>
                     \E k \in {"branch", "rules"} : truth[<<k>>].found /\ truth[<<k>>].protected
       /\ \A sha \in DOMAIN answer.value.reviews :
              LET pull == truth[<<"pulls", sha>>]
                  r == answer.value.reviews[sha]
              IN /\ told(<<"pulls", sha>>) /\ r.pr = pull.pr
                 /\ r.approved => /\ told(<<"reviews", pull.pr>>)
                                  /\ \E u \in truth[<<"reviews", pull.pr>>].approvers :
                                         u # pull.author

\* A risky file that the auditor should have been shown and that no answered
\* request carried whole is a blind spot of the audit, and if none carried any of
\* it, the coverage is not called high, however much of the rest was read.
RiskyUnseenIsSaid ==
    Answered("audit") =>
    LET Carries(k, f) == \E s \in Range(answer.value.plan.chunks[k].segments) :
                             s.file = f.name /\ s.seg.lines = f.lines /\ ~s.partial
        answered == {k \in DOMAIN answer.value.plan.chunks : asked.in.answers[k].kind = "answers"}
    IN answer.value.audit.done =>
        \A i \in DOMAIN asked.in.files :
            LET f == asked.in.files[i]
            IN f.tier <= R!High /\ f.text /\ f.directory = "no" /\ ~f.link /\ ~f.ignored
               /\ (asked.in.only = {} \/ f.name \in asked.in.only)
               /\ (f.known \/ f.script \/ f.tier <= 2)
               /\ (\A k \in answered : ~Carries(k, f))
                   => /\ \E s \in answer.value.spots : s.file = f.name
                      /\ answer.value.trust = "high" => \E k \in answered :
                             \E s \in Range(answer.value.plan.chunks[k].segments) : s.file = f.name

\* Every decoy is planted whole, its lines are known, and no decoy was planted
\* within another: what is found or missed is measured where it is.
DecoysStayWhole ==
    Answered("canaries") =>
    \A i \in DOMAIN answer.value.planted.decoys :
        LET d == answer.value.planted.decoys[i]
            file == answer.value.planted.files[d.file]
        IN SubSeq(file.lines, d.at[1], d.at[2]) = C!Block(file.lang, d.kind, d.fn)

\* A line of a file holds what is quoted of it, secrets under their own masks.
Holds(quoted, line) ==
    \E p \in 0..Len(line) - Len(quoted) : \A i \in DOMAIN quoted :
        \/ quoted[i] = line[p + i]
        \/ line[p + i] \in E!Secrets /\ quoted[i] = E!Mask[line[p + i]]

\* Evidence is in the file at the lines that are stored, its lines being all that are
\* there but for blank ones, in order, and was sent to the auditor in the finding's own
\* request; a finding never becomes verified.
EvidenceIsThere ==
    Answered("evidence") =>
    LET in == asked.in
        quoted == E!SnippetLines(in.finding.snippet)
        from == answer.value.lines[1]
        to == answer.value.lines[2]
    IN /\ answer.value.verified => in.finding.verified
       /\ answer.value.verified /\ in.finding.snippet # <<>> => answer.value.lines # <<>>
       /\ answer.value.lines # <<>> =>
              /\ \E at \in [DOMAIN quoted -> from..to] :
                     /\ \A k, l \in DOMAIN quoted : k < l => at[k] < at[l]
                     /\ \A i \in from..to : in.file.lines[i] = <<>> \/ i \in Range(at)
                     /\ \A k \in DOMAIN quoted : Holds(quoted[k], in.file.lines[at[k]])
              /\ in.manifest.known =>
                     \E k \in DOMAIN in.manifest.parts :
                         /\ in.finding.chunk \in {0, in.manifest.parts[k].index}
                         /\ \E r \in Range(in.manifest.parts[k].ranges) : r[1] <= from /\ to <= r[2]

\* Where two characters that can carry a byte each stand together, one that is for
\* bytes only is in a run that is reported, and so is any other, unless one of the two
\* chooses a presentation: decode_hidden counts U+FE0E and U+FE0F as bytes, and the scan
\* for runs (_invisible_kind, _benign_selector) does not know them.  What is written with
\* them, or with one at every second place, is not reported.  A link is checked out as a
\* file that holds its target, which is not looked at.
BytesAreSeen ==
    Answered("parallax") /\ asked.in.checkout =>
    \A f \in {g \in asked.in.files : \A l \in asked.in.links : l.name # g.name} :
        \A i \in 1..Len(f.text) - 1 :
            {f.text[i], f.text[i + 1]} \subseteq P!Carriers =>
            \A k \in {i, i + 1} :
                f.text[k] = "bytes" \/ "presentation" \notin {f.text[i], f.text[i + 1]} =>
                    /\ k \in P!InvisibleRuns(f.text)
                    /\ \E d \in answer.value.all : d.file = f.name
                                                   /\ d.about = "invisible_unicode"

\* What an audit does without.
Missing(in) ==
    in.fails \cup (IF in.checkout /\ in.scan THEN {} ELSE Range(S!Scanners))
             \cup (IF in.checkout THEN {} ELSE {"immune", "leverage", "drift"})

\* Nothing counts whose code the server did not see in its own checkout, whatever
\* was claimed of it and whichever modules fail: it is neither confirmed nor
\* potential, stands up to nothing, is on no path, and fails no pull request.  And of
\* all that is missing the reader is told.
NothingUnseenCounts ==
    Answered("store") =>
    LET Seen(row) == asked.in.checkout /\ row.at # 0
        rows == Range(answer.value.stored.rows)
    IN /\ \A row \in rows :
              T!Positive(row) \/ row.status # "none" \/ row.on_path => Seen(row) /\ row.line = row.at
       /\ answer.value.report.state = "failure" =>
              (\E row \in rows : row.severity = "high" /\ Seen(row)) \/ answer.value.drift # <<>>
       /\ answer.value.limits = Missing(asked.in)

\* What was measured of a patch is all there is: no part of a scan failed, no file is
\* deleted, the finding's rule is found nowhere else, the tests ended, and their
\* output after the patch has every test that passed before.
Measured(in) ==
    /\ in.before.fails = {} /\ in.after.fails = {}
    /\ \A b \in Range(in.patch.diff) : ~b.deleted
    /\ \A k \in in.before.there : k.rule = in.finding.rule => k = in.finding.key
    /\ "timeout" \notin {in.sandbox.before.exit, in.sandbox.after.exit}
    /\ \A t \in DOMAIN in.sandbox.before.tests :
           in.sandbox.before.tests[t] = "PASSED" => in.sandbox.after.tests[t] # "absent"

\* A patch that is called promising, and was measured, fixes the finding and breaks
\* nothing that can be told: what the finding cites and what its rule finds is gone,
\* no scanner or approved rule finds anything that was not there, no control was
\* removed or weakened, and no test that passed fails.
PromisingMeansFixed ==
    Answered("patch") =>
    LET in == asked.in
    IN answer.value.status = "ok" /\ answer.value.verdict = "promising" /\ Measured(in) =>
        /\ ~in.cited
        /\ in.finding.key \notin in.after.there
        /\ in.after.there \subseteq in.before.there
        /\ in.immune.semgrep /\ ~in.immune.fails => in.immune.matched = {}
        /\ \A b \in Range(in.patch.diff) : \A l \in Range(b.lines) :
               (\E r \in Range(D!Rules) : r.rule \in l.shows /\ r.side = l.side) =>
                   l.side = "-" /\ \E c \in Range(in.patch.diff) : \E m \in Range(c.lines) :
                                      c.file = b.file /\ m.side = "+" /\ m.text = l.text
        /\ in.sandbox.on /\ in.sandbox.runner /\ ~in.sandbox.fails =>
               \A t \in DOMAIN in.sandbox.before.tests :
                   in.sandbox.before.tests[t] = "PASSED" => in.sandbox.after.tests[t] = "PASSED"

=============================================================================
