------------------------------ MODULE Leverage ------------------------------
(***************************************************************************)
(* Module 4: how much damage a change to a file could do, how much review  *)
(* the file gets, and what an agent that opens the repository inherits.    *)
(*                                                                         *)
(* Scores are in 120ths, so that a third of a weight is a whole number.    *)
(* What patterns see in a file is given with it: its kind, its risk tier   *)
(* and the marks found in its text.  GitHub is a client with a budget of   *)
(* calls, each of which may fail, and what the repository is really like   *)
(* there is the truth of the input.                                        *)
(***************************************************************************)
EXTENDS Integers, Sequences, FiniteSets, SequencesExt

-----------------------------------------------------------------------------
(***************************************************************************)
(* Leverage                                                                *)
(***************************************************************************)

TierLeverage == [auto_execution |-> 102, agent_config |-> 102, entry_point |-> 84,
                 auth |-> 96, code |-> 48, tests_docs |-> 12]

\* Files that have leverage for what they are, whatever their tier.
KindLeverage == [codeowners_file |-> 102, ci_workflow |-> 102, install_script |-> 108,
                 container |-> 90, lockfile |-> 60, env_file |-> 96]

\* What a workflow may do besides.
WorkflowAdds == [ci_deploy |-> 12, ci_secrets |-> 6, ci_pr_target |-> 12, ci_write_perms |-> 6]

AtMost(limit, n) == IF n > limit THEN limit ELSE n

\* A script that something running on its own runs has at least what runs it has.
LeverageOf(file) ==
    LET own == IF file.kind \in DOMAIN KindLeverage THEN KindLeverage[file.kind]
               ELSE TierLeverage[file.tier]
        adds == IF file.kind # "ci_workflow" THEN {} ELSE file.marks \cap DOMAIN WorkflowAdds
        marked == FoldSet(LAMBDA a, sum : sum + WorkflowAdds[a], own, adds)
        lifted == file.run_by /\ marked < 102
        shown == file.divergences \cap {"hidden_content", "unexpected_execution"}
    IN [score |-> AtMost(120, (IF lifted THEN 102 ELSE marked)
                              + 12 * Cardinality(shown)
                              + (IF file.findings > 0 THEN 12 ELSE 0)
                              + (IF file.attacked THEN 12 ELSE 0)),
        codes |-> {IF file.kind \in DOMAIN KindLeverage THEN file.kind ELSE file.tier} \cup adds
                  \cup (IF lifted THEN {"run_by"} ELSE {})]

\* The scripts that lines of files running on their own run: what a line names
\* as it stands is tried before what it names beside its file.
RunnersOf(texts, files) ==
    {f \in files : \E t \in texts :
        /\ t.tier \in {"auto_execution", "agent_config"} /\ ~t.prose
        /\ \E line \in t.lines : /\ line.runs /\ f # t.file
                                 /\ \/ f = line.names
                                    \/ f = line.beside /\ (line.names \notin files
                                                           \/ line.names = t.file)}

-----------------------------------------------------------------------------
(***************************************************************************)
(* GitHub, read-only                                                       *)
(***************************************************************************)

\* truth[path] is what GitHub would answer; fails are the paths that it answers
\* with an error or not at all.
Client(budget) == [calls |-> 0, failed |-> FALSE, budget |-> budget, cache |-> {}]

Absent == [found |-> FALSE]

\* One call: nothing once one has failed; nothing new once the budget is spent;
\* an answer, "absent" among them, is kept.
Get(gh, world, path) ==
    LET called == [gh EXCEPT !.calls = @ + 1]
    IN IF gh.failed THEN [gh |-> gh, answer |-> Absent]
       ELSE IF path \in gh.cache THEN [gh |-> gh, answer |-> world.truth[path]]
       ELSE IF gh.calls >= gh.budget THEN [gh |-> [gh EXCEPT !.failed = TRUE], answer |-> Absent]
       ELSE IF path \in world.fails
            THEN [gh |-> [called EXCEPT !.failed = TRUE], answer |-> Absent]
       ELSE [gh |-> [called EXCEPT !.cache = @ \cup {path}], answer |-> world.truth[path]]

Unknown == [known |-> FALSE]

\* Mutant: what was learnt before a call failed is reported.
ProtectionAnyway(gh, world) ==
    LET info == Get(gh, world, <<"repo">>)
        branch == Get(info.gh, world, <<"branch">>)
        rules == Get(branch.gh, world, <<"rules">>)
        In(a) == IF a.answer.found THEN a.answer.reviews ELSE 0
    IN IF ~info.answer.found THEN [gh |-> info.gh, protection |-> Unknown]
       ELSE [gh |-> rules.gh,
             protection |-> [known |-> TRUE,
                 protected |-> \/ branch.answer.found /\ branch.answer.protected
                               \/ rules.answer.found /\ rules.answer.protected,
                 reviews |-> IF In(branch) > In(rules) THEN In(branch) ELSE In(rules)]]

\* Whether the default branch is protected, and how many reviews it takes: by
\* its protection or by a rule, whichever asks for more.
Protection(gh, world) ==
    LET info == Get(gh, world, <<"repo">>)
        branch == Get(info.gh, world, <<"branch">>)
        rules == Get(branch.gh, world, <<"rules">>)
        In(a) == IF a.answer.found THEN a.answer.reviews ELSE 0
    IN IF ~info.answer.found THEN [gh |-> info.gh, protection |-> Unknown]
       ELSE [gh |-> rules.gh,
             protection |-> IF rules.gh.failed THEN Unknown
                 ELSE [known |-> TRUE,
                       protected |-> \/ branch.answer.found /\ branch.answer.protected
                                     \/ rules.answer.found /\ rules.answer.protected,
                       reviews |-> IF In(branch) > In(rules) THEN In(branch) ELSE In(rules)]]

NoReview == [said |-> FALSE]

\* The merged pull request that a commit came in through, and whether another
\* than its author approved it.
Review(gh, world, sha) ==
    LET pulls == Get(gh, world, <<"pulls", sha>>)
        reviews == Get(pulls.gh, world, <<"reviews", pulls.answer.pr>>)
    IN IF ~pulls.answer.found THEN [gh |-> pulls.gh, review |-> NoReview]
       ELSE IF pulls.answer.pr = 0
            THEN [gh |-> pulls.gh, review |-> [said |-> TRUE, pr |-> 0, approved |-> FALSE]]
       ELSE IF ~reviews.answer.found THEN [gh |-> reviews.gh, review |-> NoReview]
       ELSE [gh |-> reviews.gh,
             review |-> [said |-> TRUE, pr |-> pulls.answer.pr,
                         approved |-> reviews.answer.approvers \ {pulls.answer.author} # {}]]

-----------------------------------------------------------------------------
(***************************************************************************)
(* Oversight                                                               *)
(***************************************************************************)

\* The last rule of CODEOWNERS that matches decides, and may name nobody.
OwnersOf(rules, file) ==
    LET matching == {i \in DOMAIN rules : file \in rules[i].files}
    IN IF matching = {} THEN {}
       ELSE rules[CHOOSE i \in matching : \A j \in matching : j <= i].owners

\* recent are the file's last commits, newest first; a commit's pr is the pull
\* request that its subject, or that of the merge that brought it, names.
OversightOf(rules, file, recent, reviews, protection) ==
    LET said(c) == c.sha \in DOMAIN reviews
        approved(c) == said(c) /\ reviews[c.sha].approved
        through(c) == ~approved(c) /\ IF said(c) THEN reviews[c.sha].pr # 0 ELSE c.pr # 0
        n == Len(recent)
        share(weight, Test(_)) ==
            IF n = 0 THEN 0
            ELSE (weight * Cardinality({i \in DOMAIN recent : Test(recent[i])})) \div n
        score == (IF OwnersOf(rules, file) # {} THEN 42 ELSE 0)
                 + share(42, approved) + share(18, through)
                 - (IF n > 0 /\ recent[1].ai /\ ~approved(recent[1]) THEN 18 ELSE 0)
                 + (IF ~protection.known THEN 0 ELSE IF protection.reviews > 0 THEN 36
                    ELSE IF protection.protected THEN 12 ELSE 0)
    IN IF score < 0 THEN 0 ELSE AtMost(120, score)

\* Squash merges name their pull request; a merge commit names that of the
\* commits on its second parent's side, unless they have one.
TagPullRequests(commits) ==
    LET merges(c) == {m \in Range(commits) : m.merge # 0 /\ c.sha \in m.brings}
    IN [i \in DOMAIN commits |->
           LET c == commits[i]
               first == CHOOSE k \in DOMAIN commits : /\ commits[k] \in merges(c)
                            /\ \A j \in DOMAIN commits : commits[j] \in merges(c) => k <= j
           IN [sha |-> c.sha, ai |-> c.ai, files |-> c.files,
               pr |-> IF c.squash # 0 THEN c.squash
                      ELSE IF merges(c) = {} THEN 0 ELSE commits[first].merge]]

\* The last commits of each file that are looked at, and the files whose commits
\* GitHub is asked about.
PerFile == 3
ReviewedFiles == 40

\* The members of a set of numbers in an order, the first one first.
Ranked(numbers, before) ==
    [k \in 1..Cardinality(numbers) |->
        CHOOSE i \in numbers : Cardinality({j \in numbers : <<j, i>> \in before}) = k - 1]

\* The last commits of a file, newest first.
Recent(commits, name) ==
    LET of == Ranked({i \in DOMAIN commits : name \in commits[i].files},
                     {p \in (DOMAIN commits) \X (DOMAIN commits) : p[1] < p[2]})
    IN [k \in 1..AtMost(PerFile, Len(of)) |-> commits[of[k]]]

\* The commits that GitHub is asked about: those of the files of most leverage, as
\* long as it is not small.
ToReview(files, commits, leverage) ==
    LET before == {p \in (DOMAIN files) \X (DOMAIN files) :
                      \/ leverage[p[1]].score > leverage[p[2]].score
                      \/ leverage[p[1]].score = leverage[p[2]].score /\ p[1] < p[2]}
        top == Ranked({i \in DOMAIN files : leverage[i].score >= 60}, before)
        recent(k) == Recent(commits, files[top[k]].name)
    IN FlattenSeq([k \in 1..AtMost(ReviewedFiles, Len(top)) |->
                      [c \in DOMAIN recent(k) |-> recent(k)[c].sha]])

\* Each commit is asked about once, until GitHub fails.
AskReview(world, s, sha) ==
    LET r == Review(s.gh, world, sha)
    IN IF sha \in DOMAIN s.reviews \/ s.gh.failed THEN s
       ELSE [gh |-> r.gh,
             reviews |-> IF ~r.review.said THEN s.reviews
                         ELSE [x \in DOMAIN s.reviews \cup {sha} |->
                                  IF x = sha THEN r.review ELSE s.reviews[x]]]

AskReviews(world, gh, shas) ==
    LET after[k \in 0..Len(shas)] ==
            IF k = 0 THEN [gh |-> gh, reviews |-> <<>>]
            ELSE AskReview(world, after[k - 1], shas[k])
    IN after[Len(shas)]

\* The whole map.
AnalyzeLeverage(in) ==
    LET commits == TagPullRequests(in.commits)
        leverage == [i \in DOMAIN in.files |-> LeverageOf(in.files[i])]
        client == Client(in.budget)
        guard == IF in.token THEN Protection(client, in.world)
                 ELSE [gh |-> client, protection |-> Unknown]
        told == IF in.token
                THEN AskReviews(in.world, guard.gh, ToReview(in.files, commits, leverage))
                ELSE [gh |-> guard.gh, reviews |-> <<>>]
        row(i) == [file |-> in.files[i].name, leverage |-> leverage[i].score,
                   codes |-> leverage[i].codes,
                   oversight |-> OversightOf(in.rules, in.files[i].name,
                                     Recent(commits, in.files[i].name), told.reviews,
                                     guard.protection)]
    IN [rows |-> {row(i) : i \in DOMAIN in.files}, reviews |-> told.reviews, gh |-> told.gh,
        protection |-> guard.protection]

\* What is looked at first: much leverage and little oversight.
Priority(row) == row.leverage * (120 - row.oversight)

-----------------------------------------------------------------------------
(***************************************************************************)
(* The agent surface                                                       *)
(***************************************************************************)

Cap(file, capability) == [source |-> file, capability |-> capability]
CapIf(test, file, capabilities) ==
    IF test THEN [i \in DOMAIN capabilities |-> Cap(file, capabilities[i])] ELSE <<>>

\* A permission granted without asking.  broad: any command, network and reads:
\* the command can reach the network, or read files.
Permission(file, p) ==
    CASE p.tool = "Bash" ->
             CapIf(TRUE, file, <<"executes">>) \o
             CapIf(p.broad \/ p.network, file, <<"network">>) \o
             CapIf(p.broad \/ p.reads, file, <<"reads_files">>)
      [] p.tool \in {"Read", "Grep", "Glob"} -> CapIf(TRUE, file, <<"reads_files">>)
      [] p.tool \in {"WebFetch", "WebSearch"} -> CapIf(TRUE, file, <<"network">>)
      [] p.tool = "mcp" -> CapIf(TRUE, file, <<"mcp_server">>)
      [] OTHER -> <<>>

HookCaps(file, h) ==
    CapIf(h.on_start, file, <<"runs_on_start">>) \o CapIf(TRUE, file, <<"executes">>) \o
    CapIf(h.network, file, <<"network">>) \o CapIf(h.reads, file, <<"reads_files">>)

ClaudeSettings(s) ==
    CapIf(s.bypass, s.file, <<"executes", "reads_files", "network">>) \o
    FlattenSeq([i \in DOMAIN s.allow |-> Permission(s.file, s.allow[i])]) \o
    CapIf(s.directories, s.file, <<"reads_files">>) \o
    FlattenSeq([i \in DOMAIN s.hooks |-> HookCaps(s.file, s.hooks[i])]) \o
    CapIf(s.command, s.file, <<"runs_on_start">>)

\* A server approved in advance starts when an agent opens the repository.
McpServers(file, servers, approved) ==
    FlattenSeq([i \in DOMAIN servers |->
        IF servers[i].local
        THEN CapIf(TRUE, file, <<"mcp_server", "executes">>) \o
             CapIf(servers[i].name \in approved, file, <<"runs_on_start">>) \o
             CapIf(servers[i].network, file, <<"network">>) \o
             CapIf(TRUE, file, <<"reads_files">>)
        ELSE CapIf(TRUE, file, <<"mcp_server", "network">>)])

\* The capabilities that together make a whole path, as that path: files read and
\* sent away, by something that starts by itself if there is one; and tools
\* steered by instructions, hidden ones if there are.
Combinations(caps, hidden) ==
    LET by(c) == {i \in DOMAIN caps : caps[i].capability = c}
        First(is) == CHOOSE i \in is : \A j \in is : i <= j
        run == IF by("runs_on_start") # {} THEN by("runs_on_start") ELSE by("executes")
        tool == IF by("executes") # {} THEN by("executes") ELSE by("network")
        covert == {i \in by("instructions") : caps[i].source \in hidden}
        exfiltration ==
            IF by("reads_files") # {} /\ by("network") # {} /\ run # {}
            THEN <<[kind |-> "exfiltration", unattended |-> by("runs_on_start") # {},
                    steps |-> {First(run), First(by("reads_files")), First(by("network"))}]>>
            ELSE <<>>
        steered ==
            IF by("instructions") # {} /\ tool # {}
            THEN <<[kind |-> "steered_tools", unattended |-> FALSE,
                    steps |-> {First(IF covert # {} THEN covert ELSE by("instructions")),
                               First(tool)}
                              \cup IF by("network") = {} THEN {} ELSE {First(by("network"))}]>>
            ELSE <<>>
    IN exfiltration \o steered

\* Settings come before anything else: a server is approved by any of them, by
\* its name or with all others.
AgentSurface(in, hidden) ==
    LET all == \E i \in DOMAIN in.settings : in.settings[i].all
        Approved(servers) ==
            IF all THEN {servers[i].name : i \in DOMAIN servers}
            ELSE UNION {in.settings[i].enabled : i \in DOMAIN in.settings}
        caps == FlattenSeq([i \in DOMAIN in.settings |-> ClaudeSettings(in.settings[i])]) \o
            FlattenSeq([i \in DOMAIN in.others |->
                IF in.others[i].kind = "mcp"
                THEN McpServers(in.others[i].file, in.others[i].servers,
                                Approved(in.others[i].servers))
                ELSE <<Cap(in.others[i].file, "instructions")>>])
    IN [capabilities |-> caps, combinations |-> Combinations(caps, hidden)]

=============================================================================
