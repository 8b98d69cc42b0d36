------------------------------ MODULE Parallax ------------------------------
(***************************************************************************)
(* Module 1: where the views of the same checkout differ - what a person   *)
(* sees and what the file holds, what it holds and what would run, what    *)
(* the auditor was shown, and what was published.                          *)
(*                                                                         *)
(* A text is the sequence of the kinds of its characters.  A file says     *)
(* which patterns its text matches; a command is suspicious, routine or    *)
(* plain.  Severities are numbers, 0 the gravest.                          *)
(***************************************************************************)
EXTENDS Integers, Sequences, FiniteSets, SequencesExt, TLC

CONSTANT MaxDivergences           \* how many divergences are kept

Severities == [critical |-> 0, high |-> 1, medium |-> 2, low |-> 3, info |-> 4]
KindOrder == [hidden_content |-> 1, unexpected_execution |-> 2, audit_blind_spot |-> 3,
              release_mismatch |-> 4]

Divergence(file, kind, severity, about) ==
    [file |-> file, kind |-> kind, severity |-> Severities[severity], about |-> about]

-----------------------------------------------------------------------------
(***************************************************************************)
(* Hidden content                                                          *)
(***************************************************************************)

\* "joiner" is a zero-width character that joins, "selector" one of the first
\* fourteen selectors, "bytes" one of those that only carry bytes.  The two between
\* them choose the "presentation" of an emoji; no run has them.
Invisible == {"tag", "bidi", "zero_width", "bom", "joiner", "selector", "bytes"}
Selectors == {"selector", "bytes"}
Carriers == Selectors \cup {"presentation"}      \* what counts as a byte
Ascii == {"ascii", "newline"}

BenignJoiner(t, i) ==
    t[i] = "joiner" /\ i > 1 /\ i < Len(t) /\ t[i - 1] \notin Ascii /\ t[i + 1] \notin Ascii

\* Mutant: what follows a selector is not looked at.
BenignSelectorBefore(t, i) ==
    t[i] = "selector" /\ i > 1 /\ t[i - 1] \notin Selectors

\* One selector after a character chooses how it is shown.
BenignSelector(t, i) ==
    /\ t[i] = "selector" /\ i > 1 /\ t[i - 1] \notin Selectors
    /\ i < Len(t) => t[i + 1] \notin Selectors

Benign(t, i) == (i = 1 /\ t[i] = "bom") \/ BenignJoiner(t, i) \/ BenignSelector(t, i)

\* The positions that runs of invisible characters cover: a run starts at one
\* that has no business there and takes all that follow it.
InvisibleRuns(t) ==
    {i \in DOMAIN t : \E start \in 1..i :
        ~Benign(t, start) /\ \A k \in start..i : t[k] \in Invisible}

\* Two carriers in one run are bytes; spells says that they are a text.
Decoded(f) ==
    LET covered == InvisibleRuns(f.text)
    IN f.spells /\ \E i, j \in covered : /\ i < j /\ i..j \subseteq covered
                                         /\ {f.text[i], f.text[j]} \subseteq Carriers

\* A comment that no page shows and that reads like an instruction, or is long in
\* a file that agents read.  Comments shown as code hide nothing.
HiddenComment(c, agent) ==
    ~c.fenced /\ c.size >= 20 /\ ~c.harmless /\ (c.instruction \/ (agent /\ c.size >= 40))

HiddenContent(f) ==
    LET covered == InvisibleRuns(f.text)
        kinds == {f.text[i] : i \in covered}
        gravity == IF "tag" \in kinds \/ Decoded(f)
                   THEN IF f.agent THEN "critical" ELSE "high"
                   ELSE IF f.agent \/ ("bidi" \in kinds /\ f.form = "code") THEN "high"
                   ELSE "medium"
        invisible == IF covered = {} THEN {}
                     ELSE {Divergence(f.name, "hidden_content", gravity, "invisible_unicode")}
        comments == IF f.form = "markdown" /\ \E c \in f.comments : HiddenComment(c, f.agent)
                    THEN {Divergence(f.name, "hidden_content",
                                     IF f.agent THEN "critical" ELSE "high", "hidden_comment")}
                    ELSE {}
    IN invisible \cup comments

-----------------------------------------------------------------------------
(***************************************************************************)
(* Unexpected execution                                                    *)
(***************************************************************************)

CommandSeverity(command, base) ==
    CASE command = "suspicious" -> "high" [] command = "routine" -> "low" [] OTHER -> base

Runs(f, severity, trigger) == Divergence(f.name, "unexpected_execution", severity, trigger)

\* What npm runs by itself, and what it builds though no script says so.
PackageJson(f) ==
    {Runs(f, CommandSeverity(c, "medium"), "npm install") : c \in Range(f.install)} \cup
    (IF f.gyp /\ {"install", "preinstall"} \cap DOMAIN f.install = {}
     THEN {Runs(f, "low", "npm install (implicit)")} ELSE {})

VscodeTasks(f) ==
    {Runs(f, "high", "opening the folder") : t \in {x \in f.tasks : x.on = "folderOpen"}}

\* A setting that names a program the repository holds.
VscodeSettings(f, files) ==
    {Runs(f, "medium", "opening the folder") : s \in {x \in f.paths : x \in files}}

\* One of a container's commands runs on the developer's own machine.
Devcontainer(f) ==
    {Runs(f, CommandSeverity(c.command, IF c.key = "initializeCommand" THEN "high" ELSE "medium"),
          c.key) : c \in f.commands}

ClaudeSettings(f) ==
    {Runs(f, "high", "an agent's event") : h \in f.hooks} \cup
    {Runs(f, "high", "the agent starting") : k \in f.keys} \cup
    {Runs(f, CommandSeverity(c, "medium"), "the status line") : c \in f.status}

\* A server that is approved in advance starts when an agent opens the folder.
McpConfig(f, approved) ==
    {Runs(f, CommandSeverity(s.command, IF approved THEN "high" ELSE "medium"),
          IF approved THEN "opening, approved" ELSE "enabling servers") :
        s \in {x \in f.servers : x.local}}

\* A driver that git does not have built in.
Gitattributes(f) == {Runs(f, "low", "git attribute") : d \in f.drivers}

\* A hook kept in the repository, and whether something there installs it.
GitHooks(fs) ==
    LET installs == \E f \in fs : f.kind \in {"package.json", "installer"} /\ f.installs_hooks
        hooks == {f \in fs : f.kind = "git_hook" /\ f.body # "empty"}
    IN {Runs(f, CommandSeverity(f.body, IF installs THEN "medium" ELSE "low"), "git hook") :
           f \in hooks}

\* What setup.py runs besides setup() itself, and a build or start of Python by
\* code of the repository.
PythonSetup(f) ==
    {Runs(f, "medium", "install commands") : c \in f.cmdclass} \cup
    {Runs(f, "high", "pip install") : c \in f.calls}
Pyproject(f) == IF f.own_backend THEN {Runs(f, "medium", "any build")} ELSE {}
Pth(f) == IF f.imports THEN {Runs(f, "high", "every start of Python")} ELSE {}

\* A link out of the repository.
Symlink(l) == IF l.outside THEN {Runs(l, "high", "any tool that follows links")} ELSE {}

\* Links are told from the files they stand in for by git.
UnexpectedExecution(fs, links) ==
    LET files == {f.name : f \in fs}
        approved == \E f \in fs : f.kind = "claude" /\ f.all
        of(f) == CASE f.kind = "package.json" -> PackageJson(f)
                   [] f.kind = "tasks.json" -> VscodeTasks(f)
                   [] f.kind = "settings.json" -> VscodeSettings(f, files)
                   [] f.kind = "devcontainer" -> Devcontainer(f)
                   [] f.kind = "claude" -> ClaudeSettings(f)
                   [] f.kind = "mcp" -> McpConfig(f, approved)
                   [] f.kind = "gitattributes" -> Gitattributes(f)
                   [] f.kind = "setup.py" -> PythonSetup(f)
                   [] f.kind = "pyproject" -> Pyproject(f)
                   [] f.kind = "pth" -> Pth(f)
                   [] OTHER -> {}
    IN UNION {of(f) : f \in fs} \cup GitHooks(fs) \cup UNION {Symlink(l) : l \in links}

-----------------------------------------------------------------------------
(***************************************************************************)
(* Blind spots of the audit                                                *)
(***************************************************************************)

\* Risk tiers, 1 the riskiest.
Tiers == [auto_execution |-> 1, agent_config |-> 2, entry_point |-> 3, auth |-> 4, code |-> 5,
          rest |-> 6]

\* Files that were not shown, or in part: the risky one by one, code in one list.
AuditBlindSpots(rows, padding) ==
    LET looked == {r \in rows : r.why \notin {"ignored", "link", "directory"}}
        unseen == {r \in looked : ~r.audited /\ ~(r.why = "not_text" /\ r.tier > Tiers.agent_config)
                                  /\ r.why # "not_source"}
        part == {r \in looked : r.audited /\ r.partly}
        Spot(r, severity) == Divergence(r.file, "audit_blind_spot", severity, r.why)
        Rest(rs) == IF \E r \in rs : r.tier = Tiers.code
                    THEN {Divergence("", "audit_blind_spot", "low", "left out")} ELSE {}
        missed == \E r \in rows : ~r.audited /\ r.tier <= Tiers.auth
    IN {Spot(r, IF r.tier <= Tiers.agent_config THEN "high" ELSE "medium") :
           r \in {x \in unseen : x.tier <= Tiers.auth}} \cup
       {Spot(r, IF r.tier <= Tiers.agent_config THEN "medium" ELSE "low") :
           r \in {x \in part : x.tier <= Tiers.auth}} \cup
       Rest(unseen) \cup Rest(part) \cup
       {Spot(r, "low") : r \in {x \in rows : x.why = "directory"}} \cup
       (IF padding THEN {Divergence("", "audit_blind_spot", IF missed THEN "high" ELSE "medium",
                                    "padding")} ELSE {})

-----------------------------------------------------------------------------
(***************************************************************************)
(* The package on the registry                                             *)
(***************************************************************************)

\* The tagged files that are read; one too large, or missing, has no content.
Empty == "empty"
ReadBlobs(pkg) == [p \in {x \in DOMAIN pkg.tree : pkg.tree[x].readable} |-> pkg.tree[p].content]

\* Every tagged path is known, whether or not its content was read.
Source(pkg) == [p \in DOMAIN pkg.tree |-> IF p \in DOMAIN ReadBlobs(pkg) THEN ReadBlobs(pkg)[p]
                                          ELSE Empty]

\* What the package has and git has not, or has otherwise, but for what builds
\* write into every package.
CompareRelease(pkg) ==
    LET source == Source(pkg)
        checked == {p \in DOMAIN pkg.published : ~pkg.published[p].generated}
        added == {p \in checked \ DOMAIN source : ~pkg.published[p].version_file}
        modified == {p \in checked \cap DOMAIN source : pkg.published[p].content # source[p]}
    IN [added |-> added, modified |-> modified]

\* One package after another: why it was not compared, or what differs.  Built
\* files that git has not are one divergence.
ReleaseMismatch(packages) ==
    LET reason(pkg) ==
            CASE ~pkg.versioned -> "no version"
              [] pkg.versioned /\ pkg.registry = "error" -> "registry"
              [] pkg.versioned /\ pkg.registry = "absent" -> "not published"
              [] pkg.versioned /\ pkg.registry = "served" /\ ~pkg.tagged -> "no tag"
              [] pkg.versioned /\ pkg.registry = "served" /\ pkg.tagged /\ pkg.broken -> "broken"
              [] OTHER -> "compared"
        Mismatch(p, severity, change) == Divergence(p, "release_mismatch", severity, change)
        of(pkg) ==
            LET c == CompareRelease(pkg)
                built == {p \in c.added : pkg.published[p].build_output
                                          /\ (pkg.published[p].compiled
                                              \/ ~pkg.published[p].code)}
            IN {Mismatch(p, IF pkg.published[p].code THEN "high" ELSE "medium", "modified") :
                   p \in c.modified} \cup
               {Mismatch(p, IF pkg.published[p].code THEN "high" ELSE "low", "added") :
                   p \in c.added \ built} \cup
               (IF built = {} THEN {} ELSE {Mismatch("", "low", "added")})
    IN [notes |-> [i \in DOMAIN packages |-> reason(packages[i])],
        found |-> UNION {of(packages[i]) : i \in {j \in DOMAIN packages :
                                                     reason(packages[j]) = "compared"}}]

-----------------------------------------------------------------------------
\* With no checkout only the blind spots can be told.
AllDivergences(in) ==
    LET links == {l.name : l \in in.links}
        files == {f \in in.files : f.name \notin links}
    IN (IF ~in.checkout THEN {}
        ELSE UNION {HiddenContent(f) : f \in files} \cup UnexpectedExecution(files, in.links) \cup
             (IF in.published THEN ReleaseMismatch(in.packages).found ELSE {}))
    \cup AuditBlindSpots(in.rows, in.padding)

\* A set as a sequence, in an order.
InSequence(found, before(_, _)) ==
    SortSeq(FoldSet(LAMBDA d, all : Append(all, d), <<>>, found), before)

\* The gravest are kept, among equals by kind and then by name.
Kept(found) ==
    LET before(d, e) == \/ d.severity < e.severity
                        \/ d.severity = e.severity /\ KindOrder[d.kind] < KindOrder[e.kind]
        order == InSequence(found, before)
    IN {order[i] : i \in 1..(IF Len(order) < MaxDivergences THEN Len(order) ELSE MaxDivergences)}

AnalyzeParallax(in) == Kept(AllDivergences(in))

=============================================================================
