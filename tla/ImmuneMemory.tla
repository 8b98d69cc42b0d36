---------------------------- MODULE ImmuneMemory ----------------------------
(***************************************************************************)
(* What the audits of one project remember of its fixes.                   *)
(*                                                                         *)
(* An audit compares its checkout with the findings of the previous one:   *)
(* a finding whose code is gone was fixed, by a commit that git names.     *)
(* From a fix the model may propose a rule, kept if it matches the file    *)
(* before the fix and not after.  A person approves rules; later audits    *)
(* run the approved ones, and mark as zombies the findings that rules or   *)
(* fingerprints show to be back.                                           *)
(*                                                                         *)
(* Audits of a project run at the same time, on any commits, each in a     *)
(* transaction of its own that sees what the others have committed         *)
(* (PostgreSQL's READ COMMITTED), while people approve, revoke and delete. *)
(*                                                                         *)
(* A flaw is a place of the repository and the code a finding there cites. *)
(* The repository's history is its first parents'.                         *)
(***************************************************************************)
EXTENDS Integers, Sequences, FiniteSets

CONSTANTS
    Flaws,          \* places where the code can be flawed
    SafeVersions,   \* what the code can be there when it is not
    Verdicts,       \* how findings may stand up to refutation
    Patterns,       \* what a proposed rule may match
    Names,          \* the names the model gives rules
    NoFinding,      \* NULL in a column that refers to a finding
    MaxAudits,      \* audits of the project, in the order they were created
    MaxWorking,     \* audits that run at the same time
    MaxCommits,     \* commits of the repository
    HistoryDepth    \* SECAUDIT_HISTORY_DEPTH: commits that a clone holds

Audits == 1..MaxAudits
CommitIds == 1..MaxCommits
Versions == {"flawed"} \cup SafeVersions

\* A finding is the row of an audit about a place.
Findings == Audits \X Flaws

\* A rule is named by the audit that learnt it and the flaw it is about.
Rules == Audits \X Flaws

ASSUME VersionsAssumption == SafeVersions # {} /\ "flawed" \notin SafeVersions
ASSUME PatternsAssumption == Patterns \subseteq SUBSET (Flaws \X Versions)
ASSUME NamesAssumption == Names # {}
ASSUME VerdictsAssumption == Verdicts \subseteq {"exists", "evidenced", "refuted"}
ASSUME NoFindingAssumption == NoFinding \notin Findings
ASSUME BoundsAssumption ==
    /\ MaxAudits \in Nat /\ MaxCommits \in Nat \ {0}
    /\ MaxWorking \in Nat /\ HistoryDepth \in Nat \ {0}

VARIABLES
    past,       \* commit -> the commit and its first-parent ancestors
    text,       \* commit -> place -> the version of the code there
    audit,      \* audit -> its state, its commit and what it was compared with
    finding,    \* audit -> place -> the committed row of findings
    rule,       \* rule -> the committed row of immune_rules
    txn,        \* audit -> what its open transaction holds
    asked,      \* history: audit -> the approved rules it read
    followed    \* history: the findings with a fix that was looked for in the
                \* history from their commit to the audited one

vars == <<past, text, audit, finding, rule, txn, asked, followed>>

\* ran is the status of the audit's immune module run, previous the audit that
\* it looked for fixes of, 0 for none.
Audit == [state : {"pending", "learnt", "stored", "done", "gone"},
          commit : 0..MaxCommits, previous : 0..MaxAudits, ran : BOOLEAN]

Empty(state) == [state |-> state, commit |-> 0, previous |-> 0, ran |-> FALSE]

\* Rows that the evidence check degraded are not modelled.  kind joins source
\* and epistemic_status; flaw is the fingerprint.
Row == [kind : {"none", "exists", "evidenced", "refuted", "immune"},
        flaw : Flaws, fix : 0..MaxCommits, zombie : Findings \cup {NoFinding}]
NoRows == [g \in Flaws |-> [kind |-> "none", flaw |-> g, fix |-> 0, zombie |-> NoFinding]]

\* A rule that Semgrep cannot run is one with an empty pattern.
Rule == [pattern : SUBSET (Flaws \X Versions), name : Names, fix : 0..MaxCommits,
         origin : Findings \cup {NoFinding}, validated : BOOLEAN, approved : BOOLEAN]
Unused == [pattern |-> {}, name |-> CHOOSE n \in Names : TRUE, fix |-> 0,
           origin |-> NoFinding, validated |-> FALSE, approved |-> FALSE]
NoRules == [f \in Flaws |-> Unused]

\* rows are this audit's findings, fixes the commits that fixed the previous
\* one's (0: none) and learnt the rules.
Txn == [rows : [Flaws -> Row], fixes : [Flaws -> 0..MaxCommits], learnt : [Flaws -> Rule]]
Closed == [rows |-> NoRows, fixes |-> [g \in Flaws |-> 0], learnt |-> NoRules]

Working(a) == audit[a].state \in {"learnt", "stored"}

TypeOK ==
    /\ past \in [CommitIds -> SUBSET CommitIds]
    /\ text \in [CommitIds -> [Flaws -> Versions]]
    /\ audit \in [Audits -> Audit]
    /\ \A a \in Audits : (Working(a) \/ audit[a].state = "done")
                           => audit[a].commit \in CommitIds
    /\ finding \in [Audits -> [Flaws -> Row]]
    /\ rule \in [Rules -> Rule]
    /\ txn \in [Audits -> Txn]
    /\ asked \in [Audits -> SUBSET Rules]
    /\ followed \subseteq Findings

\* Commits are numbered in an order in which they can be made, 1 the first.
IsHistory ==
    \A c \in CommitIds :
        /\ {1, c} \subseteq past[c] /\ past[c] \subseteq 1..c
        /\ \A x \in past[c] : past[x] = {y \in past[c] : y <= x}

\* The repository is there from the start, as an audit may check any commit of
\* it out, whether it was pushed before the other audits or after.
Init ==
    /\ past \in [CommitIds -> SUBSET CommitIds]
    /\ text \in [CommitIds -> [Flaws -> Versions]]
    /\ IsHistory
    /\ audit = [a \in Audits |-> Empty("pending")]
    /\ finding = [a \in Audits |-> NoRows]
    /\ rule = [r \in Rules |-> Unused]
    /\ txn = [a \in Audits |-> Closed]
    /\ asked = [a \in Audits |-> {}]
    /\ followed = {}

-----------------------------------------------------------------------------
(***************************************************************************)
(* The repository                                                          *)
(***************************************************************************)

Flawed(c, g) == text[c][g] = "flawed"

\* The commits that a clone of HistoryDepth commits up to c holds, and the last
\* of them, which git takes for one without parents.
Fetched(c) ==
    {x \in past[c] : Cardinality({y \in past[c] : y > x}) < HistoryDepth}
Edge(c) == {x \in Fetched(c) : \A y \in Fetched(c) : x <= y}

\* A commit that is not the tip of a branch is fetched into a clone of the
\* default branch (clone_at_commit), with a depth of its own.
Held(head, tip) == Fetched(head) \cup Fetched(tip)
Cuts(head, tip) == Edge(head) \cup (Edge(tip) \ Fetched(head))

\* The history of a commit in a clone with these cuts.
Reached(c, cuts) == {x \in past[c] : \A y \in past[c] \cap cuts : y <= x}

\* The first parent of a commit, if it has one.
Parents(c) == LET before == past[c] \ {c} IN {p \in before : \A x \in before : x <= p}

-----------------------------------------------------------------------------
(***************************************************************************)
(* What an audit finds fixed, and what it learns from it                   *)
(***************************************************************************)

\* The last of the finished audits created before this one, or 0.
Previous(a) ==
    LET done == {b \in Audits : b < a /\ audit[b].state = "done"}
    IN {b \in done : \A c \in done : c <= b} \cup {b \in {0} : done = {}}

Evidenced(b) ==
    IF b = 0 THEN {} ELSE {g \in Flaws : finding[b][g].kind = "evidenced"}

\* Mutant: the last commit without the code instead of the first.
LastWithout(g, from, head, cuts) ==
    LET without == {x \in Reached(head, cuts) \ Reached(from, cuts) : ~Flawed(x, g)}
    IN {x \in without \cup {0} : \A y \in without : y <= x}

\* Mutant: the head is left out of the search.
FirstBeforeHead(g, from, head, cuts) ==
    LET without == {x \in Reached(head, cuts) \ (Reached(from, cuts) \cup {head}) :
                      ~Flawed(x, g)}
    IN {x \in without \cup {0} : \A y \in without : x # 0 /\ x <= y}

\* The first without the code among the commits of head's history that touch the
\* file and are not in the history of from, 0 if there is none.  Commits that
\* change the code touch the file; any other may touch it elsewhere.
FirstWithout(g, from, head, cuts) ==
    LET without == {x \in Reached(head, cuts) \ Reached(from, cuts) : ~Flawed(x, g)}
        changed == {y \in without \ cuts : \E p \in Parents(y) : text[p][g] # text[y][g]}
    IN {x \in without \cup {0} : \A y \in changed : x # 0 /\ x <= y}

\* The commit that is said to have fixed finding g of audit b, if it is gone
\* from head and the clone holds the commit of that audit.
FixOf(g, b, head, tip) ==
    IF ~Flawed(head, g) /\ audit[b].commit \in Held(head, tip)
    THEN FirstWithout(g, audit[b].commit, head, Cuts(head, tip)) ELSE {0}

\* Mutant: the rule need not leave the fixed file alone.
ValidateBefore(pattern, g, fix) == \E p \in Parents(fix) : <<g, text[p][g]>> \in pattern

\* The rule matches the file before the fix and not after.
Validate(pattern, g, fix) ==
    /\ \E p \in Parents(fix) : <<g, text[p][g]>> \in pattern
    /\ <<g, text[fix][g]>> \notin pattern

NewRule(pattern, name, b, g, fix) ==
    [pattern |-> pattern, name |-> name, fix |-> fix, origin |-> <<b, g>>,
     validated |-> Validate(pattern, g, fix), approved |-> FALSE]

\* What an audit of commit c may find, and see verified against the code.
Reports(c) ==
    {kind \in [Flaws -> Verdicts \cup {"none"}] :
        \A g \in Flaws : ~Flawed(c, g) => kind[g] = "none"}

\* An audit has checked a commit out, the tip of a branch or any other.  Its
\* findings are stored, those of the previous audit that are fixed get their
\* fix, and the model's proposals become rules if the clone holds the commit
\* before the fix.  The module may fail with some of them handled: what it has
\* written stays, and the rest is left out.  The branch the clone was made of
\* (tip) matters only if there is something to look for.
Learn(a) ==
    /\ audit[a].state = "pending"
    /\ Cardinality({b \in Audits : Working(b)}) < MaxWorking
    /\ \E p \in Previous(a), head \in CommitIds, complete \in BOOLEAN :
       \E kind \in Reports(head), handled \in SUBSET Evidenced(p) :
       \E tip \in IF handled = {} THEN {head} ELSE CommitIds :
       \E fixes \in [Flaws -> 0..MaxCommits] :
       \E proposed \in SUBSET {g \in handled : fixes[g] \notin {0} \cup Cuts(head, tip)} :
       \E rules \in [proposed -> Patterns \X Names] :
          /\ complete => handled = Evidenced(p)
          /\ \A g \in Flaws : fixes[g] \in IF g \in handled THEN FixOf(g, p, head, tip) ELSE {0}
          /\ txn' = [txn EXCEPT ![a] =
                [rows |-> [g \in Flaws |-> [NoRows[g] EXCEPT !.kind = kind[g]]],
                 fixes |-> fixes,
                 learnt |-> [g \in Flaws |->
                    IF g \in proposed
                    THEN NewRule(rules[g][1], rules[g][2], p, g, fixes[g])
                    ELSE Unused]]]
          /\ audit' = [audit EXCEPT ![a] =
                [state |-> IF complete THEN "learnt" ELSE "stored",
                 commit |-> head, previous |-> p, ran |-> FALSE]]
    /\ UNCHANGED <<past, text, finding, rule, asked, followed>>

-----------------------------------------------------------------------------
(***************************************************************************)
(* What an audit remembers                                                 *)
(***************************************************************************)

FindingAt(o) == finding[o[1]][o[2]]

\* Mutant: a finding seen before is enough, fixed or not.
SeenBefore(a, flaw) ==
    {o \in Findings : /\ o[1] # a /\ FindingAt(o).kind # "none" /\ FindingAt(o).flaw = flaw}

\* The findings of other audits with this fingerprint that have a fix, as the
\* audit's own transaction sees them.
FixedBefore(a, flaw) ==
    {o \in Findings : /\ o[1] # a /\ FindingAt(o).flaw = flaw
                      /\ \/ FindingAt(o).fix # 0
                         \/ (o[1] = audit[a].previous /\ txn[a].fixes[o[2]] # 0)}

\* The same finding again, after a fix.
Again(a, row) ==
    LET old == FixedBefore(a, row.flaw)
    IN IF row.kind = "none" \/ old = {} THEN {row}
       ELSE {[row EXCEPT !.zombie = o] : o \in old}

Approved == {r \in Rules : rule[r].validated /\ rule[r].approved}

\* Rules that get the same identifier in Semgrep: about one fingerprint, by one
\* name.
SameId(r, s) == r[2] = s[2] /\ rule[r].name = rule[s].name

\* Of the rules with one identifier, any one is run.
RunRules ==
    {R \in SUBSET Approved : \A r \in Approved : \E s \in R :
        SameId(r, s) /\ \A t \in R : SameId(r, t) => t = s}

\* The findings whose rules match place g of commit c.
OriginsOf(R, c, g) ==
    {rule[r].origin : r \in {s \in R : <<g, text[c][g]>> \in rule[s].pattern}}
        \ {NoFinding}

\* Mutant: a match only marks what the model found.
MarkOnly(row, g, origins) ==
    IF row.kind \in {"none", "refuted"} \/ row.zombie # NoFinding \/ origins = {}
    THEN {row} ELSE {[row EXCEPT !.zombie = o] : o \in origins}

\* What matches make of a row: it is marked, or added if there is none.
Matched(row, g, origins) ==
    IF origins = {} THEN {row}
    ELSE IF row.kind = "none"
         THEN {[kind |-> "immune", flaw |-> FindingAt(o).flaw, fix |-> 0, zombie |-> o] :
                  o \in origins}
         ELSE IF row.kind = "refuted" \/ row.zombie # NoFinding THEN {row}
              ELSE {[row EXCEPT !.zombie = o] : o \in origins}

\* Another open transaction has written the fix of a finding this one writes.
Blocked(a) ==
    \E b \in Audits \ {a} :
        /\ audit[b].state = "stored" /\ audit[b].previous = audit[a].previous
        /\ \E g \in Flaws : txn[a].fixes[g] # 0 /\ txn[b].fixes[g] # 0

\* The findings whose fixes it writes have been deleted.
Dangling(a) ==
    \E g \in Flaws : txn[a].fixes[g] # 0 /\ audit[audit[a].previous].state # "done"

\* The rows that place g may end with, when these rules are run.
Outcomes(a, R, g) ==
    UNION {Matched(row, g, OriginsOf(R, audit[a].commit, g)) : row \in Again(a, txn[a].rows[g])}

\* The fixes and rules are written to the database, what was fixed before and
\* the approved rules are read from it, and Semgrep runs the rules, if there are
\* any.  When it fails, the findings marked by then stay marked.
Recall(a) ==
    /\ audit[a].state = "learnt"
    /\ ~Blocked(a) /\ ~Dangling(a)
    /\ \E ran \in BOOLEAN, R \in RunRules \cup {{}} :
          /\ IF ran THEN R \in RunRules ELSE R = {} /\ Approved # {}
          /\ \E rows \in [Flaws -> UNION {Outcomes(a, R, g) : g \in Flaws}] :
                /\ \A g \in Flaws : rows[g] \in Outcomes(a, R, g)
                /\ txn' = [txn EXCEPT ![a].rows = rows]
          /\ audit' = [audit EXCEPT ![a].state = "stored", ![a].ran = ran]
    /\ asked' = [asked EXCEPT ![a] = Approved]
    /\ UNCHANGED <<past, text, finding, rule, followed>>

\* The transaction commits, and the audit is done.
Commit(a) ==
    /\ audit[a].state = "stored"
    /\ ~Dangling(a)
    /\ audit' = [audit EXCEPT ![a].state = "done"]
    /\ finding' = [b \in Audits |->
          IF b = a THEN txn[a].rows
          ELSE IF b = audit[a].previous
               THEN [g \in Flaws |-> IF txn[a].fixes[g] = 0 THEN finding[b][g]
                                     ELSE [finding[b][g] EXCEPT !.fix = txn[a].fixes[g]]]
               ELSE finding[b]]
    /\ rule' = [r \in Rules |-> IF r[1] = a THEN txn[a].learnt[r[2]] ELSE rule[r]]
    /\ txn' = [txn EXCEPT ![a] = Closed]
    /\ followed' = LET p == audit[a].previous
                       fixed == {o \in Findings : o[1] = p /\ txn[a].fixes[o[2]] # 0}
                   IN IF p # 0 /\ audit[p].commit \in Fetched(audit[a].commit)
                      THEN followed \cup fixed ELSE followed \ fixed
    /\ UNCHANGED <<past, text, asked>>

\* Mutant: the audit is left done, with nothing stored.
FailDone(a) ==
    /\ Working(a)
    /\ audit' = [audit EXCEPT ![a] = Empty("done")]
    /\ txn' = [txn EXCEPT ![a] = Closed]
    /\ asked' = [asked EXCEPT ![a] = {}]
    /\ UNCHANGED <<past, text, finding, rule, followed>>

\* The audit fails before it commits, and its transaction is rolled back:
\* nothing of it is used again.
Fail(a) ==
    /\ Working(a)
    /\ audit' = [audit EXCEPT ![a] = Empty("gone")]
    /\ txn' = [txn EXCEPT ![a] = Closed]
    /\ asked' = [asked EXCEPT ![a] = {}]
    /\ UNCHANGED <<past, text, finding, rule, followed>>

-----------------------------------------------------------------------------
(***************************************************************************)
(* What people do                                                          *)
(***************************************************************************)

\* An open transaction has written rows that refer to findings of audit b.
Referred(b) ==
    \E a \in Audits : /\ audit[a].state = "stored"
                      /\ \E g \in Flaws : \/ (audit[a].previous = b /\ txn[a].fixes[g] # 0)
                                           \/ txn[a].rows[g].zombie \in {b} \X Flaws

\* An audit is deleted, its findings go with it, and what referred to them
\* refers to nothing.  The rules stay.
Delete(b) ==
    /\ audit[b].state = "done" /\ ~Referred(b)
    /\ audit' = [audit EXCEPT ![b] = Empty("gone")]
    /\ asked' = [asked EXCEPT ![b] = {}]
    /\ finding' = [a \in Audits |-> IF a = b THEN NoRows ELSE
          [g \in Flaws |-> IF finding[a][g].zombie \in {b} \X Flaws
                           THEN [finding[a][g] EXCEPT !.zombie = NoFinding]
                           ELSE finding[a][g]]]
    /\ rule' = [r \in Rules |-> IF rule[r].origin \in {b} \X Flaws
                                THEN [rule[r] EXCEPT !.origin = NoFinding] ELSE rule[r]]
    /\ followed' = {o \in followed : o[1] # b}
    /\ UNCHANGED <<past, text, txn>>

Approve(r) ==
    /\ rule[r].validated
    /\ rule' = [rule EXCEPT ![r].approved = TRUE]
    /\ UNCHANGED <<past, text, audit, finding, txn, asked, followed>>

Revoke(r) ==
    /\ rule' = [rule EXCEPT ![r].approved = FALSE]
    /\ UNCHANGED <<past, text, audit, finding, txn, asked, followed>>

Next ==
    \/ \E a \in Audits : Learn(a) \/ Recall(a) \/ Commit(a) \/ Fail(a)
    \/ \E b \in Audits : Delete(b)
    \/ \E r \in Rules : Approve(r) \/ Revoke(r)

Spec == Init /\ [][Next]_vars

-----------------------------------------------------------------------------
(***************************************************************************)
(* Properties                                                              *)
(***************************************************************************)

\* The flaw was in the audited commit and in every commit after it on the way
\* to the fix, and not in the fix.
WasFixedBy(b, g, x) ==
    /\ x \in CommitIds /\ ~Flawed(x, g)
    /\ audit[b].commit \in past[x]
    /\ \A y \in past[x] \ {x} : audit[b].commit \in past[y] => Flawed(y, g)

\* A fix that was looked for in the history from the finding's commit to the
\* audited one (immune.find_fixed) is the commit that removed the code, whichever
\* audits recorded it, on whichever branches.
FixIsReal ==
    \A b \in Audits, g \in Flaws :
        finding[b][g].fix # 0 /\ <<b, g>> \in followed => WasFixedBy(b, g, finding[b][g].fix)

\* An audit whose immune module succeeds records the fix of every finding of
\* the audit before it that was shown to hold and is gone, if it could see it
\* (record_immune): also when other audits of the project ran meanwhile.
FixesRecorded ==
    \A a \in Audits, b \in Audits, g \in Flaws :
        /\ audit[a].state = "done" /\ audit[a].ran /\ audit[a].previous = b
        /\ finding[b][g].kind = "evidenced"
        /\ ~Flawed(audit[a].commit, g)
        /\ audit[b].commit \in Fetched(audit[a].commit)
        => finding[b][g].fix # 0

\* A rule that passed its test (immune.validate), and so can be approved, tells
\* the code before the fix from the fix; if that is the fix of a finding, found
\* in the history from it, what it matches is the flaw.
Catches(q, g) ==
    /\ q.fix \in CommitIds /\ ~Flawed(q.fix, g)
    /\ \A p \in Parents(q.fix) : Flawed(p, g)
    /\ <<g, "flawed">> \in q.pattern /\ <<g, text[q.fix][g]>> \notin q.pattern
RulesCatchTheFlaw ==
    \A r \in Rules : LET q == rule[r] IN
        /\ q.approved => q.validated
        /\ q.validated /\ q.origin \in followed /\ FindingAt(q.origin).fix = q.fix
              => Catches(q, r[2])

\* What a zombie or a rule refers to is a finding with a fix, or nothing.
OriginsWereFixed ==
    /\ \A a \in Audits, g \in Flaws : LET o == finding[a][g].zombie
                                      IN o # NoFinding => FindingAt(o).fix # 0
    /\ \A r \in Rules : LET o == rule[r].origin IN o # NoFinding => FindingAt(o).fix # 0

\* What an approved rule matches in an audited commit is reported, even if the
\* model missed it: when the rule still has its finding, and no other approved
\* rule has its identifier.
Reported(r, a) ==
    \A g \in Flaws : <<g, text[audit[a].commit][g]>> \in rule[r].pattern
                     => finding[a][g].kind # "none"
RegressionsReported ==
    \A a \in Audits : audit[a].state = "done" /\ audit[a].ran =>
        \A r \in asked[a] :
            rule[r].origin # NoFinding /\ (\A s \in asked[a] : SameId(r, s) => s = r)
                => Reported(r, a)

\* README.md:444-445: when a finding is gone from the next audit, "git says which
\* commit removed it".
FixRemovedIt ==
    \A b \in Audits, g \in Flaws :
        finding[b][g].fix # 0 => WasFixedBy(b, g, finding[b][g].fix)

=============================================================================
