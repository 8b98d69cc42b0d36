------------------------- MODULE ImmuneMemoryProofs -------------------------
(***************************************************************************)
(* Proofs about ImmuneMemory: type correctness, that recorded fixes are    *)
(* the commits that removed the code, that rules tell the flaw from its    *)
(* fix, and that zombies and rules refer to findings that were fixed; and  *)
(* of what an audit records that looked for everything: the fixes it could *)
(* see are there, and so is what the approved rules matched.               *)
(***************************************************************************)
EXTENDS ImmuneMemory, FiniteSetTheorems, WellFoundedInduction, TLAPS

-----------------------------------------------------------------------------
(***************************************************************************)
(* Type correctness                                                        *)
(***************************************************************************)

\* No finding, no rule and no transaction have their types.
LEMMA EmptyTypes ==
    /\ NoRows \in [Flaws -> Row]
    /\ Unused \in Rule
    /\ NoRules \in [Flaws -> Rule]
    /\ Closed \in Txn
<1>1. 0 \in 0..MaxCommits
    BY BoundsAssumption
<1>2. NoRows \in [Flaws -> Row]
    BY <1>1 DEF NoRows, Row
<1>3. (CHOOSE n \in Names : TRUE) \in Names
    BY NamesAssumption
<1>4. Unused \in Rule
    BY <1>1, <1>3 DEF Unused, Rule
<1> QED
    BY <1>1, <1>2, <1>4 DEF NoRules, Closed, Txn

\* What previous_audit returns is an earlier finished audit, or none.
LEMMA PreviousIs ==
    ASSUME TypeOK, NEW a \in Audits, NEW p \in Previous(a)
    PROVE  /\ p \in 0..MaxAudits
           /\ p # 0 => p \in Audits /\ p < a /\ audit[p].state = "done"
BY BoundsAssumption DEF Previous, TypeOK, Audits

\* The fix that find_fixed gives a finding is a commit, or none.
LEMMA FixOfIs ==
    ASSUME TypeOK, NEW g \in Flaws, NEW b, NEW head \in CommitIds, NEW tip,
           NEW x \in FixOf(g, b, head, tip)
    PROVE  x \in 0..MaxCommits
BY BoundsAssumption DEF FixOf, FirstWithout, Reached, TypeOK, CommitIds

\* The rule learnt from a fix is a row of immune_rules.
LEMMA NewRuleType ==
    ASSUME NEW pattern \in Patterns, NEW name \in Names, NEW b \in Audits, NEW g \in Flaws,
           NEW fix \in 0..MaxCommits
    PROVE  NewRule(pattern, name, b, g, fix) \in Rule
<1>1. pattern \in SUBSET (Flaws \X Versions)
    BY PatternsAssumption
<1>2. <<b, g>> \in Findings \cup {NoFinding}
    BY DEF Findings
<1>3. Validate(pattern, g, fix) \in BOOLEAN
    BY DEF Validate
<1> QED
    BY <1>1, <1>2, <1>3 DEF NewRule, Rule

\* The rows an audit may end with are rows, of the same fix; a row that was
\* added is one a rule matched, and the others keep their kind.
LEMMA OutcomesAre ==
    ASSUME TypeOK, NEW a \in Audits, NEW R \in SUBSET Rules, NEW g \in Flaws,
           NEW row \in Outcomes(a, R, g), txn[a].rows[g].fix = 0
    PROVE  /\ row \in Row
           /\ row.fix = 0
           /\ row.kind \in {txn[a].rows[g].kind, "immune"}
           /\ row.kind = "none" => row = txn[a].rows[g]
<1> DEFINE own == txn[a].rows[g]
           origins == OriginsOf(R, audit[a].commit, g)
<1>1. own \in Row
    BY DEF TypeOK, Txn
<1>2. PICK again \in Again(a, own) : row \in Matched(again, g, origins)
    BY DEF Outcomes
<1>3. /\ again \in Row /\ again.fix = 0 /\ again.kind = own.kind
      /\ again.kind = "none" => again = own
    <2>1. FixedBefore(a, own.flaw) \subseteq Findings
        BY DEF FixedBefore
    <2> QED
        BY <1>1, <1>2, <2>1 DEF Again, Row
<1>4. origins \subseteq Findings
    BY DEF OriginsOf, TypeOK, Rule
<1>5. ASSUME NEW o \in origins PROVE FindingAt(o).flaw \in Flaws
    BY <1>4, <1>5 DEF FindingAt, Findings, TypeOK, Row
<1>6. ASSUME NEW o \in origins
      PROVE  [again EXCEPT !.zombie = o] \in Row
    BY <1>3, <1>4, <1>6 DEF Row
<1>7. ASSUME NEW o \in origins
      PROVE  [kind |-> "immune", flaw |-> FindingAt(o).flaw, fix |-> 0, zombie |-> o] \in Row
    BY <1>4, <1>5, <1>7, BoundsAssumption DEF Row
<1>8. CASE row = again
    BY <1>3, <1>8
<1>9. CASE again.kind = "none" /\ \E o \in origins :
               row = [kind |-> "immune", flaw |-> FindingAt(o).flaw, fix |-> 0, zombie |-> o]
    BY <1>7, <1>9
<1>10. CASE again.kind # "none" /\ \E o \in origins : row = [again EXCEPT !.zombie = o]
    BY <1>3, <1>6, <1>10 DEF Row
<1> QED
    BY <1>2, <1>8, <1>9, <1>10 DEF Matched

\* The step of an audit that learns, with what it found and did.
Learns(a, p, head, complete, kind, handled, tip, fixes, proposed, rules) ==
    /\ complete => handled = Evidenced(p)
    /\ \A g \in Flaws : fixes[g] \in IF g \in handled THEN FixOf(g, p, head, tip) ELSE {0}
    /\ txn' = [txn EXCEPT ![a] =
          [rows |-> [g \in Flaws |-> [NoRows[g] EXCEPT !.kind = kind[g]]],
           fixes |-> fixes,
           learnt |-> [g \in Flaws |->
              IF g \in proposed
              THEN NewRule(rules[g][1], rules[g][2], p, g, fixes[g])
              ELSE Unused]]]
    /\ audit' = [audit EXCEPT ![a] =
          [state |-> IF complete THEN "learnt" ELSE "stored",
           commit |-> head, previous |-> p, ran |-> FALSE]]

\* Learn is such a step.
LEMMA LearnIs ==
    ASSUME NEW a \in Audits, Learn(a)
    PROVE  \E p \in Previous(a), head \in CommitIds, complete \in BOOLEAN :
           \E kind \in Reports(head), handled \in SUBSET Evidenced(p) :
           \E tip \in IF handled = {} THEN {head} ELSE CommitIds :
           \E fixes \in [Flaws -> 0..MaxCommits] :
           \E proposed \in SUBSET {g \in handled : fixes[g] \notin {0} \cup Cuts(head, tip)} :
           \E rules \in [proposed -> Patterns \X Names] :
               Learns(a, p, head, complete, kind, handled, tip, fixes, proposed, rules)
BY Zenon DEF Learn, Learns

\* What learning leaves: rows of the audited commit, fixes of the previous
\* audit's findings and the rules learnt from them.
Learnt(a, p, head, complete, tip) ==
    /\ audit' = [audit EXCEPT ![a] =
          [state |-> IF complete THEN "learnt" ELSE "stored",
           commit |-> head, previous |-> p, ran |-> FALSE]]
    /\ txn' = [txn EXCEPT ![a] = txn'[a]]
    /\ txn'[a] \in Txn
    /\ \A g \in Flaws : LET row == txn'[a].rows[g] IN
          /\ row.fix = 0 /\ row.zombie = NoFinding
          /\ row.kind # "none" => Flawed(head, g)
    /\ \A g \in Flaws : LET x == txn'[a].fixes[g] IN
          /\ x # 0 => p \in Audits /\ g \in Evidenced(p) /\ x \in FixOf(g, p, head, tip)
          /\ complete /\ g \in Evidenced(p) => x \in FixOf(g, p, head, tip)
    /\ \A g \in Flaws : LET q == txn'[a].learnt[g] IN
          \/ q = Unused
          \/ /\ txn'[a].fixes[g] # 0
             /\ \E pattern \in Patterns, name \in Names :
                   q = NewRule(pattern, name, p, g, txn'[a].fixes[g])

\* It leaves that.
LEMMA LearntBy ==
    ASSUME TypeOK, NEW a \in Audits, audit[a].state = "pending",
           NEW p \in Previous(a), NEW head \in CommitIds, NEW complete \in BOOLEAN,
           NEW kind \in Reports(head), NEW handled \in SUBSET Evidenced(p), NEW tip,
           NEW fixes \in [Flaws -> 0..MaxCommits],
           NEW proposed \in SUBSET {g \in handled : fixes[g] \notin {0} \cup Cuts(head, tip)},
           NEW rules \in [proposed -> Patterns \X Names],
           Learns(a, p, head, complete, kind, handled, tip, fixes, proposed, rules)
    PROVE  Learnt(a, p, head, complete, tip)
<1> DEFINE rows == [g \in Flaws |-> [NoRows[g] EXCEPT !.kind = kind[g]]]
           learnt == [g \in Flaws |->
                        IF g \in proposed
                        THEN NewRule(rules[g][1], rules[g][2], p, g, fixes[g]) ELSE Unused]
           own == [rows |-> rows, fixes |-> fixes, learnt |-> learnt]
<1>1. p \in 0..MaxAudits /\ (p # 0 => p \in Audits)
    BY PreviousIs
<1>2. handled # {} => p \in Audits
    BY <1>1 DEF Evidenced
<1>3. ASSUME NEW g \in Flaws
      PROVE  /\ rows[g] \in Row /\ rows[g].fix = 0 /\ rows[g].zombie = NoFinding
             /\ rows[g].kind # "none" => Flawed(head, g)
    <2>1. kind[g] \in {"none", "exists", "evidenced", "refuted"}
        BY <1>3, VerdictsAssumption DEF Reports
    <2>2. NoRows[g] \in Row /\ NoRows[g].fix = 0 /\ NoRows[g].zombie = NoFinding
        BY EmptyTypes DEF NoRows
    <2>3. kind[g] # "none" => Flawed(head, g)
        BY <1>3 DEF Reports
    <2> QED
        BY <2>1, <2>2, <2>3 DEF Row
<1>4. ASSUME NEW g \in Flaws
      PROVE  /\ learnt[g] \in Rule
             /\ \/ learnt[g] = Unused
                \/ /\ fixes[g] # 0
                   /\ \E pattern \in Patterns, name \in Names :
                         learnt[g] = NewRule(pattern, name, p, g, fixes[g])
    <2>1. CASE g \in proposed
        <3>1. rules[g] \in Patterns \X Names
            BY <2>1
        <3>2. p \in Audits /\ fixes[g] # 0
            BY <1>2, <2>1
        <3>3. learnt[g] = NewRule(rules[g][1], rules[g][2], p, g, fixes[g])
            BY <2>1, <1>4
        <3> QED
            BY <1>4, <2>1, <3>1, <3>2, <3>3, NewRuleType
    <2>2. CASE g \notin proposed
        BY <1>4, <2>2, EmptyTypes
    <2> QED
        BY <2>1, <2>2
<1>5. ASSUME NEW g \in Flaws
      PROVE  /\ fixes[g] # 0 => /\ p \in Audits /\ g \in Evidenced(p)
                                /\ fixes[g] \in FixOf(g, p, head, tip)
             /\ complete /\ g \in Evidenced(p) => fixes[g] \in FixOf(g, p, head, tip)
    BY <1>2, <1>5 DEF Learns
<1>6. own \in Txn
    <2>1. rows \in [Flaws -> Row] /\ learnt \in [Flaws -> Rule]
        BY <1>3, <1>4
    <2> HIDE DEF rows, learnt
    <2> QED
        BY <2>1 DEF Txn
<1>7. txn' = [txn EXCEPT ![a] = own]
    BY DEF Learns
<1>8. txn'[a] = own /\ own.rows = rows /\ own.fixes = fixes /\ own.learnt = learnt
    BY <1>7 DEF TypeOK
<1> HIDE DEF own, rows, learnt
<1>9. audit' = [audit EXCEPT ![a] =
          [state |-> IF complete THEN "learnt" ELSE "stored",
           commit |-> head, previous |-> p, ran |-> FALSE]]
    BY DEF Learns
<1>10. \A g \in Flaws : LET row == txn'[a].rows[g] IN
          /\ row.fix = 0 /\ row.zombie = NoFinding
          /\ row.kind # "none" => Flawed(head, g)
    BY <1>3, <1>8
<1>11. \A g \in Flaws : LET x == txn'[a].fixes[g] IN
          /\ x # 0 => p \in Audits /\ g \in Evidenced(p) /\ x \in FixOf(g, p, head, tip)
          /\ complete /\ g \in Evidenced(p) => x \in FixOf(g, p, head, tip)
    BY <1>5, <1>8
<1>12. \A g \in Flaws : LET q == txn'[a].learnt[g] IN
          \/ q = Unused
          \/ /\ txn'[a].fixes[g] # 0
             /\ \E pattern \in Patterns, name \in Names :
                   q = NewRule(pattern, name, p, g, txn'[a].fixes[g])
    BY <1>4, <1>8
<1> QED
    BY <1>6, <1>7, <1>8, <1>9, <1>10, <1>11, <1>12 DEF Learnt

\* Every learning step leaves that.
LEMMA LearnLeaves ==
    ASSUME TypeOK, NEW a \in Audits, Learn(a)
    PROVE  /\ audit[a].state = "pending"
           /\ UNCHANGED <<past, text, finding, rule, asked, followed>>
           /\ \E p \in Previous(a), head \in CommitIds, complete \in BOOLEAN :
              \E tip : Learnt(a, p, head, complete, tip)
<1>1. PICK p \in Previous(a), head \in CommitIds, complete \in BOOLEAN :
      \E kind \in Reports(head), handled \in SUBSET Evidenced(p) :
      \E tip \in IF handled = {} THEN {head} ELSE CommitIds :
      \E fixes \in [Flaws -> 0..MaxCommits] :
      \E proposed \in SUBSET {g \in handled : fixes[g] \notin {0} \cup Cuts(head, tip)} :
      \E rules \in [proposed -> Patterns \X Names] :
          Learns(a, p, head, complete, kind, handled, tip, fixes, proposed, rules)
    BY LearnIs, Zenon
<1>2. PICK kind \in Reports(head), handled \in SUBSET Evidenced(p) :
      \E tip \in IF handled = {} THEN {head} ELSE CommitIds :
      \E fixes \in [Flaws -> 0..MaxCommits] :
      \E proposed \in SUBSET {g \in handled : fixes[g] \notin {0} \cup Cuts(head, tip)} :
      \E rules \in [proposed -> Patterns \X Names] :
          Learns(a, p, head, complete, kind, handled, tip, fixes, proposed, rules)
    BY <1>1, Zenon
<1>3. PICK tip \in IF handled = {} THEN {head} ELSE CommitIds :
      \E fixes \in [Flaws -> 0..MaxCommits] :
      \E proposed \in SUBSET {g \in handled : fixes[g] \notin {0} \cup Cuts(head, tip)} :
      \E rules \in [proposed -> Patterns \X Names] :
          Learns(a, p, head, complete, kind, handled, tip, fixes, proposed, rules)
    BY <1>2, Zenon
<1>4. PICK fixes \in [Flaws -> 0..MaxCommits] :
      \E proposed \in SUBSET {g \in handled : fixes[g] \notin {0} \cup Cuts(head, tip)} :
      \E rules \in [proposed -> Patterns \X Names] :
          Learns(a, p, head, complete, kind, handled, tip, fixes, proposed, rules)
    BY <1>3, Zenon
<1>5. PICK proposed \in SUBSET {g \in handled : fixes[g] \notin {0} \cup Cuts(head, tip)} :
      \E rules \in [proposed -> Patterns \X Names] :
          Learns(a, p, head, complete, kind, handled, tip, fixes, proposed, rules)
    BY <1>4, Zenon
<1>6. PICK rules \in [proposed -> Patterns \X Names] :
          Learns(a, p, head, complete, kind, handled, tip, fixes, proposed, rules)
    BY <1>5, Zenon
<1>7. audit[a].state = "pending" /\ UNCHANGED <<past, text, finding, rule, asked, followed>>
    BY DEF Learn
<1>8. Learnt(a, p, head, complete, tip)
    BY <1>6, <1>7, LearntBy
<1> QED
    BY <1>7, <1>8

\* An audit stores its findings and learns (store_result, record_immune).
LEMMA LearnType == ASSUME TypeOK, NEW a \in Audits, Learn(a) PROVE TypeOK'
<1>0. PICK p \in Previous(a), head \in CommitIds, complete \in BOOLEAN :
      \E tip : Learnt(a, p, head, complete, tip)
    BY LearnLeaves
<1>1. PICK tip : Learnt(a, p, head, complete, tip)
    BY <1>0
<1>2. p \in 0..MaxAudits
    BY PreviousIs
<1>3. txn' \in [Audits -> Txn]
    BY <1>1 DEF Learnt, TypeOK
<1>4. audit' \in [Audits -> Audit]
    BY <1>1, <1>2 DEF Learnt, TypeOK, Audit, CommitIds
<1>5. \A b \in Audits : (Working(b) \/ audit[b].state = "done")' => audit'[b].commit \in CommitIds
    BY <1>1 DEF Learnt, TypeOK, Working
<1> QED
    BY <1>3, <1>4, <1>5, LearnLeaves DEF TypeOK, Working

\* The step of an audit that remembers, with the rules it ran.
Recalls(a, ran, R, rows) ==
    /\ IF ran THEN R \in RunRules ELSE R = {} /\ Approved # {}
    /\ rows \in [Flaws -> Row]
    /\ \A g \in Flaws : rows[g] \in Outcomes(a, R, g)
    /\ txn' = [txn EXCEPT ![a].rows = rows]
    /\ audit' = [audit EXCEPT ![a].state = "stored", ![a].ran = ran]

\* Every remembering step is such a step.
LEMMA RecallLeaves ==
    ASSUME TypeOK, NEW a \in Audits, Recall(a), \A g \in Flaws : txn[a].rows[g].fix = 0
    PROVE  /\ audit[a].state = "learnt" /\ ~Dangling(a)
           /\ asked' = [asked EXCEPT ![a] = Approved]
           /\ UNCHANGED <<past, text, finding, rule, followed>>
           /\ \E ran \in BOOLEAN, R \in SUBSET Rules, rows \in [Flaws -> Row] :
                 Recalls(a, ran, R, rows)
<1>1. PICK ran \in BOOLEAN, R \in RunRules \cup {{}} :
          /\ IF ran THEN R \in RunRules ELSE R = {} /\ Approved # {}
          /\ \E rows \in [Flaws -> UNION {Outcomes(a, R, g) : g \in Flaws}] :
                /\ \A g \in Flaws : rows[g] \in Outcomes(a, R, g)
                /\ txn' = [txn EXCEPT ![a].rows = rows]
          /\ audit' = [audit EXCEPT ![a].state = "stored", ![a].ran = ran]
    BY Zenon DEF Recall
<1>2. PICK rows \in [Flaws -> UNION {Outcomes(a, R, g) : g \in Flaws}] :
          /\ \A g \in Flaws : rows[g] \in Outcomes(a, R, g)
          /\ txn' = [txn EXCEPT ![a].rows = rows]
    BY <1>1, Zenon
<1>3. R \in SUBSET Rules
    BY DEF RunRules, Approved
<1>4. rows \in [Flaws -> Row]
    BY <1>2, <1>3, OutcomesAre
<1>5. Recalls(a, ran, R, rows)
    BY <1>1, <1>2, <1>4, Zenon DEF Recalls
<1>6. /\ audit[a].state = "learnt" /\ ~Dangling(a)
      /\ asked' = [asked EXCEPT ![a] = Approved]
      /\ UNCHANGED <<past, text, finding, rule, followed>>
    BY DEF Recall
<1> QED
    BY <1>3, <1>4, <1>5, <1>6, Zenon

\* An audit remembers (record_immune).
LEMMA RecallType ==
    ASSUME TypeOK, NEW a \in Audits, Recall(a), \A g \in Flaws : txn[a].rows[g].fix = 0
    PROVE  TypeOK'
<1>1. PICK ran \in BOOLEAN, R \in SUBSET Rules, rows \in [Flaws -> Row] :
          Recalls(a, ran, R, rows)
    BY RecallLeaves
<1>2. txn' \in [Audits -> Txn]
    BY <1>1 DEF Recalls, TypeOK, Txn
<1>3. audit' \in [Audits -> Audit]
    BY <1>1 DEF Recalls, TypeOK, Audit
<1>4. \A b \in Audits : (Working(b) \/ audit[b].state = "done")' => audit'[b].commit \in CommitIds
    <2>1. audit[a].state = "learnt"
        BY RecallLeaves
    <2>2. audit[a].commit \in CommitIds
        BY <2>1 DEF TypeOK, Working
    <2>3. ASSUME NEW b \in Audits
          PROVE  /\ audit'[b].commit = audit[b].commit
                 /\ b # a => audit'[b].state = audit[b].state
        BY <1>1, <2>3 DEF Recalls, TypeOK, Audit
    <2> QED
        BY <2>2, <2>3 DEF TypeOK, Working
<1>5. asked' \in [Audits -> SUBSET Rules]
    BY RecallLeaves DEF TypeOK, Approved
<1> QED
    BY <1>2, <1>3, <1>4, <1>5, RecallLeaves DEF TypeOK, Working

\* What a commit makes of the findings: the audit's own, and the fixes.
LEMMA CommitFindings ==
    ASSUME TypeOK, NEW a \in Audits, Commit(a), NEW b \in Audits, NEW g \in Flaws
    PROVE  /\ b = a => finding'[b][g] = txn[a].rows[g]
           /\ b # a /\ (b # audit[a].previous \/ txn[a].fixes[g] = 0) =>
                 finding'[b][g] = finding[b][g]
           /\ b # a /\ b = audit[a].previous /\ txn[a].fixes[g] # 0 =>
                 finding'[b][g] = [finding[b][g] EXCEPT !.fix = txn[a].fixes[g]]
BY DEF Commit, TypeOK

\* An audit commits (execute_audit, runner_result).
LEMMA CommitType == ASSUME TypeOK, NEW a \in Audits, Commit(a) PROVE TypeOK'
<1>1. txn[a] \in Txn
    BY DEF TypeOK
<1>2. finding' \in [Audits -> [Flaws -> Row]]
    <2>1. ASSUME NEW b \in Audits, NEW g \in Flaws PROVE finding'[b][g] \in Row
        <3>1. finding[b][g] \in Row /\ txn[a].rows[g] \in Row /\ txn[a].fixes[g] \in 0..MaxCommits
            BY <1>1 DEF TypeOK, Txn
        <3>2. [finding[b][g] EXCEPT !.fix = txn[a].fixes[g]] \in Row
            BY <3>1 DEF Row
        <3> QED
            BY <3>1, <3>2, CommitFindings
    <2>2. finding' = [b \in Audits |-> [g \in Flaws |-> finding'[b][g]]]
        <3>1. ASSUME NEW b \in Audits PROVE finding'[b] = [g \in Flaws |-> finding'[b][g]]
            BY <1>1 DEF Commit, TypeOK, Txn
        <3> QED
            BY <3>1 DEF Commit
    <2> QED
        BY <2>1, <2>2
<1>3. rule' \in [Rules -> Rule]
    BY <1>1 DEF Commit, TypeOK, Txn, Rules
<1>4. txn' \in [Audits -> Txn]
    BY EmptyTypes DEF Commit, TypeOK
<1>5. audit' \in [Audits -> Audit]
    BY DEF Commit, TypeOK, Audit
<1>6. \A b \in Audits : (Working(b) \/ audit[b].state = "done")' => audit'[b].commit \in CommitIds
    BY DEF Commit, TypeOK, Working, Audit
<1> QED
    BY <1>2, <1>3, <1>4, <1>5, <1>6 DEF TypeOK, Commit, Working

\* An audit fails (execute_audit, runner_result).
LEMMA FailType == ASSUME TypeOK, NEW a \in Audits, Fail(a) PROVE TypeOK'
<1>1. Empty("gone") \in Audit
    BY BoundsAssumption DEF Empty, Audit
<1>2. audit' \in [Audits -> Audit]
    BY <1>1 DEF Fail, TypeOK
<1>3. \A b \in Audits : (Working(b) \/ audit[b].state = "done")' => audit'[b].commit \in CommitIds
    BY DEF Fail, TypeOK, Working, Empty
<1>4. txn' \in [Audits -> Txn]
    BY EmptyTypes DEF Fail, TypeOK
<1> QED
    BY <1>2, <1>3, <1>4 DEF TypeOK, Fail, Working

\* What a deletion makes of the findings: none of its own, and no reference to
\* them.
LEMMA DeleteFindings ==
    ASSUME TypeOK, NEW b \in Audits, Delete(b), NEW a \in Audits, NEW g \in Flaws
    PROVE  /\ a = b => finding'[a][g] = NoRows[g]
           /\ a # b /\ finding[a][g].zombie \notin {b} \X Flaws => finding'[a][g] = finding[a][g]
           /\ a # b /\ finding[a][g].zombie \in {b} \X Flaws =>
                 finding'[a][g] = [finding[a][g] EXCEPT !.zombie = NoFinding]
BY DEF Delete, TypeOK

\* An audit is deleted (delete_audit).
LEMMA DeleteType == ASSUME TypeOK, NEW b \in Audits, Delete(b) PROVE TypeOK'
<1>1. finding' \in [Audits -> [Flaws -> Row]]
    <2>1. ASSUME NEW a \in Audits, NEW g \in Flaws PROVE finding'[a][g] \in Row
        <3>1. finding[a][g] \in Row /\ NoRows[g] \in Row
            BY EmptyTypes DEF TypeOK
        <3>2. [finding[a][g] EXCEPT !.zombie = NoFinding] \in Row
            BY <3>1 DEF Row
        <3> QED
            BY <3>1, <3>2, DeleteFindings
    <2>2. finding' = [a \in Audits |-> [g \in Flaws |-> finding'[a][g]]]
        <3>1. ASSUME NEW a \in Audits PROVE finding'[a] = [g \in Flaws |-> finding'[a][g]]
            BY EmptyTypes DEF Delete, TypeOK
        <3> QED
            BY <3>1 DEF Delete
    <2> QED
        BY <2>1, <2>2
<1>2. rule' \in [Rules -> Rule]
    <2>1. ASSUME NEW r \in Rules PROVE [rule[r] EXCEPT !.origin = NoFinding] \in Rule
        BY <2>1 DEF TypeOK, Rule
    <2> QED
        BY <2>1 DEF Delete, TypeOK
<1>3. Empty("gone") \in Audit
    BY BoundsAssumption DEF Empty, Audit
<1>4. audit' \in [Audits -> Audit]
    BY <1>3 DEF Delete, TypeOK
<1>5. \A a \in Audits : (Working(a) \/ audit[a].state = "done")' => audit'[a].commit \in CommitIds
    BY DEF Delete, TypeOK, Working, Empty
<1> QED
    BY <1>1, <1>2, <1>4, <1>5 DEF TypeOK, Delete, Working

\* A person decides about a rule (approve_immune_rule, revoke_immune_rule).
LEMMA DecisionType ==
    ASSUME TypeOK, NEW r \in Rules, Approve(r) \/ Revoke(r) PROVE TypeOK'
<1>1. ASSUME NEW v \in BOOLEAN PROVE [rule[r] EXCEPT !.approved = v] \in Rule
    BY <1>1 DEF TypeOK, Rule
<1>2. rule' \in [Rules -> Rule]
    BY <1>1 DEF Approve, Revoke, TypeOK
<1> QED
    BY <1>2 DEF TypeOK, Approve, Revoke, Working

\* What a step leaves alone: the repository, and what the audits other than a
\* are and hold.
Others(a) ==
    /\ UNCHANGED <<past, text>>
    /\ \A b \in Audits \ {a} : audit'[b] = audit[b] /\ txn'[b] = txn[b]

LEMMA LearnSets ==
    ASSUME TypeOK, NEW a \in Audits, NEW p, NEW head, NEW complete \in BOOLEAN,
           NEW tip, Learnt(a, p, head, complete, tip), UNCHANGED <<past, text>>
    PROVE  /\ Others(a)
           /\ audit'[a].state \in {"learnt", "stored"} /\ audit'[a].previous = p
           /\ audit'[a].commit = head /\ ~audit'[a].ran
           /\ complete <=> audit'[a].state = "learnt"
BY DEF Learnt, Others, TypeOK

LEMMA RecallSets ==
    ASSUME TypeOK, NEW a \in Audits, Recall(a), NEW ran \in BOOLEAN, NEW R, NEW rows,
           Recalls(a, ran, R, rows)
    PROVE  /\ Others(a)
           /\ audit'[a].state = "stored" /\ audit'[a].previous = audit[a].previous
           /\ audit'[a].commit = audit[a].commit /\ audit'[a].ran = ran
           /\ txn'[a].rows = rows /\ txn'[a].fixes = txn[a].fixes
           /\ txn'[a].learnt = txn[a].learnt
BY DEF Recall, Recalls, Others, TypeOK, Audit, Txn

LEMMA CommitSets ==
    ASSUME TypeOK, NEW a \in Audits, Commit(a)
    PROVE  /\ Others(a)
           /\ audit[a].state = "stored" /\ ~Dangling(a)
           /\ audit'[a].state = "done" /\ audit'[a].previous = audit[a].previous
           /\ audit'[a].commit = audit[a].commit /\ audit'[a].ran = audit[a].ran
           /\ txn'[a] = Closed
BY DEF Commit, Others, TypeOK, Audit

LEMMA FailSets ==
    ASSUME TypeOK, NEW a \in Audits, Fail(a)
    PROVE  /\ Others(a) /\ Working(a) /\ UNCHANGED <<finding, rule, followed>>
           /\ audit'[a] = Empty("gone") /\ txn'[a] = Closed
BY DEF Fail, Others, TypeOK

LEMMA DeleteSets ==
    ASSUME TypeOK, NEW a \in Audits, Delete(a)
    PROVE  /\ Others(a)
           /\ audit[a].state = "done" /\ ~Referred(a)
           /\ audit'[a] = Empty("gone") /\ UNCHANGED txn
BY DEF Delete, Others, TypeOK

\* Nothing is fixed or learnt in a transaction that is not open.
LEMMA ClosedIs ==
    \A g \in Flaws : /\ Closed.rows[g].kind = "none" /\ Closed.rows[g].fix = 0
                     /\ Closed.rows[g].zombie = NoFinding /\ Closed.fixes[g] = 0
                     /\ Closed.learnt[g] = Unused
BY DEF Closed, NoRows, NoRules

-----------------------------------------------------------------------------
(***************************************************************************)
(* The inductive invariant                                                 *)
(*                                                                         *)
(* What is committed is sound because what the open transactions hold is:  *)
(* the fixes of findings that still exist, rows of the audited commit, and *)
(* rules learnt from those fixes.                                          *)
(***************************************************************************)

\* Only finished audits have findings; those with a fix were shown to hold, and
\* what was shown to hold was in the audited commit.
StoredRows ==
    \A b \in Audits, g \in Flaws : LET row == finding[b][g] IN
        /\ row.kind # "none" => audit[b].state = "done"
        /\ row.fix # 0 => row.kind = "evidenced"
        /\ row.zombie # NoFinding => row.kind # "none"
        /\ row.kind = "evidenced" => Flawed(audit[b].commit, g)

\* A transaction is open while its audit works; its own rows have no fix, and
\* refer to others only once it has remembered.
Transactions ==
    \A a \in Audits : /\ ~Working(a) => txn[a] = Closed
                      /\ \A g \in Flaws : LET row == txn[a].rows[g] IN
                            /\ row.fix = 0
                            /\ row.zombie # NoFinding => audit[a].state = "stored" /\ row.kind # "none"
                            /\ row.kind = "evidenced" => Flawed(audit[a].commit, g)

\* What an audit is compared with was finished before, and may be deleted.
Compared ==
    \A a \in Audits : LET p == audit[a].previous IN
        p # 0 => p \in Audits /\ p < a /\ audit[p].state \in {"done", "gone"}

\* The fixes a transaction holds are real, if their findings are still there and
\* their commits are in the clone's history.
OpenFixes ==
    \A a \in Audits, g \in Flaws : LET p == audit[a].previous IN
        txn[a].fixes[g] # 0 =>
            /\ p # 0
            /\ audit[p].state = "done" =>
                  /\ finding[p][g].kind = "evidenced"
                  /\ audit[p].commit \in Fetched(audit[a].commit)
                        => WasFixedBy(p, g, txn[a].fixes[g])

\* The rules it holds have passed the test if they say so, and are nobody's yet.
OpenRules ==
    \A a \in Audits, g \in Flaws : LET q == txn[a].learnt[g] IN
        /\ ~q.approved
        /\ q.validated => Validate(q.pattern, g, q.fix)
        /\ q.origin # NoFinding => q.origin = <<audit[a].previous, g>> /\ txn[a].fixes[g] # 0

\* So have the committed ones, and those that are approved.
StoredRules ==
    \A r \in Rules : LET q == rule[r] IN
        /\ q.approved => q.validated
        /\ q.validated => Validate(q.pattern, r[2], q.fix)
        /\ q.origin # NoFinding => q.origin[2] = r[2]

\* The findings its rows refer to have a fix, or get it with them.
OpenOrigins ==
    \A a \in Audits, g \in Flaws : LET o == txn[a].rows[g].zombie IN
        o # NoFinding => \/ FindingAt(o).fix # 0
                        \/ (o[1] = audit[a].previous /\ txn[a].fixes[o[2]] # 0)

FixInv == TypeOK /\ IsHistory /\ StoredRows /\ Transactions /\ Compared /\ OpenFixes /\ FixIsReal

-----------------------------------------------------------------------------
(***************************************************************************)
(* Fixes                                                                   *)
(***************************************************************************)

\* A non-empty set of numbers has a least one.
LEMMA Least ==
    ASSUME NEW T \in SUBSET Nat, T # {} PROVE \E x \in T : \A y \in T : x <= y
<1> DEFINE R == OpToRel(<, Nat)
<1>1. IsWellFoundedOn(R, Nat)
    BY NatLessThanWellFounded
<1>2. PICK x \in T : \A y \in T : ~(<<y, x>> \in R)
    <2> HIDE DEF R
    <2> QED
        BY <1>1, WFMin
<1>3. ASSUME NEW y \in T, y < x PROVE <<y, x>> \in R
    <2>1. <<y, x>> \in Nat \X Nat
        OBVIOUS
    <2>2. <<y, x>>[1] < <<y, x>>[2]
        BY <1>3
    <2> QED
        BY <2>1, <2>2, Zenon DEF OpToRel
<1>4. \A y \in T : ~(y < x)
    BY <1>2, <1>3, Zenon
<1>5. \A y \in T : x <= y
    BY <1>4
<1> QED
    BY <1>5

\* A bounded one has a greatest.
LEMMA Greatest ==
    ASSUME NEW n \in Nat, NEW T \in SUBSET (0..n), T # {} PROVE \E x \in T : \A y \in T : y <= x
<1> DEFINE U == {k \in Nat : n - k \in T}
<1>1. U \in SUBSET Nat /\ U # {}
    <2>1. PICK y \in T : TRUE
        OBVIOUS
    <2>2. y \in Nat /\ n - y \in Nat /\ n - (n - y) = y
        BY <2>1
    <2> QED
        BY <2>1, <2>2
<1>2. PICK k \in U : \A y \in U : k <= y
    BY <1>1, Least
<1>3. ASSUME NEW y \in T PROVE y <= n - k
    <2>1. y \in 0..n /\ n - y \in Nat /\ n - (n - y) = y
        BY <1>3
    <2>2. k <= n - y
        BY <1>2, <1>3, <2>1
    <2> QED
        BY <1>2, <2>1, <2>2
<1> QED
    BY <1>2, <1>3

\* A clone that holds a commit of head's history holds every later one, so none
\* of its cuts comes after it.
LEMMA CutsAreBefore ==
    ASSUME TypeOK, IsHistory, NEW head \in CommitIds, NEW tip, NEW from \in Fetched(head),
           NEW c \in past[head] \cap Cuts(head, tip)
    PROVE  c <= from
<1>1. past[head] \subseteq CommitIds /\ from \in past[head] /\ c \in past[head]
    BY DEF TypeOK, Fetched
<1>2. CASE c \in Edge(head)
    BY <1>2 DEF Edge
<1>3. CASE c \notin Fetched(head)
    <2> DEFINE after(x) == {y \in past[head] : y > x}
    <2>1. SUFFICES ASSUME c > from PROVE FALSE
        BY <1>1 DEF CommitIds
    <2>2. IsFiniteSet(past[head])
        <3>1. IsFiniteSet(CommitIds)
            BY BoundsAssumption, FS_Interval DEF CommitIds
        <3> QED
            BY <1>1, <3>1, FS_Subset
    <2>3. after(c) \subseteq after(from) /\ after(from) \subseteq past[head]
        BY <1>1, <2>1 DEF CommitIds
    <2> HIDE DEF after
    <2>4. IsFiniteSet(after(from)) /\ IsFiniteSet(after(c))
        BY <2>2, <2>3, FS_Subset
    <2>5. /\ Cardinality(after(c)) <= Cardinality(after(from))
          /\ Cardinality(after(c)) \in Nat /\ Cardinality(after(from)) \in Nat
        BY <2>3, <2>4, FS_Subset, FS_CardinalityType
    <2>6. Cardinality(after(from)) < HistoryDepth
        BY DEF Fetched, after
    <2>7. Cardinality(after(c)) < HistoryDepth
        BY <2>5, <2>6, BoundsAssumption
    <2> QED
        BY <1>1, <1>3, <2>7 DEF Fetched, after
<1> QED
    BY <1>2, <1>3 DEF Cuts

\* Every commit but the first has a first parent.
LEMMA HasParent ==
    ASSUME TypeOK, NEW c \in CommitIds, past[c] \ {c} # {}
    PROVE  \E p \in Parents(c) : TRUE
<1>1. past[c] \ {c} \in SUBSET (0..MaxCommits)
    BY DEF TypeOK, CommitIds
<1>2. PICK p \in past[c] \ {c} : \A x \in past[c] \ {c} : x <= p
    BY <1>1, Greatest, BoundsAssumption
<1> QED
    BY <1>2 DEF Parents

\* On the way from a flawed commit to one without the code, some commit that
\* changes the code is the first without it.
LEMMA SomeCommitFixed ==
    ASSUME TypeOK, IsHistory, NEW from \in CommitIds, NEW g \in Flaws, NEW head \in CommitIds,
           from \in past[head], Flawed(from, g),
           NEW y \in past[head], from <= y, ~Flawed(y, g)
    PROVE  \E z \in past[head] : /\ from < z /\ z <= y /\ ~Flawed(z, g)
                                 /\ \E p \in Parents(z) : text[p][g] # text[z][g]
<1> DEFINE T == {z \in past[head] : from < z /\ ~Flawed(z, g)}
<1>1. past[head] \subseteq CommitIds
    BY DEF TypeOK
<1>2. y \in T
    BY <1>1 DEF CommitIds
<1>3. T \in SUBSET Nat
    BY <1>1 DEF CommitIds
<1>4. PICK z \in T : \A x \in T : z <= x
    BY <1>2, <1>3, Least
<1>5. z \in past[head] /\ from < z /\ ~Flawed(z, g) /\ z <= y
    BY <1>2, <1>4
<1>6. past[z] = {x \in past[head] : x <= z} /\ from \in past[z] \ {z}
    BY <1>1, <1>5 DEF IsHistory, CommitIds
<1>7. PICK p \in Parents(z) : TRUE
    BY <1>1, <1>5, <1>6, HasParent
<1>8. p \in past[head] /\ from <= p /\ p < z
    BY <1>1, <1>5, <1>6, <1>7 DEF Parents, CommitIds
<1>9. Flawed(p, g)
    <2>1. CASE p = from
        BY <2>1
    <2>2. CASE p # from
        BY <1>1, <1>4, <1>5, <1>8, <2>2 DEF CommitIds
    <2> QED
        BY <2>1, <2>2
<1> QED
    BY <1>5, <1>7, <1>9 DEF Flawed

\* What find_fixed returns when the clone's history reaches back to the finding
\* is the commit that removed the code.
LEMMA FixOfIsReal ==
    ASSUME TypeOK, IsHistory, NEW b \in Audits, NEW g \in Flaws, NEW head \in CommitIds,
           NEW tip, audit[b].commit \in CommitIds, Flawed(audit[b].commit, g),
           audit[b].commit \in Fetched(head), NEW x \in FixOf(g, b, head, tip), x # 0
    PROVE  WasFixedBy(b, g, x)
<1> DEFINE from == audit[b].commit
           cuts == Cuts(head, tip)
           without == {y \in Reached(head, cuts) \ Reached(from, cuts) : ~Flawed(y, g)}
           changed == {y \in without \ cuts : \E p \in Parents(y) : text[p][g] # text[y][g]}
<1>1. x \in without /\ \A y \in changed : x <= y
    BY DEF FixOf, FirstWithout
<1>2. /\ from \in past[head] /\ past[head] \subseteq CommitIds
      /\ past[from] = {y \in past[head] : y <= from}
    BY DEF Fetched, TypeOK, IsHistory
<1>3. x \in past[head] /\ x \in CommitIds /\ ~Flawed(x, g)
    BY <1>1, <1>2 DEF Reached
<1>4. \A c \in past[head] \cap cuts : c <= from
    BY CutsAreBefore
<1> HIDE DEF cuts
<1>5. ASSUME NEW y \in past[head], y > from
      PROVE  y \in Reached(head, cuts) \ Reached(from, cuts) /\ y \notin cuts
    BY <1>2, <1>4, <1>5 DEF Reached, CommitIds
<1>6. x > from
    <2>1. SUFFICES ASSUME x <= from PROVE x \in Reached(from, cuts)
        BY <1>1, <1>2, <1>3 DEF CommitIds
    <2> QED
        BY <1>1, <1>2, <1>3, <2>1 DEF Reached
<1>7. past[x] = {y \in past[head] : y <= x} /\ from \in past[x]
    BY <1>2, <1>3, <1>6 DEF IsHistory, CommitIds
<1>8. ASSUME NEW y \in past[x] \ {x}, from \in past[y] PROVE Flawed(y, g)
    <2>1. SUFFICES ASSUME ~Flawed(y, g) PROVE FALSE
        OBVIOUS
    <2>2. y \in past[head] /\ y < x /\ from <= y
        BY <1>2, <1>3, <1>7, <1>8 DEF IsHistory, CommitIds
    <2>3. PICK z \in past[head] :
              /\ from < z /\ z <= y /\ ~Flawed(z, g)
              /\ \E p \in Parents(z) : text[p][g] # text[z][g]
        BY <1>2, <2>1, <2>2, SomeCommitFixed
    <2>4. z \in changed
        BY <1>2, <1>5, <2>3 DEF CommitIds
    <2> QED
        BY <1>1, <1>2, <1>3, <2>2, <2>3, <2>4 DEF CommitIds
<1> QED
    BY <1>3, <1>7, <1>8 DEF WasFixedBy

\* The parent of a fix still has the code.
LEMMA ParentIsFlawed ==
    ASSUME TypeOK, IsHistory, NEW b \in Audits, NEW g \in Flaws, NEW x,
           WasFixedBy(b, g, x), audit[b].commit # x, NEW p \in Parents(x)
    PROVE  Flawed(p, g)
<1> DEFINE from == audit[b].commit
<1>1. x \in CommitIds /\ from \in past[x] /\ past[x] \subseteq CommitIds
    BY DEF WasFixedBy, TypeOK
<1>2. p \in past[x] \ {x} /\ from <= p
    BY <1>1 DEF Parents
<1>3. from \in past[p]
    BY <1>1, <1>2 DEF IsHistory
<1> QED
    BY <1>2, <1>3 DEF WasFixedBy

-----------------------------------------------------------------------------
(***************************************************************************)
(* Every step keeps the invariant of fixes                                 *)
(***************************************************************************)

\* The fixes that a transaction holds stay as real as they are, if the audits it
\* compares stay what they are.
LEMMA OpenFixesStay ==
    ASSUME OpenFixes, UNCHANGED <<past, text>>,
           ASSUME NEW b \in Audits, NEW g \in Flaws, txn'[b].fixes[g] # 0
           PROVE  LET p == audit[b].previous IN
                  /\ txn'[b].fixes = txn[b].fixes
                  /\ audit'[b].previous = p /\ audit'[b].commit = audit[b].commit
                  /\ audit'[p].state = "done" =>
                        /\ audit[p].state = "done" /\ audit'[p].commit = audit[p].commit
                        /\ finding'[p][g].kind = finding[p][g].kind
    PROVE  OpenFixes'
<1>1. \A c : Fetched(c)' = Fetched(c)
    BY DEF Fetched
<1>2. ASSUME NEW b \in Audits, NEW g \in Flaws, txn'[b].fixes[g] # 0,
             audit'[audit'[b].previous].state = "done"
      PROVE  /\ finding'[audit'[b].previous][g].kind = "evidenced"
             /\ audit'[audit'[b].previous].commit \in Fetched(audit[b].commit)'
                   => WasFixedBy(audit[b].previous, g, txn[b].fixes[g])'
    <2> DEFINE p == audit[b].previous
    <2>1. /\ txn'[b].fixes = txn[b].fixes
          /\ audit'[b].previous = p /\ audit'[b].commit = audit[b].commit
          /\ audit[p].state = "done" /\ audit'[p].commit = audit[p].commit
          /\ finding'[p][g].kind = finding[p][g].kind
        BY <1>2
    <2>2. /\ finding[p][g].kind = "evidenced"
          /\ audit[p].commit \in Fetched(audit[b].commit) => WasFixedBy(p, g, txn[b].fixes[g])
        BY <1>2, <2>1 DEF OpenFixes
    <2>3. Fetched(audit[b].commit)' = Fetched(audit[b].commit)
        BY <2>1 DEF Fetched
    <2>4. WasFixedBy(p, g, txn[b].fixes[g]) => WasFixedBy(audit[b].previous, g, txn[b].fixes[g])'
        BY <2>1 DEF WasFixedBy, Flawed
    <2> QED
        BY <2>1, <2>2, <2>3, <2>4
<1>3. ASSUME NEW b \in Audits, NEW g \in Flaws, txn'[b].fixes[g] # 0
      PROVE  audit'[b].previous # 0
    BY <1>3 DEF OpenFixes
<1> QED
    BY <1>2, <1>3 DEF OpenFixes

LEMMA LearnKeepsFixInv == ASSUME FixInv, NEW a \in Audits, Learn(a) PROVE FixInv'
<1> USE DEF FixInv
<1>0. PICK p \in Previous(a), head \in CommitIds, complete \in BOOLEAN :
      \E tip : Learnt(a, p, head, complete, tip)
    BY LearnLeaves
<1>1. PICK tip : Learnt(a, p, head, complete, tip)
    BY <1>0
<1>2. /\ audit[a].state = "pending" /\ Others(a)
      /\ UNCHANGED <<past, text, finding, followed>>
      /\ Working(a)' /\ audit'[a].previous = p /\ audit'[a].commit = head
    BY <1>1, LearnLeaves, LearnSets DEF Working
<1>3. p # 0 => p \in Audits /\ p < a /\ audit[p].state = "done"
    BY PreviousIs
<1>4. TypeOK' /\ IsHistory'
    BY <1>2, LearnType DEF IsHistory
<1>5. StoredRows'
    BY <1>2 DEF StoredRows, Flawed, Others
<1>6. Transactions'
    <2>1. ASSUME NEW b \in Audits
          PROVE  (/\ ~Working(b) => txn[b] = Closed
                  /\ \A g \in Flaws : LET row == txn[b].rows[g] IN
                        /\ row.fix = 0
                        /\ row.zombie # NoFinding => audit[b].state = "stored" /\ row.kind # "none"
                        /\ row.kind = "evidenced" => Flawed(audit[b].commit, g))'
        <3>1. CASE b = a
            BY <1>1, <1>2, <3>1 DEF Learnt, Flawed, Working
        <3>2. CASE b # a
            BY <1>2, <3>2 DEF Others, Transactions, Working, Flawed
        <3> QED
            BY <3>1, <3>2
    <2> QED
        BY <2>1 DEF Transactions
<1>7. Compared'
    BY <1>2, <1>3 DEF Compared, Others
<1>8. OpenFixes'
    <2>1. ASSUME NEW b \in Audits, NEW g \in Flaws, txn'[b].fixes[g] # 0
          PROVE  (/\ audit[b].previous # 0
                  /\ audit[audit[b].previous].state = "done" =>
                        /\ finding[audit[b].previous][g].kind = "evidenced"
                        /\ audit[audit[b].previous].commit \in Fetched(audit[b].commit)
                              => WasFixedBy(audit[b].previous, g, txn[b].fixes[g]))'
        <3>1. CASE b = a
            <4>1. /\ p \in Audits /\ g \in Evidenced(p)
                  /\ txn'[a].fixes[g] \in FixOf(g, p, head, tip)
                BY <1>1, <2>1, <3>1 DEF Learnt
            <4>2. finding[p][g].kind = "evidenced" /\ p # 0
                BY <4>1 DEF Evidenced
            <4>3. Flawed(audit[p].commit, g) /\ audit[p].commit \in CommitIds
                BY <1>3, <4>1, <4>2 DEF StoredRows, Flawed, TypeOK
            <4>4. audit[p].commit \in Fetched(head) => WasFixedBy(p, g, txn'[a].fixes[g])
                BY <2>1, <3>1, <4>1, <4>3, FixOfIsReal
            <4>5. audit'[p] = audit[p]
                BY <1>2, <1>3, <4>1, <4>2 DEF Others
            <4>6. (audit[p].commit \in Fetched(head) => WasFixedBy(p, g, txn[a].fixes[g]))'
                BY <1>2, <4>4, <4>5 DEF WasFixedBy, Fetched, Flawed
            <4> QED
                BY <1>2, <3>1, <4>2, <4>6
        <3>2. CASE b # a
            <4>1. audit'[b] = audit[b] /\ txn'[b] = txn[b]
                BY <1>2, <3>2 DEF Others
            <4>2. audit[b].previous # 0 /\ audit[b].previous \in Audits
                BY <2>1, <4>1 DEF OpenFixes, Compared
            <4>3. audit[b].previous # a
                BY <1>2, <4>2 DEF Compared
            <4>4. audit'[audit[b].previous] = audit[audit[b].previous]
                BY <1>2, <4>2, <4>3 DEF Others
            <4>5. Fetched(audit[b].commit)' = Fetched(audit[b].commit)
                BY <1>2, <4>1 DEF Fetched
            <4>6. WasFixedBy(audit[b].previous, g, txn[b].fixes[g])
                    => WasFixedBy(audit[b].previous, g, txn[b].fixes[g])'
                BY <1>2, <4>1, <4>4 DEF WasFixedBy, Flawed
            <4> QED
                BY <1>2, <2>1, <4>1, <4>4, <4>5, <4>6 DEF OpenFixes
        <3> QED
            BY <3>1, <3>2
    <2> QED
        BY <2>1 DEF OpenFixes
<1>9. FixIsReal'
    <2>1. ASSUME NEW b \in Audits, NEW g \in Flaws, finding[b][g].fix # 0 PROVE b # a
        BY <1>2, <2>1 DEF StoredRows, Flawed
    <2> QED
        BY <1>2, <2>1 DEF FixIsReal, WasFixedBy, Flawed, Others
<1> QED
    BY <1>4, <1>5, <1>6, <1>7, <1>8, <1>9

LEMMA RecallKeepsFixInv == ASSUME FixInv, NEW a \in Audits, Recall(a) PROVE FixInv'
<1> USE DEF FixInv
<1>0. \A g \in Flaws : txn[a].rows[g].fix = 0
    BY DEF Transactions
<1>1. PICK ran \in BOOLEAN, R \in SUBSET Rules, rows \in [Flaws -> Row] :
          Recalls(a, ran, R, rows)
    BY <1>0, RecallLeaves
<1>2. /\ audit[a].state = "learnt" /\ Others(a)
      /\ UNCHANGED <<past, text, finding, followed>>
      /\ audit'[a].state = "stored" /\ audit'[a].previous = audit[a].previous
      /\ audit'[a].commit = audit[a].commit
      /\ txn'[a].rows = rows /\ txn'[a].fixes = txn[a].fixes
    BY <1>0, <1>1, RecallLeaves, RecallSets
<1>3. TypeOK' /\ IsHistory'
    BY <1>0, <1>2, RecallType DEF IsHistory
<1>4. StoredRows'
    BY <1>2 DEF StoredRows, Flawed, Others
<1>5. Transactions'
    <2>1. ASSUME NEW g \in Flaws
          PROVE  /\ rows[g].fix = 0
                 /\ rows[g].zombie # NoFinding => rows[g].kind # "none"
                 /\ rows[g].kind = "evidenced" => Flawed(audit[a].commit, g)
        <3>1. /\ rows[g].fix = 0 /\ rows[g].kind \in {txn[a].rows[g].kind, "immune"}
              /\ rows[g].kind = "none" => rows[g] = txn[a].rows[g]
            BY <1>0, <1>1, OutcomesAre DEF Recalls
        <3> QED
            BY <1>2, <3>1 DEF Transactions
    <2> QED
        BY <1>2, <2>1 DEF Transactions, Others, Flawed, Working
<1>6. Compared'
    BY <1>2 DEF Compared, Others
<1>7. OpenFixes'
    <2>1. \A b \in Audits : /\ txn'[b].fixes = txn[b].fixes
                            /\ audit'[b].previous = audit[b].previous
                            /\ audit'[b].commit = audit[b].commit
                            /\ audit'[b].state = "done" => audit[b].state = "done"
        BY <1>2 DEF Others
    <2>2. ASSUME NEW b \in Audits, NEW g \in Flaws, txn'[b].fixes[g] # 0
          PROVE  audit[b].previous \in Audits
        BY <2>1, <2>2 DEF OpenFixes, Compared
    <2> QED
        BY <1>2, <2>1, <2>2, OpenFixesStay
<1>8. FixIsReal'
    BY <1>2 DEF FixIsReal, WasFixedBy, Flawed, Others
<1> QED
    BY <1>3, <1>4, <1>5, <1>6, <1>7, <1>8

LEMMA CommitKeepsFixInv == ASSUME FixInv, NEW a \in Audits, Commit(a) PROVE FixInv'
<1> USE DEF FixInv
<1> DEFINE p == audit[a].previous
<1>1. /\ audit[a].state = "stored" /\ ~Dangling(a) /\ Others(a)
      /\ UNCHANGED <<past, text>>
      /\ audit'[a].state = "done" /\ audit'[a].previous = p
      /\ audit'[a].commit = audit[a].commit /\ txn'[a] = Closed
    BY CommitSets DEF Others
<1>2. TypeOK' /\ IsHistory'
    BY <1>1, CommitType DEF IsHistory
<1>3. ASSUME NEW g \in Flaws, txn[a].fixes[g] # 0
      PROVE  /\ p \in Audits /\ p # a /\ audit[p].state = "done"
             /\ finding[p][g].kind = "evidenced"
             /\ audit[p].commit \in Fetched(audit[a].commit) => WasFixedBy(p, g, txn[a].fixes[g])
    <2>1. audit[p].state = "done"
        BY <1>1, <1>3 DEF Dangling
    <2> QED
        BY <1>1, <1>3, <2>1 DEF OpenFixes, Compared
<1>4. ASSUME NEW g \in Flaws PROVE finding'[a][g] = txn[a].rows[g]
    BY <1>4, CommitFindings
<1>5. ASSUME NEW b \in Audits, NEW g \in Flaws, b # a
      PROVE  /\ finding'[b][g].kind = finding[b][g].kind
             /\ finding'[b][g].zombie = finding[b][g].zombie
             /\ \/ finding'[b][g].fix = finding[b][g].fix
                \/ /\ b = p /\ txn[a].fixes[g] # 0
                   /\ finding'[b][g].fix = txn[a].fixes[g]
    <2>1. finding[b][g] \in Row
        BY DEF TypeOK
    <2>2. CASE b # p \/ txn[a].fixes[g] = 0
        BY <1>5, <2>2, CommitFindings
    <2>3. CASE b = p /\ txn[a].fixes[g] # 0
        <3>1. finding'[b][g] = [finding[b][g] EXCEPT !.fix = txn[a].fixes[g]]
            BY <1>5, <2>3, CommitFindings
        <3> QED
            BY <2>1, <2>3, <3>1 DEF Row
    <2> QED
        BY <2>2, <2>3
<1>6. StoredRows'
    <2>1. ASSUME NEW b \in Audits, NEW g \in Flaws
          PROVE  (LET row == finding[b][g] IN
                    /\ row.kind # "none" => audit[b].state = "done"
                    /\ row.fix # 0 => row.kind = "evidenced"
                    /\ row.zombie # NoFinding => row.kind # "none"
                    /\ row.kind = "evidenced" => Flawed(audit[b].commit, g))'
        <3>1. CASE b = a
            <4>1. \A h \in Flaws : LET row == txn[a].rows[h] IN
                     /\ row.fix = 0
                     /\ row.zombie # NoFinding => row.kind # "none"
                     /\ row.kind = "evidenced" => Flawed(audit[a].commit, h)
                BY DEF Transactions
            <4> QED
                BY <1>1, <1>4, <3>1, <4>1 DEF Flawed
        <3>2. CASE b # a
            BY <1>1, <1>3, <1>5, <3>2 DEF StoredRows, Flawed, Others
        <3> QED
            BY <3>1, <3>2
    <2> QED
        BY <2>1 DEF StoredRows, Flawed
<1>7. Transactions'
    BY <1>1, ClosedIs DEF Transactions, Others, Flawed, Working
<1>8. Compared'
    BY <1>1 DEF Compared, Others
<1>9. OpenFixes'
    <2>1. ASSUME NEW b \in Audits, NEW g \in Flaws, txn'[b].fixes[g] # 0
          PROVE  /\ b # a /\ txn'[b] = txn[b] /\ audit'[b] = audit[b]
                 /\ audit[b].previous \in Audits \ {a}
        <3>1. b # a
            BY <1>1, <2>1, ClosedIs
        <3>2. txn'[b] = txn[b] /\ audit'[b] = audit[b]
            BY <1>1, <3>1 DEF Others
        <3> QED
            BY <1>1, <2>1, <3>1, <3>2 DEF OpenFixes, Compared
    <2> QED
        BY <1>1, <1>5, <2>1, OpenFixesStay DEF Others
<1>10. FixIsReal'
    <2>1. ASSUME NEW b \in Audits, NEW g \in Flaws, finding'[b][g].fix # 0,
                 <<b, g>> \in followed'
          PROVE  WasFixedBy(b, g, finding'[b][g].fix)
        <3>1. <<b, g>> \in Findings
            BY DEF Findings
        <3>2. CASE b = a
            BY <1>4, <2>1, <3>2 DEF Transactions
        <3>3. CASE b # a /\ b = p /\ txn[a].fixes[g] # 0
            <4>1. audit[p].commit \in Fetched(audit[a].commit)
                BY <1>3, <2>1, <3>1, <3>3 DEF Commit, Audits
            <4>2. finding'[b][g].fix = txn[a].fixes[g]
                <5>1. finding[b][g] \in Row
                    BY DEF TypeOK
                <5>2. finding'[b][g] = [finding[b][g] EXCEPT !.fix = txn[a].fixes[g]]
                    BY <3>3, CommitFindings
                <5> QED
                    BY <5>1, <5>2 DEF Row
            <4> QED
                BY <1>3, <3>3, <4>1, <4>2
        <3>4. CASE b # a /\ (b # p \/ txn[a].fixes[g] = 0)
            <4>1. <<b, g>> \in followed
                BY <2>1, <3>1, <3>4 DEF Commit
            <4>2. finding'[b][g].fix = finding[b][g].fix
                BY <1>5, <3>4
            <4> QED
                BY <2>1, <4>1, <4>2 DEF FixIsReal
        <3> QED
            BY <3>2, <3>3, <3>4
    <2>2. \A b \in Audits : audit'[b].commit = audit[b].commit
        BY <1>1 DEF Others
    <2> QED
        BY <1>1, <2>1, <2>2 DEF FixIsReal, WasFixedBy, Flawed
<1> QED
    BY <1>2, <1>6, <1>7, <1>8, <1>9, <1>10

LEMMA FailKeepsFixInv == ASSUME FixInv, NEW a \in Audits, Fail(a) PROVE FixInv'
<1> USE DEF FixInv
<1>1. /\ Others(a) /\ Working(a) /\ UNCHANGED <<past, text, finding, followed>>
      /\ audit'[a] = Empty("gone") /\ txn'[a] = Closed
    BY FailSets DEF Others
<1>2. /\ Empty("gone").state = "gone" /\ Empty("gone").previous = 0
      /\ ~Working(a)' /\ audit[a].state # "done"
    BY <1>1 DEF Empty, Working
<1>3. TypeOK' /\ IsHistory'
    BY <1>1, FailType DEF IsHistory
<1>4. StoredRows'
    BY <1>1, <1>2 DEF StoredRows, Flawed, Others
<1>5. Transactions'
    BY <1>1, <1>2, ClosedIs DEF Transactions, Others, Flawed, Working
<1>6. Compared'
    BY <1>1, <1>2 DEF Compared, Others
<1>7. OpenFixes'
    <2>1. ASSUME NEW b \in Audits, NEW g \in Flaws, txn'[b].fixes[g] # 0
          PROVE  /\ b # a /\ txn'[b] = txn[b] /\ audit'[b] = audit[b]
                 /\ audit[b].previous \in Audits
        <3>1. b # a
            BY <1>1, <2>1, ClosedIs
        <3>2. txn'[b] = txn[b] /\ audit'[b] = audit[b]
            BY <1>1, <3>1 DEF Others
        <3> QED
            BY <2>1, <3>1, <3>2 DEF OpenFixes, Compared
    <2>2. \A b \in Audits : audit'[b].state = "done" => audit'[b] = audit[b]
        BY <1>1, <1>2 DEF Others
    <2> QED
        BY <1>1, <2>1, <2>2, OpenFixesStay
<1>8. FixIsReal'
    <2>1. ASSUME NEW b \in Audits, NEW g \in Flaws, finding[b][g].fix # 0 PROVE b # a
        BY <1>2, <2>1 DEF StoredRows, Flawed
    <2> QED
        BY <1>1, <2>1 DEF FixIsReal, WasFixedBy, Flawed, Others
<1> QED
    BY <1>3, <1>4, <1>5, <1>6, <1>7, <1>8

LEMMA DeleteKeepsFixInv == ASSUME FixInv, NEW a \in Audits, Delete(a) PROVE FixInv'
<1> USE DEF FixInv
<1>1. /\ Others(a) /\ UNCHANGED <<past, text, txn>>
      /\ audit'[a] = Empty("gone") /\ audit[a].state = "done" /\ ~Working(a)
    BY DeleteSets DEF Others, Working
<1>2. /\ Empty("gone").state = "gone" /\ Empty("gone").previous = 0 /\ ~Working(a)'
    BY <1>1 DEF Empty, Working
<1>3. TypeOK' /\ IsHistory'
    BY <1>1, DeleteType DEF IsHistory
<1>4. ASSUME NEW b \in Audits, NEW g \in Flaws
      PROVE  /\ b = a => /\ finding'[b][g].kind = "none" /\ finding'[b][g].fix = 0
                         /\ finding'[b][g].zombie = NoFinding
             /\ b # a => /\ finding'[b][g].kind = finding[b][g].kind
                         /\ finding'[b][g].fix = finding[b][g].fix
                         /\ finding'[b][g].zombie \in {finding[b][g].zombie, NoFinding}
    <2>1. finding[b][g] \in Row
        BY DEF TypeOK
    <2>2. /\ NoRows[g].kind = "none" /\ NoRows[g].fix = 0 /\ NoRows[g].zombie = NoFinding
        BY DEF NoRows
    <2>3. [finding[b][g] EXCEPT !.zombie = NoFinding].kind = finding[b][g].kind
          /\ [finding[b][g] EXCEPT !.zombie = NoFinding].fix = finding[b][g].fix
          /\ [finding[b][g] EXCEPT !.zombie = NoFinding].zombie = NoFinding
        BY <2>1 DEF Row
    <2> QED
        BY <1>4, <2>2, <2>3, DeleteFindings, Zenon
<1>5. StoredRows'
    <2>1. ASSUME NEW b \in Audits, NEW g \in Flaws
          PROVE  (LET row == finding[b][g] IN
                    /\ row.kind # "none" => audit[b].state = "done"
                    /\ row.fix # 0 => row.kind = "evidenced"
                    /\ row.zombie # NoFinding => row.kind # "none"
                    /\ row.kind = "evidenced" => Flawed(audit[b].commit, g))'
        BY <1>1, <1>4, <2>1 DEF StoredRows, Flawed, Others
    <2> QED
        BY <2>1 DEF StoredRows, Flawed
<1>6. Transactions'
    BY <1>1, <1>2, ClosedIs DEF Transactions, Others, Flawed, Working
<1>7. Compared'
    BY <1>1, <1>2 DEF Compared, Others
<1>8. OpenFixes'
    <2>1. ASSUME NEW b \in Audits, NEW g \in Flaws, txn'[b].fixes[g] # 0
          PROVE  /\ b # a /\ audit'[b] = audit[b]
                 /\ audit[b].previous \in Audits
        <3>1. b # a
            BY <1>1, <2>1, ClosedIs DEF Transactions
        <3>2. audit'[b] = audit[b]
            BY <1>1, <3>1 DEF Others
        <3> QED
            BY <1>1, <2>1, <3>1, <3>2 DEF OpenFixes, Compared
    <2>2. \A b \in Audits : audit'[b].state = "done" => audit'[b] = audit[b] /\ b # a
        BY <1>1, <1>2 DEF Others
    <2> QED
        BY <1>1, <1>4, <2>1, <2>2, OpenFixesStay
<1>9. FixIsReal'
    <2>1. ASSUME NEW b \in Audits, NEW g \in Flaws, finding'[b][g].fix # 0,
                 <<b, g>> \in followed'
          PROVE  b # a /\ WasFixedBy(b, g, finding'[b][g].fix)
        <3>1. <<b, g>> \in followed
            BY <2>1 DEF Delete
        <3> QED
            BY <1>4, <2>1, <3>1 DEF FixIsReal
    <2>2. \A b \in Audits : b # a => audit'[b].commit = audit[b].commit
        BY <1>1 DEF Others
    <2> QED
        BY <1>1, <2>1, <2>2 DEF FixIsReal, WasFixedBy, Flawed
<1> QED
    BY <1>3, <1>5, <1>6, <1>7, <1>8, <1>9

LEMMA InitFixInv == ASSUME Init PROVE FixInv
<1> USE DEF Init
<1>1. Empty("pending") \in Audit
    BY BoundsAssumption DEF Empty, Audit
<1>2. TypeOK
    BY <1>1, EmptyTypes DEF TypeOK, Working, Empty
<1>3. IsHistory
    OBVIOUS
<1>4. StoredRows
    BY DEF StoredRows, Flawed, NoRows
<1>5. Transactions
    BY ClosedIs DEF Transactions
<1>6. Compared
    BY DEF Compared, Empty
<1>7. OpenFixes
    BY ClosedIs DEF OpenFixes
<1>8. FixIsReal
    BY DEF FixIsReal, NoRows
<1> QED
    BY <1>2, <1>3, <1>4, <1>5, <1>6, <1>7, <1>8 DEF FixInv

\* It is not about the rules.
LEMMA SameAudits ==
    ASSUME FixInv, TypeOK', UNCHANGED <<past, text, audit, finding, txn, followed>>
    PROVE  FixInv'
<1> USE DEF FixInv
<1>1. IsHistory' /\ StoredRows' /\ Transactions' /\ Compared'
    BY DEF IsHistory, StoredRows, Transactions, Compared, Flawed, Working
<1>2. OpenFixes'
    BY OpenFixesStay
<1>3. FixIsReal'
    BY DEF FixIsReal, WasFixedBy, Flawed
<1> QED
    BY <1>1, <1>2, <1>3

\* Every step keeps it.
LEMMA FixInvIsKept == ASSUME FixInv, [Next]_vars PROVE FixInv'
<1>1. ASSUME NEW r \in Rules, Approve(r) \/ Revoke(r) PROVE FixInv'
    <2>1. TypeOK'
        BY <1>1, DecisionType DEF FixInv
    <2>2. UNCHANGED <<past, text, audit, finding, txn, followed>>
        BY <1>1 DEF Approve, Revoke
    <2> QED
        BY <2>1, <2>2, SameAudits
<1>2. CASE UNCHANGED vars
    <2>1. TypeOK'
        BY <1>2 DEF vars, FixInv, TypeOK, Working
    <2> QED
        BY <1>2, <2>1, SameAudits DEF vars
<1> QED
    BY <1>1, <1>2, LearnKeepsFixInv, RecallKeepsFixInv, CommitKeepsFixInv,
       FailKeepsFixInv, DeleteKeepsFixInv DEF Next

LEMMA FixInvariant == Spec => []FixInv
<1>1. Init => FixInv
    BY InitFixInv
<1>2. FixInv /\ [Next]_vars => FixInv'
    BY FixInvIsKept
<1> QED
    BY <1>1, <1>2, PTL DEF Spec

\* The tables keep their types, in every state.
THEOREM TypeCorrect == Spec => []TypeOK
<1>1. FixInv => TypeOK
    BY DEF FixInv
<1> QED
    BY <1>1, FixInvariant, PTL

\* A fix that was looked for in the history from its finding to the audited commit
\* is the commit that removed the code (immune.find_fixed), whatever the depth of
\* the clones, and whichever audits recorded it in whatever order they ended.
THEOREM FixesAreReal == Spec => []FixIsReal
<1>1. FixInv => FixIsReal
    BY DEF FixInv
<1> QED
    BY <1>1, FixInvariant, PTL

-----------------------------------------------------------------------------
(***************************************************************************)
(* Rules and zombies                                                       *)
(***************************************************************************)

MemoryInv == FixInv /\ OpenRules /\ StoredRules /\ OpenOrigins /\ OriginsWereFixed

\* A rule that passes its test on a real fix tells the flaw from the fix.
LEMMA TestedRuleCatches ==
    ASSUME FixInv, NEW b \in Audits, NEW g \in Flaws, NEW q, WasFixedBy(b, g, q.fix),
           Flawed(audit[b].commit, g), Validate(q.pattern, g, q.fix)
    PROVE  Catches(q, g)
<1>1. q.fix \in CommitIds /\ ~Flawed(q.fix, g) /\ audit[b].commit # q.fix
    BY DEF WasFixedBy
<1>2. \A p \in Parents(q.fix) : Flawed(p, g)
    BY <1>1, ParentIsFlawed DEF FixInv
<1>3. <<g, "flawed">> \in q.pattern /\ <<g, text[q.fix][g]>> \notin q.pattern
    BY <1>2 DEF Validate, Flawed
<1> QED
    BY <1>1, <1>2, <1>3 DEF Catches

\* What the invariant says of rules and their findings, together.
LEMMA RulesCatch == ASSUME MemoryInv PROVE RulesCatchTheFlaw
<1> SUFFICES ASSUME NEW r \in Rules
             PROVE  LET q == rule[r] IN
                    /\ q.approved => q.validated
                    /\ q.validated /\ q.origin \in followed /\ FindingAt(q.origin).fix = q.fix
                          => Catches(q, r[2])
    BY DEF RulesCatchTheFlaw
<1> DEFINE q == rule[r]
<1>1. q.approved => q.validated
    BY DEF MemoryInv, StoredRules
<1>2. ASSUME q.validated, q.origin \in followed, FindingAt(q.origin).fix = q.fix
      PROVE  Catches(q, r[2])
    <2>1. q.origin \in Findings /\ q.origin # NoFinding
        BY <1>2, NoFindingAssumption DEF MemoryInv, FixInv, TypeOK
    <2>2. q.origin[2] = r[2] /\ Validate(q.pattern, r[2], q.fix) /\ q.fix # 0
        BY <1>2, <2>1 DEF MemoryInv, StoredRules, OriginsWereFixed
    <2>3. PICK b \in Audits, g \in Flaws : q.origin = <<b, g>>
        BY <2>1 DEF Findings
    <2>4. g = r[2] /\ finding[b][g].fix = q.fix
        BY <1>2, <2>2, <2>3 DEF FindingAt
    <2>5. Flawed(audit[b].commit, g) /\ WasFixedBy(b, g, q.fix)
        BY <1>2, <2>2, <2>3, <2>4 DEF MemoryInv, FixInv, StoredRows, FixIsReal
    <2> HIDE DEF q
    <2>6. Catches(q, g)
        BY <2>2, <2>4, <2>5, TestedRuleCatches DEF MemoryInv
    <2> QED
        BY <2>4, <2>6
<1> QED
    BY <1>1, <1>2

\* Rules stay tested in the transactions that a step leaves alone or closes.
LEMMA OpenRulesStay ==
    ASSUME OpenRules, UNCHANGED <<past, text>>,
           \A b \in Audits, g \in Flaws :
              \/ LET q == txn'[b].learnt[g] IN
                    /\ ~q.approved
                    /\ q.validated => Validate(q.pattern, g, q.fix)
                    /\ q.origin # NoFinding =>
                          q.origin = <<audit'[b].previous, g>> /\ txn'[b].fixes[g] # 0
              \/ /\ txn'[b].learnt = txn[b].learnt /\ txn'[b].fixes = txn[b].fixes
                 /\ audit'[b].previous = audit[b].previous
    PROVE  OpenRules'
<1>1. ASSUME NEW b \in Audits, NEW g \in Flaws
      PROVE  LET q == txn'[b].learnt[g] IN
             /\ ~q.approved
             /\ q.validated => Validate(q.pattern, g, q.fix)
             /\ q.origin # NoFinding =>
                   q.origin = <<audit'[b].previous, g>> /\ txn'[b].fixes[g] # 0
    BY <1>1 DEF OpenRules
<1>2. ASSUME NEW pattern, NEW g, NEW fix, Validate(pattern, g, fix)
      PROVE  Validate(pattern, g, fix)'
    BY <1>2 DEF Validate, Parents
<1>3. ASSUME NEW b \in Audits, NEW g \in Flaws, txn'[b].learnt[g].validated
      PROVE  Validate(txn[b].learnt[g].pattern, g, txn[b].learnt[g].fix)'
    <2>1. PICK q : q = txn'[b].learnt[g]
        OBVIOUS
    <2>2. Validate(q.pattern, g, q.fix)'
        BY <1>1, <1>2, <1>3, <2>1
    <2> QED
        BY <2>1, <2>2
<1> QED
    BY <1>1, <1>3 DEF OpenRules

LEMMA UnusedIs == ~Unused.approved /\ ~Unused.validated /\ Unused.origin = NoFinding
BY DEF Unused

LEMMA LearnKeepsMemoryInv == ASSUME MemoryInv, NEW a \in Audits, Learn(a) PROVE MemoryInv'
<1> USE DEF MemoryInv
<1>0. FixInv' /\ TypeOK
    BY LearnKeepsFixInv DEF FixInv
<1>10. PICK p \in Previous(a), head \in CommitIds, complete \in BOOLEAN :
      \E tip : Learnt(a, p, head, complete, tip)
    BY <1>0, LearnLeaves
<1>1. PICK tip : Learnt(a, p, head, complete, tip)
    BY <1>10
<1>2. /\ audit[a].state = "pending" /\ Others(a)
      /\ UNCHANGED <<past, text, finding, rule, followed>>
      /\ audit'[a].previous = p
    BY <1>0, <1>1, LearnLeaves, LearnSets
<1>3. ASSUME NEW g \in Flaws
      PROVE  LET q == txn'[a].learnt[g] IN
             /\ ~q.approved
             /\ q.validated => Validate(q.pattern, g, q.fix)
             /\ q.origin # NoFinding => q.origin = <<p, g>> /\ txn'[a].fixes[g] # 0
    <2> DEFINE q == txn'[a].learnt[g]
               x == txn'[a].fixes[g]
    <2>1. CASE q = Unused
        BY <2>1, UnusedIs
    <2>2. ASSUME NEW pattern \in Patterns, NEW name \in Names, x # 0,
                 q = NewRule(pattern, name, p, g, x)
          PROVE  /\ ~q.approved /\ q.origin = <<p, g>>
                 /\ q.validated => Validate(q.pattern, g, q.fix)
        BY <2>2 DEF NewRule
    <2> QED
        BY <1>1, <1>3, <2>1, <2>2 DEF Learnt
<1>4. OpenRules'
    BY <1>2, <1>3, OpenRulesStay DEF Others
<1>5. StoredRules'
    BY <1>2 DEF StoredRules, Validate, Parents
<1>6. OpenOrigins'
    <2>1. ASSUME NEW b \in Audits, NEW g \in Flaws, txn'[b].rows[g].zombie # NoFinding
          PROVE  b # a
        BY <1>1, <2>1 DEF Learnt
    <2> QED
        BY <1>2, <2>1 DEF OpenOrigins, Others, FindingAt
<1>7. OriginsWereFixed'
    BY <1>2 DEF OriginsWereFixed, FindingAt
<1> QED
    BY <1>0, <1>4, <1>5, <1>6, <1>7

\* What remembering marks a row with has a fix, or gets it.
LEMMA OutcomesOrigins ==
    ASSUME MemoryInv, NEW a \in Audits, NEW R \in SUBSET Rules, NEW g \in Flaws,
           NEW row \in Outcomes(a, R, g), txn[a].rows[g].zombie = NoFinding,
           row.zombie # NoFinding
    PROVE  LET o == row.zombie IN
           \/ FindingAt(o).fix # 0
           \/ (o[1] = audit[a].previous /\ txn[a].fixes[o[2]] # 0)
<1> DEFINE own == txn[a].rows[g]
           origins == OriginsOf(R, audit[a].commit, g)
<1>1. own \in Row
    BY DEF MemoryInv, FixInv, TypeOK, Txn
<1>2. PICK again \in Again(a, own) : row \in Matched(again, g, origins)
    BY DEF Outcomes
<1>3. again \in Row /\ (again.zombie # NoFinding => again.zombie \in FixedBefore(a, own.flaw))
    <2>1. FixedBefore(a, own.flaw) \subseteq Findings
        BY DEF FixedBefore
    <2> QED
        BY <1>1, <1>2, <2>1 DEF Again, Row
<1>4. \A o \in origins : FindingAt(o).fix # 0
    BY DEF OriginsOf, MemoryInv, OriginsWereFixed
<1>5. row.zombie = again.zombie \/ row.zombie \in origins
    BY <1>2, <1>3 DEF Matched, Row
<1> QED
    BY <1>3, <1>4, <1>5 DEF FixedBefore

LEMMA RecallKeepsMemoryInv == ASSUME MemoryInv, NEW a \in Audits, Recall(a) PROVE MemoryInv'
<1> USE DEF MemoryInv
<1>0. /\ FixInv' /\ TypeOK
      /\ \A g \in Flaws : txn[a].rows[g].fix = 0
    BY RecallKeepsFixInv DEF FixInv, Transactions
<1>1. PICK ran \in BOOLEAN, R \in SUBSET Rules, rows \in [Flaws -> Row] :
          Recalls(a, ran, R, rows)
    BY <1>0, RecallLeaves
<1>2. /\ audit[a].state = "learnt" /\ Others(a)
      /\ UNCHANGED <<past, text, finding, rule, followed>>
      /\ audit'[a].previous = audit[a].previous
      /\ txn'[a].rows = rows /\ txn'[a].fixes = txn[a].fixes
      /\ txn'[a].learnt = txn[a].learnt
    BY <1>0, <1>1, RecallLeaves, RecallSets
<1>3. \A b \in Audits : /\ txn'[b].fixes = txn[b].fixes /\ txn'[b].learnt = txn[b].learnt
                        /\ audit'[b].previous = audit[b].previous
    BY <1>2 DEF Others
<1>4. OpenRules'
    BY <1>2, <1>3, OpenRulesStay
<1>5. StoredRules'
    BY <1>2 DEF StoredRules, Validate, Parents
<1>6. OpenOrigins'
    <2>1. ASSUME NEW b \in Audits, NEW g \in Flaws, txn'[b].rows[g].zombie # NoFinding
          PROVE  LET o == txn'[b].rows[g].zombie IN
                 \/ FindingAt(o).fix # 0
                 \/ (o[1] = audit[b].previous /\ txn[b].fixes[o[2]] # 0)
        <3>1. CASE b = a
            <4>1. txn[a].rows[g].zombie = NoFinding
                BY <1>2, <2>1 DEF FixInv, Transactions
            <4>2. rows[g] \in Outcomes(a, R, g) /\ rows[g].zombie # NoFinding
                BY <1>1, <1>2, <2>1, <3>1 DEF Recalls
            <4> QED
                BY <1>2, <2>1, <3>1, <4>1, <4>2, OutcomesOrigins
        <3>2. CASE b # a
            BY <1>2, <2>1, <3>2 DEF OpenOrigins, Others
        <3> QED
            BY <3>1, <3>2
    <2> QED
        BY <1>2, <1>3, <2>1 DEF OpenOrigins, FindingAt
<1>7. OriginsWereFixed'
    BY <1>2 DEF OriginsWereFixed, FindingAt
<1> QED
    BY <1>0, <1>4, <1>5, <1>6, <1>7

LEMMA CommitKeepsMemoryInv == ASSUME MemoryInv, NEW a \in Audits, Commit(a) PROVE MemoryInv'
<1> USE DEF MemoryInv
<1> DEFINE p == audit[a].previous
<1>0. FixInv' /\ TypeOK
    BY CommitKeepsFixInv DEF FixInv
<1>1. /\ audit[a].state = "stored" /\ ~Dangling(a) /\ Others(a)
      /\ UNCHANGED <<past, text>> /\ txn'[a] = Closed
    BY <1>0, CommitSets DEF Others
<1>2. ASSUME NEW g \in Flaws, txn[a].fixes[g] # 0 PROVE p \in Audits \ {a}
    BY <1>1, <1>2 DEF FixInv, OpenFixes, Compared
<1>3. ASSUME NEW b \in Audits, NEW g \in Flaws
      PROVE  /\ finding[b][g].fix # 0 => finding'[b][g].fix # 0
             /\ b = p /\ txn[a].fixes[g] # 0 => finding'[b][g].fix # 0
             /\ b = a => finding'[b][g].zombie = txn[a].rows[g].zombie
             /\ b # a => finding'[b][g].zombie = finding[b][g].zombie
    <2>1. finding[b][g] \in Row
        BY <1>0 DEF TypeOK
    <2>2. CASE b = a
        <3>1. finding[a][g].fix = 0
            BY <1>1 DEF FixInv, StoredRows
        <3> QED
            BY <1>0, <1>2, <2>2, <3>1, CommitFindings
    <2>3. CASE b # a /\ (b # p \/ txn[a].fixes[g] = 0)
        BY <1>0, <2>3, CommitFindings
    <2>4. CASE b # a /\ b = p /\ txn[a].fixes[g] # 0
        <3>1. finding'[b][g] = [finding[b][g] EXCEPT !.fix = txn[a].fixes[g]]
            BY <1>0, <2>4, CommitFindings
        <3> QED
            BY <2>1, <2>4, <3>1 DEF Row
    <2> QED
        BY <2>2, <2>3, <2>4
<1>4. ASSUME NEW o \in Findings
      PROVE  /\ FindingAt(o).fix # 0 => FindingAt(o)'.fix # 0
             /\ o[1] = p /\ txn[a].fixes[o[2]] # 0 => FindingAt(o)'.fix # 0
    BY <1>3, <1>4 DEF FindingAt, Findings
<1>5. \A b \in Audits, g \in Flaws :
          /\ finding[b][g].zombie \in Findings \cup {NoFinding}
          /\ txn[b].rows[g].zombie \in Findings \cup {NoFinding}
    BY <1>0 DEF TypeOK, Txn, Row
<1>6. \A r \in Rules : /\ r \in Audits \X Flaws
                       /\ rule'[r] = IF r[1] = a THEN txn[a].learnt[r[2]] ELSE rule[r]
    BY DEF Commit, Rules
<1>7. OpenRules'
    <2>1. \A g \in Flaws : LET q == txn'[a].learnt[g] IN
              ~q.approved /\ ~q.validated /\ q.origin = NoFinding
        BY <1>1, ClosedIs, UnusedIs
    <2> QED
        BY <1>1, <2>1, OpenRulesStay DEF Others
<1>8. StoredRules'
    <2>1. ASSUME NEW r \in Rules
          PROVE  LET q == rule'[r] IN
                 /\ q.approved => q.validated
                 /\ q.validated => Validate(q.pattern, r[2], q.fix)
                 /\ q.origin # NoFinding => q.origin[2] = r[2]
        BY <1>6, <2>1 DEF OpenRules, StoredRules
    <2>2. ASSUME NEW pattern, NEW g, NEW fix, Validate(pattern, g, fix)
          PROVE  Validate(pattern, g, fix)'
        BY <1>1, <2>2 DEF Validate, Parents
    <2>3. ASSUME NEW r \in Rules, rule'[r].validated
          PROVE  Validate(rule[r].pattern, r[2], rule[r].fix)'
        <3>1. PICK q : q = rule'[r]
            OBVIOUS
        <3>2. Validate(q.pattern, r[2], q.fix)'
            BY <2>1, <2>2, <2>3, <3>1
        <3> QED
            BY <3>1, <3>2
    <2> QED
        BY <2>1, <2>3 DEF StoredRules
<1>9. OpenOrigins'
    <2>1. ASSUME NEW b \in Audits, NEW g \in Flaws, txn'[b].rows[g].zombie # NoFinding
          PROVE  /\ b # a /\ txn'[b] = txn[b] /\ audit'[b] = audit[b]
                 /\ txn[b].rows[g].zombie \in Findings
        <3>1. b # a
            BY <1>1, <2>1, ClosedIs
        <3>2. txn'[b] = txn[b] /\ audit'[b] = audit[b]
            BY <1>1, <3>1 DEF Others
        <3> QED
            BY <1>5, <2>1, <3>1, <3>2
    <2> QED
        BY <1>4, <2>1 DEF OpenOrigins
<1>10. OriginsWereFixed'
    <2>1. ASSUME NEW b \in Audits, NEW g \in Flaws, finding'[b][g].zombie # NoFinding
          PROVE  (FindingAt(finding[b][g].zombie).fix # 0)'
        <3>1. CASE b = a
            BY <1>3, <1>4, <1>5, <2>1, <3>1 DEF OpenOrigins
        <3>2. CASE b # a
            BY <1>3, <1>4, <1>5, <2>1, <3>2 DEF OriginsWereFixed
        <3> QED
            BY <3>1, <3>2
    <2>2. ASSUME NEW r \in Rules, rule'[r].origin # NoFinding
          PROVE  (FindingAt(rule[r].origin).fix # 0)'
        <3>1. CASE r[1] = a
            <4>1. /\ rule'[r].origin = <<p, r[2]>> /\ txn[a].fixes[r[2]] # 0
                  /\ r[2] \in Flaws
                BY <1>6, <2>2, <3>1 DEF OpenRules
            <4>2. <<p, r[2]>> \in Findings
                BY <1>2, <4>1 DEF Findings
            <4> QED
                BY <1>4, <4>1, <4>2
        <3>2. CASE r[1] # a
            <4>1. rule'[r] = rule[r] /\ rule[r].origin \in Findings
                BY <1>0, <1>6, <2>2, <3>2 DEF TypeOK, Rule
            <4> QED
                BY <1>4, <2>2, <4>1 DEF OriginsWereFixed
        <3> QED
            BY <3>1, <3>2
    <2> QED
        BY <2>1, <2>2 DEF OriginsWereFixed
<1> QED
    BY <1>0, <1>7, <1>8, <1>9, <1>10

LEMMA FailKeepsMemoryInv == ASSUME MemoryInv, NEW a \in Audits, Fail(a) PROVE MemoryInv'
<1> USE DEF MemoryInv
<1>1. FixInv' /\ TypeOK
    BY FailKeepsFixInv DEF FixInv
<1>2. /\ Others(a) /\ UNCHANGED <<past, text, finding, rule, followed>> /\ txn'[a] = Closed
    BY <1>1, FailSets DEF Others
<1>3. \A g \in Flaws : /\ txn'[a].rows[g].zombie = NoFinding
                       /\ LET q == txn'[a].learnt[g] IN
                              ~q.approved /\ ~q.validated /\ q.origin = NoFinding
    BY <1>2, ClosedIs, UnusedIs
<1>4. OpenRules'
    BY <1>2, <1>3, OpenRulesStay DEF Others
<1>5. StoredRules'
    BY <1>2 DEF StoredRules, Validate, Parents
<1>6. OpenOrigins'
    BY <1>2, <1>3 DEF OpenOrigins, Others, FindingAt
<1>7. OriginsWereFixed'
    BY <1>2 DEF OriginsWereFixed, FindingAt
<1> QED
    BY <1>1, <1>4, <1>5, <1>6, <1>7

LEMMA DeleteKeepsMemoryInv == ASSUME MemoryInv, NEW a \in Audits, Delete(a) PROVE MemoryInv'
<1> USE DEF MemoryInv
<1>0. FixInv' /\ TypeOK
    BY DeleteKeepsFixInv DEF FixInv
<1>1. /\ Others(a) /\ UNCHANGED <<past, text, txn>>
      /\ audit[a].state = "done" /\ ~Referred(a)
    BY <1>0, DeleteSets DEF Others
<1>2. ASSUME NEW g \in Flaws
      PROVE  /\ txn[a].rows[g].zombie = NoFinding /\ txn[a].learnt[g] = Unused
    BY <1>1, <1>2, ClosedIs DEF FixInv, Transactions, Working
<1>3. ASSUME NEW b \in Audits, NEW g \in Flaws
      PROVE  /\ b # a => finding'[b][g].fix = finding[b][g].fix
             /\ finding'[b][g].zombie # NoFinding =>
                   /\ b # a /\ finding'[b][g].zombie = finding[b][g].zombie
                   /\ finding[b][g].zombie \notin {a} \X Flaws
    <2>1. finding[b][g] \in Row
        BY <1>0 DEF TypeOK
    <2>2. CASE b = a
        <3>1. NoRows[g].zombie = NoFinding
            BY DEF NoRows
        <3> QED
            BY <1>0, <2>2, <3>1, DeleteFindings
    <2>3. CASE b # a /\ finding[b][g].zombie \notin {a} \X Flaws
        BY <1>0, <2>3, DeleteFindings
    <2>4. CASE b # a /\ finding[b][g].zombie \in {a} \X Flaws
        <3>1. finding'[b][g] = [finding[b][g] EXCEPT !.zombie = NoFinding]
            BY <1>0, <2>4, DeleteFindings
        <3> QED
            BY <2>1, <2>4, <3>1 DEF Row
    <2> QED
        BY <2>2, <2>3, <2>4
<1>4. ASSUME NEW o \in Findings, o \notin {a} \X Flaws
      PROVE  FindingAt(o)'.fix = FindingAt(o).fix /\ o[1] # a
    BY <1>3, <1>4 DEF FindingAt, Findings
<1>5. ASSUME NEW r \in Rules
      PROVE  /\ rule'[r].pattern = rule[r].pattern /\ rule'[r].fix = rule[r].fix
             /\ rule'[r].validated = rule[r].validated
             /\ rule'[r].approved = rule[r].approved
             /\ rule'[r].origin # NoFinding =>
                   /\ rule'[r].origin = rule[r].origin
                   /\ rule[r].origin \notin {a} \X Flaws
    <2>1. rule[r] \in Rule
        BY <1>0 DEF TypeOK
    <2>2. CASE rule[r].origin \notin {a} \X Flaws
        BY <1>5, <2>2 DEF Delete
    <2>3. CASE rule[r].origin \in {a} \X Flaws
        <3>1. rule'[r] = [rule[r] EXCEPT !.origin = NoFinding]
            BY <1>5, <2>3 DEF Delete
        <3> QED
            BY <2>1, <3>1 DEF Rule
    <2> QED
        BY <2>2, <2>3
<1>6. OpenRules'
    BY <1>1, <1>2, UnusedIs, OpenRulesStay DEF Others
<1>7. StoredRules'
    BY <1>1, <1>5 DEF StoredRules, Validate, Parents
<1>8. OpenOrigins'
    <2>1. ASSUME NEW b \in Audits, NEW g \in Flaws, txn[b].rows[g].zombie # NoFinding
          PROVE  /\ txn[b].rows[g].zombie \in Findings
                 /\ txn[b].rows[g].zombie \notin {a} \X Flaws
                 /\ audit'[b].previous = audit[b].previous
        <3>1. audit[b].state = "stored" /\ b # a
            BY <1>1, <2>1 DEF FixInv, Transactions
        <3>2. txn[b].rows[g].zombie \in Findings
            BY <1>0, <2>1 DEF TypeOK, Txn, Row
        <3> QED
            BY <1>1, <2>1, <3>1, <3>2 DEF Referred, Others
    <2> QED
        BY <1>1, <1>4, <2>1 DEF OpenOrigins
<1>9. OriginsWereFixed'
    <2>1. ASSUME NEW b \in Audits, NEW g \in Flaws, finding'[b][g].zombie # NoFinding
          PROVE  (FindingAt(finding[b][g].zombie).fix # 0)'
        <3>1. /\ finding'[b][g].zombie = finding[b][g].zombie
              /\ finding[b][g].zombie \in Findings \ ({a} \X Flaws)
            BY <1>0, <1>3, <2>1 DEF TypeOK, Row
        <3> QED
            BY <1>4, <2>1, <3>1 DEF OriginsWereFixed
    <2>2. ASSUME NEW r \in Rules, rule'[r].origin # NoFinding
          PROVE  (FindingAt(rule[r].origin).fix # 0)'
        <3>1. /\ rule'[r].origin = rule[r].origin
              /\ rule[r].origin \in Findings \ ({a} \X Flaws)
            BY <1>0, <1>5, <2>2 DEF TypeOK, Rule
        <3> QED
            BY <1>4, <2>2, <3>1 DEF OriginsWereFixed
    <2> QED
        BY <2>1, <2>2 DEF OriginsWereFixed
<1> QED
    BY <1>0, <1>6, <1>7, <1>8, <1>9

LEMMA DecisionKeepsMemoryInv ==
    ASSUME MemoryInv, FixInv', NEW r \in Rules, Approve(r) \/ Revoke(r) PROVE MemoryInv'
<1> USE DEF MemoryInv
<1>1. UNCHANGED <<past, text, audit, finding, txn, followed>>
    BY DEF Approve, Revoke
<1>2. ASSUME NEW s \in Rules
      PROVE  /\ rule'[s].pattern = rule[s].pattern /\ rule'[s].fix = rule[s].fix
             /\ rule'[s].validated = rule[s].validated /\ rule'[s].origin = rule[s].origin
             /\ rule'[s].approved => rule[s].approved \/ rule[s].validated
    BY <1>2 DEF Approve, Revoke, FixInv, TypeOK, Rule
<1>3. OpenRules'
    BY <1>1, OpenRulesStay
<1>4. StoredRules'
    BY <1>1, <1>2 DEF StoredRules, Validate, Parents
<1>5. OpenOrigins'
    BY <1>1 DEF OpenOrigins, FindingAt
<1>6. OriginsWereFixed'
    BY <1>1, <1>2 DEF OriginsWereFixed, FindingAt
<1> QED
    BY <1>3, <1>4, <1>5, <1>6

LEMMA InitMemoryInv == ASSUME Init PROVE MemoryInv
<1>1. FixInv
    BY InitFixInv
<1>2. OpenRules
    BY ClosedIs, UnusedIs DEF Init, OpenRules
<1>3. StoredRules
    BY UnusedIs DEF Init, StoredRules
<1>4. OpenOrigins
    BY ClosedIs DEF Init, OpenOrigins
<1>5. OriginsWereFixed
    BY UnusedIs DEF Init, OriginsWereFixed, NoRows
<1> QED
    BY <1>1, <1>2, <1>3, <1>4, <1>5 DEF MemoryInv

LEMMA MemoryInvariant == Spec => []MemoryInv
<1>1. Init => MemoryInv
    BY InitMemoryInv
<1>2. MemoryInv /\ [Next]_vars => MemoryInv'
    <2> SUFFICES ASSUME MemoryInv, [Next]_vars PROVE MemoryInv'
        OBVIOUS
    <2>1. FixInv'
        BY FixInvIsKept DEF MemoryInv
    <2>2. CASE UNCHANGED vars
        <3> USE <2>2 DEF vars, MemoryInv
        <3>1. OpenRules'
            BY OpenRulesStay
        <3>2. StoredRules'
            BY DEF StoredRules, Validate, Parents
        <3>3. OpenOrigins' /\ OriginsWereFixed'
            BY DEF OpenOrigins, OriginsWereFixed, FindingAt
        <3> QED
            BY <2>1, <3>1, <3>2, <3>3
    <2> QED
        BY <2>1, <2>2, LearnKeepsMemoryInv, RecallKeepsMemoryInv, CommitKeepsMemoryInv,
           FailKeepsMemoryInv, DeleteKeepsMemoryInv, DecisionKeepsMemoryInv DEF Next
<1> QED
    BY <1>1, <1>2, PTL DEF Spec

\* A rule that passed its test on a fix that was found in the history from its
\* finding (immune.validate) tells the flaw from the fix.
THEOREM RulesTellFlawFromFix == Spec => []RulesCatchTheFlaw
<1>1. MemoryInv => RulesCatchTheFlaw
    BY RulesCatch
<1> QED
    BY <1>1, MemoryInvariant, PTL

\* What a zombie or a rule refers to is a finding with a fix, however audits,
\* failures and deletions interleave (record_immune, models.py).
THEOREM OriginsFixed == Spec => []OriginsWereFixed
<1>1. MemoryInv => OriginsWereFixed
    BY DEF MemoryInv
<1> QED
    BY <1>1, MemoryInvariant, PTL

-----------------------------------------------------------------------------
(***************************************************************************)
(* Fixes                                                                   *)
(*                                                                         *)
(* A fix reaches the database in two steps, and is there at the end        *)
(* because the transaction that looked for it holds it, and because        *)
(* nothing but the deletion of its finding takes it away.                  *)
(***************************************************************************)

\* Finding g of audit b is gone from the commit of audit a, whose clone goes
\* back to it.
Gone(a, b, g) ==
    /\ finding[b][g].kind = "evidenced"
    /\ ~Flawed(audit[a].commit, g)
    /\ audit[b].commit \in Fetched(audit[a].commit)

\* The audit has looked for all the fixes, or will have if it succeeds.
LooksForAll(a) == audit[a].state = "learnt" \/ (audit[a].state = "stored" /\ audit[a].ran)

\* Then its transaction holds them.
OpenRecorded ==
    \A a \in Audits, b \in Audits, g \in Flaws :
        LooksForAll(a) /\ audit[a].previous = b /\ Gone(a, b, g) => txn[a].fixes[g] # 0

RecordInv == FixInv /\ OpenRecorded /\ FixesRecorded

\* FixesRecorded, in these terms.
LEMMA RecordedIs ==
    FixesRecorded <=>
        \A a \in Audits, b \in Audits, g \in Flaws :
            audit[a].state = "done" /\ audit[a].ran /\ audit[a].previous = b /\ Gone(a, b, g)
                => finding[b][g].fix # 0
BY DEF FixesRecorded, Gone

\* What is gone was gone before, unless the step changes the audits or the finding.
LEMMA GoneBefore ==
    ASSUME UNCHANGED <<past, text>>, NEW a, NEW b, NEW g,
           audit'[a].commit = audit[a].commit, audit'[b].commit = audit[b].commit,
           finding'[b][g].kind = finding[b][g].kind, Gone(a, b, g)'
    PROVE  Gone(a, b, g)
BY DEF Gone, Flawed, Fetched

\* find_fixed finds a fix for what is gone, if the clone goes back to it.
LEMMA FixIsFound ==
    ASSUME TypeOK, IsHistory, NEW b \in Audits, NEW g \in Flaws, NEW head \in CommitIds,
           NEW tip, audit[b].commit \in CommitIds, Flawed(audit[b].commit, g),
           ~Flawed(head, g), audit[b].commit \in Fetched(head), NEW x \in FixOf(g, b, head, tip)
    PROVE  x # 0
<1> DEFINE from == audit[b].commit
           cuts == Cuts(head, tip)
           without == {y \in Reached(head, cuts) \ Reached(from, cuts) : ~Flawed(y, g)}
           changed == {y \in without \ cuts : \E p \in Parents(y) : text[p][g] # text[y][g]}
<1>1. \A y \in changed : x # 0
    BY DEF FixOf, FirstWithout, Held
<1>2. /\ from \in past[head] /\ past[head] \subseteq CommitIds /\ head \in past[head]
      /\ past[from] = {y \in past[head] : y <= from}
    BY DEF Fetched, TypeOK, IsHistory
<1>3. from <= head
    BY <1>2 DEF IsHistory, CommitIds
<1>4. \A c \in past[head] \cap cuts : c <= from
    BY CutsAreBefore
<1> HIDE DEF cuts
<1>5. PICK z \in past[head] : /\ from < z /\ ~Flawed(z, g)
                              /\ \E p \in Parents(z) : text[p][g] # text[z][g]
    BY <1>2, <1>3, SomeCommitFixed
<1>6. z \in Reached(head, cuts) \ Reached(from, cuts) /\ z \notin cuts
    BY <1>2, <1>4, <1>5 DEF Reached, CommitIds
<1> QED
    BY <1>1, <1>5, <1>6

LEMMA LearnKeepsRecordInv == ASSUME RecordInv, NEW a \in Audits, Learn(a) PROVE RecordInv'
<1> USE DEF RecordInv
<1>0. /\ FixInv' /\ TypeOK /\ IsHistory /\ Compared /\ StoredRows
    BY LearnKeepsFixInv DEF FixInv
<1>1. PICK p \in Previous(a), head \in CommitIds, complete \in BOOLEAN :
      \E tip : Learnt(a, p, head, complete, tip)
    BY <1>0, LearnLeaves
<1>2. PICK tip : Learnt(a, p, head, complete, tip)
    BY <1>1
<1>3. /\ audit[a].state = "pending" /\ Others(a) /\ UNCHANGED <<past, text, finding>>
      /\ audit'[a].state \in {"learnt", "stored"} /\ audit'[a].previous = p
      /\ audit'[a].commit = head /\ ~audit'[a].ran
      /\ complete <=> audit'[a].state = "learnt"
    BY <1>0, <1>2, LearnLeaves, LearnSets
<1>4. p # 0 => p \in Audits /\ p < a /\ audit[p].state = "done"
    BY <1>0, PreviousIs
<1>5. ASSUME NEW b \in Audits, NEW c \in Audits, NEW g \in Flaws,
             audit'[b].previous = c, Gone(b, c, g)'
      PROVE  /\ LooksForAll(b)' => txn'[b].fixes[g] # 0
             /\ audit'[b].state = "done" /\ audit'[b].ran => finding'[c][g].fix # 0
    <2>1. CASE b = a
        <3>1. c = p /\ c # a /\ audit'[c] = audit[c] /\ c # 0
            BY <1>3, <1>4, <1>5, <2>1 DEF Others, Audits
        <3>2. /\ finding[c][g].kind = "evidenced" /\ ~Flawed(head, g)
              /\ audit[c].commit \in Fetched(head)
            BY <1>3, <1>5, <2>1, <3>1 DEF Gone, Flawed, Fetched
        <3>3. Flawed(audit[c].commit, g) /\ audit[c].commit \in CommitIds
            BY <1>0, <1>4, <3>1, <3>2 DEF StoredRows, TypeOK
        <3>4. LooksForAll(a)' => txn'[a].fixes[g] \in FixOf(g, p, head, tip)
            BY <1>2, <1>3, <3>1, <3>2 DEF LooksForAll, Learnt, Evidenced
        <3>5. LooksForAll(a)' => txn'[a].fixes[g] # 0
            BY <1>0, <3>1, <3>2, <3>3, <3>4, FixIsFound
        <3> QED
            BY <1>3, <2>1, <3>5
    <2>2. CASE b # a
        <3>1. audit'[b] = audit[b] /\ txn'[b] = txn[b]
            BY <1>3, <2>2 DEF Others
        <3>2. c # a
            BY <1>0, <1>3, <1>5, <3>1 DEF Compared, Audits
        <3>3. Gone(b, c, g)
            BY <1>3, <1>5, <3>1, <3>2, GoneBefore DEF Others
        <3> QED
            BY <1>3, <1>5, <3>1, <3>3, RecordedIs DEF OpenRecorded, LooksForAll
    <2> QED
        BY <2>1, <2>2
<1>6. OpenRecorded'
    BY <1>5 DEF OpenRecorded
<1>7. FixesRecorded'
    BY <1>5 DEF FixesRecorded, Gone
<1> QED
    BY <1>0, <1>6, <1>7

LEMMA RecallKeepsRecordInv == ASSUME RecordInv, NEW a \in Audits, Recall(a) PROVE RecordInv'
<1> USE DEF RecordInv
<1>0. FixInv' /\ TypeOK /\ \A g \in Flaws : txn[a].rows[g].fix = 0
    BY RecallKeepsFixInv DEF FixInv, Transactions
<1>1. PICK ran \in BOOLEAN, R \in SUBSET Rules, rows \in [Flaws -> Row] :
          Recalls(a, ran, R, rows)
    BY <1>0, RecallLeaves
<1>2. /\ audit[a].state = "learnt" /\ Others(a) /\ UNCHANGED <<past, text, finding>>
      /\ audit'[a].state = "stored" /\ audit'[a].previous = audit[a].previous
      /\ audit'[a].commit = audit[a].commit /\ txn'[a].fixes = txn[a].fixes
    BY <1>0, <1>1, RecallLeaves, RecallSets
<1>3. ASSUME NEW b \in Audits
      PROVE  /\ audit'[b].previous = audit[b].previous /\ audit'[b].commit = audit[b].commit
             /\ txn'[b].fixes = txn[b].fixes
             /\ LooksForAll(b)' => LooksForAll(b)
             /\ audit'[b].state = "done" => audit'[b] = audit[b]
    BY <1>2 DEF Others, LooksForAll
<1>4. ASSUME NEW b \in Audits, NEW c \in Audits, NEW g \in Flaws, Gone(b, c, g)'
      PROVE  Gone(b, c, g)
    BY <1>2, <1>3, <1>4, GoneBefore
<1>5. OpenRecorded'
    BY <1>3, <1>4 DEF OpenRecorded
<1>6. FixesRecorded'
    <2>1. ASSUME NEW b \in Audits, NEW c \in Audits, NEW g \in Flaws,
                 audit'[b].state = "done", audit'[b].ran, audit'[b].previous = c, Gone(b, c, g)'
          PROVE  finding'[c][g].fix # 0
        BY <1>2, <1>3, <1>4, <2>1, RecordedIs
    <2> QED
        BY <2>1 DEF FixesRecorded, Gone
<1> QED
    BY <1>0, <1>5, <1>6

LEMMA CommitKeepsRecordInv == ASSUME RecordInv, NEW a \in Audits, Commit(a) PROVE RecordInv'
<1> USE DEF RecordInv
<1>0. FixInv' /\ TypeOK /\ Compared /\ StoredRows
    BY CommitKeepsFixInv DEF FixInv
<1>1. /\ audit[a].state = "stored" /\ Others(a) /\ UNCHANGED <<past, text>>
      /\ audit'[a].state = "done" /\ audit'[a].previous = audit[a].previous
      /\ audit'[a].commit = audit[a].commit /\ audit'[a].ran = audit[a].ran
    BY <1>0, CommitSets DEF Others
<1>2. ASSUME NEW b \in Audits
      PROVE  /\ audit'[b].previous = audit[b].previous /\ audit'[b].commit = audit[b].commit
             /\ b # a => audit'[b] = audit[b] /\ txn'[b] = txn[b]
    BY <1>1, <1>2 DEF Others
<1>3. ASSUME NEW b \in Audits, NEW c \in Audits, audit'[b].previous = c PROVE c # a
    BY <1>0, <1>1, <1>2, <1>3 DEF Compared, Audits
<1>4. ASSUME NEW c \in Audits, c # a, NEW g \in Flaws
      PROVE  /\ finding'[c][g].kind = finding[c][g].kind
             /\ finding[c][g].fix # 0 => finding'[c][g].fix # 0
             /\ c = audit[a].previous /\ txn[a].fixes[g] # 0 => finding'[c][g].fix # 0
    <2>1. finding[c][g] \in Row
        BY <1>0 DEF TypeOK
    <2>2. CASE c # audit[a].previous \/ txn[a].fixes[g] = 0
        BY <1>0, <1>4, <2>2, CommitFindings
    <2>3. CASE c = audit[a].previous /\ txn[a].fixes[g] # 0
        <3>1. finding'[c][g] = [finding[c][g] EXCEPT !.fix = txn[a].fixes[g]]
            BY <1>0, <1>4, <2>3, CommitFindings
        <3> QED
            BY <2>1, <2>3, <3>1 DEF Row
    <2> QED
        BY <2>2, <2>3
<1>5. ASSUME NEW b \in Audits, NEW c \in Audits, NEW g \in Flaws,
             audit'[b].previous = c, Gone(b, c, g)'
      PROVE  Gone(b, c, g)
    BY <1>1, <1>2, <1>3, <1>4, <1>5, GoneBefore
<1>6. OpenRecorded'
    BY <1>1, <1>2, <1>5 DEF OpenRecorded, LooksForAll
<1>7. FixesRecorded'
    <2>1. ASSUME NEW b \in Audits, NEW c \in Audits, NEW g \in Flaws,
                 audit'[b].state = "done", audit'[b].ran, audit'[b].previous = c, Gone(b, c, g)'
          PROVE  finding'[c][g].fix # 0
        <3>1. Gone(b, c, g) /\ c # a /\ audit[b].previous = c
            BY <1>2, <1>3, <1>5, <2>1
        <3>2. CASE b = a
            BY <1>1, <1>4, <2>1, <3>1, <3>2 DEF OpenRecorded, LooksForAll
        <3>3. CASE b # a
            BY <1>2, <1>4, <2>1, <3>1, <3>3, RecordedIs
        <3> QED
            BY <3>2, <3>3
    <2> QED
        BY <2>1 DEF FixesRecorded, Gone
<1> QED
    BY <1>0, <1>6, <1>7

\* An audit that failed or was deleted has nothing more to record.
LEMMA EndKeepsRecordInv ==
    ASSUME RecordInv, FixInv', NEW a \in Audits, Fail(a) \/ Delete(a) PROVE RecordInv'
<1> USE DEF RecordInv
<1>0. TypeOK /\ Compared
    BY DEF FixInv
<1>1. Others(a) /\ audit'[a] = Empty("gone")
    BY <1>0, FailSets, DeleteSets
<1>2. ASSUME NEW b \in Audits, LooksForAll(b)' \/ (audit'[b].state = "done" /\ audit'[b].ran)
      PROVE  b # a /\ audit'[b] = audit[b] /\ txn'[b] = txn[b]
    BY <1>1, <1>2 DEF Others, LooksForAll, Empty
<1>3. ASSUME NEW c \in Audits, NEW g \in Flaws, finding'[c][g].kind = "evidenced"
      PROVE  /\ finding[c][g].kind = "evidenced"
             /\ finding'[c][g].fix = finding[c][g].fix
             /\ Delete(a) => c # a
    <2>1. CASE Fail(a)
        <3>1. finding' = finding
            BY <1>0, <2>1, FailSets
        <3>2. ~Delete(a)
            BY <1>0, <2>1, FailSets, DeleteSets DEF Working
        <3> QED
            BY <1>3, <3>1, <3>2
    <2>2. CASE Delete(a)
        <3>1. finding[c][g] \in Row
            BY <1>0 DEF TypeOK
        <3>2. c # a
            <4>1. NoRows[g].kind = "none"
                BY DEF NoRows
            <4> QED
                BY <1>0, <1>3, <2>2, <4>1, DeleteFindings
        <3>3. finding'[c][g] \in {finding[c][g], [finding[c][g] EXCEPT !.zombie = NoFinding]}
            BY <1>0, <2>2, <3>2, DeleteFindings
        <3> QED
            BY <1>3, <3>1, <3>2, <3>3 DEF Row
    <2> QED
        BY <2>1, <2>2
<1>4. ASSUME NEW b \in Audits, NEW c \in Audits, NEW g \in Flaws, b # a,
             audit'[b].previous = c, Gone(b, c, g)'
      PROVE  Gone(b, c, g)
    <2>1. audit'[b] = audit[b] /\ finding'[c][g].kind = "evidenced"
        BY <1>1, <1>4 DEF Others, Gone
    <2>2. finding[c][g].kind = "evidenced"
        BY <1>3, <2>1
    <2>3. c # a
        <3>1. finding[c][g].kind = "evidenced" => audit[c].state = "done"
            BY DEF FixInv, StoredRows
        <3>2. Fail(a) => audit[a].state # "done"
            BY <1>0, FailSets DEF Working
        <3> QED
            BY <1>3, <2>1, <2>2, <3>1, <3>2
    <2>4. audit'[c] = audit[c]
        BY <1>1, <2>3 DEF Others
    <2> QED
        BY <1>1, <1>4, <2>1, <2>2, <2>4, GoneBefore DEF Others
<1>5. OpenRecorded'
    BY <1>2, <1>4 DEF OpenRecorded, LooksForAll
<1>6. FixesRecorded'
    <2>1. ASSUME NEW b \in Audits, NEW c \in Audits, NEW g \in Flaws,
                 audit'[b].state = "done", audit'[b].ran, audit'[b].previous = c, Gone(b, c, g)'
          PROVE  finding'[c][g].fix # 0
        <3>1. b # a /\ audit'[b] = audit[b] /\ Gone(b, c, g)
            BY <1>2, <1>4, <2>1
        <3>2. finding[c][g].fix # 0
            BY <2>1, <3>1, RecordedIs
        <3>3. finding'[c][g].kind = "evidenced"
            BY <2>1 DEF Gone
        <3> QED
            BY <1>3, <3>2, <3>3
    <2> QED
        BY <2>1 DEF FixesRecorded, Gone
<1> QED
    BY <1>5, <1>6

LEMMA InitRecordInv == ASSUME Init PROVE RecordInv
<1>1. FixInv
    BY InitFixInv
<1>2. \A a \in Audits : audit[a].state = "pending"
    BY DEF Init, Empty
<1> QED
    BY <1>1, <1>2 DEF RecordInv, OpenRecorded, LooksForAll, FixesRecorded

\* An audit whose immune module succeeds has recorded the fix of every finding
\* of the audit before it that was shown to hold and is gone, if its clone goes
\* back to it (record_immune), whatever other audits did meanwhile.
THEOREM FixesAreRecorded == Spec => []FixesRecorded
<1>1. Init => RecordInv
    BY InitRecordInv
<1>2. RecordInv /\ [Next]_vars => RecordInv'
    <2> SUFFICES ASSUME RecordInv, [Next]_vars PROVE RecordInv'
        OBVIOUS
    <2>1. FixInv'
        BY FixInvIsKept DEF RecordInv
    <2>2. CASE UNCHANGED <<past, text, audit, finding, txn>>
        BY <2>1, <2>2 DEF RecordInv, OpenRecorded, FixesRecorded, LooksForAll, Gone, Flawed, Fetched
    <2>3. ASSUME NEW r \in Rules, Approve(r) \/ Revoke(r)
          PROVE  UNCHANGED <<past, text, audit, finding, txn>>
        BY <2>3 DEF Approve, Revoke
    <2> QED
        BY <2>1, <2>2, <2>3, LearnKeepsRecordInv, RecallKeepsRecordInv, CommitKeepsRecordInv,
           EndKeepsRecordInv DEF Next, vars
<1>3. RecordInv => FixesRecorded
    BY DEF RecordInv
<1> QED
    BY <1>1, <1>2, <1>3, PTL DEF Spec

-----------------------------------------------------------------------------
(***************************************************************************)
(* Regressions                                                             *)
(*                                                                         *)
(* The rules an audit read stay what they were: those of finished audits   *)
(* lose nothing but their approval and their finding.                      *)
(***************************************************************************)

Ended(a) == audit[a].state \in {"done", "gone"}

\* Only a finished audit's rules can be approved, so no other rule is asked.
AskedStored ==
    /\ \A r \in Rules : rule[r].validated => Ended(r[1])
    /\ \A a \in Audits : \A r \in asked[a] : r \in Rules /\ Ended(r[1])

\* Rule r still has its finding, and is alone with its identifier.
Counts(r, a) == rule[r].origin # NoFinding /\ \A s \in asked[a] : SameId(r, s) => s = r

\* The code of the audited commit at g is what the rule matches.
Hits(r, a, g) == <<g, text[audit[a].commit][g]>> \in rule[r].pattern

\* What they match is in the rows that the audit is about to commit.
OpenReported ==
    \A a \in Audits : audit[a].state = "stored" /\ audit[a].ran =>
        \A r \in asked[a], g \in Flaws :
            Counts(r, a) /\ Hits(r, a, g) => txn[a].rows[g].kind # "none"

ReportedInv == FixInv /\ AskedStored /\ OpenReported /\ RegressionsReported

\* RegressionsReported, in these terms.
LEMMA ReportedIs ==
    RegressionsReported <=>
        \A a \in Audits : audit[a].state = "done" /\ audit[a].ran =>
            \A r \in asked[a], g \in Flaws :
                Counts(r, a) /\ Hits(r, a, g) => finding[a][g].kind # "none"
BY DEF RegressionsReported, Reported, Counts, Hits

\* A rule that counts and hits did so before, if it was what it is but for its
\* approval.
LEMMA CountedBefore ==
    ASSUME UNCHANGED text, NEW a \in Audits, NEW r \in asked[a], NEW g \in Flaws,
           asked'[a] = asked[a], audit'[a].commit = audit[a].commit,
           \A s \in asked[a] : /\ rule'[s].pattern = rule[s].pattern
                               /\ rule'[s].name = rule[s].name
                               /\ rule'[s].origin # NoFinding => rule[s].origin # NoFinding,
           Counts(r, a)', Hits(r, a, g)'
    PROVE  Counts(r, a) /\ Hits(r, a, g)
BY DEF Counts, Hits, SameId

\* The row of a place that a rule matches is not empty.
LEMMA MatchIsReported ==
    ASSUME TypeOK, NEW a \in Audits, NEW R \in SUBSET Rules, NEW g \in Flaws,
           txn[a].rows[g].fix = 0, NEW row \in Outcomes(a, R, g),
           NEW r \in R, rule[r].origin # NoFinding, Hits(r, a, g)
    PROVE  row.kind # "none"
<1> DEFINE own == txn[a].rows[g]
           origins == OriginsOf(R, audit[a].commit, g)
<1>1. rule[r].origin \in origins
    BY DEF OriginsOf, Hits
<1>2. own \in Row
    BY DEF TypeOK, Txn
<1>3. PICK again \in Again(a, own) : row \in Matched(again, g, origins)
    BY DEF Outcomes
<1>4. again \in Row
    <2>1. FixedBefore(a, own.flaw) \subseteq Findings
        BY DEF FixedBefore
    <2> QED
        BY <1>2, <1>3, <2>1 DEF Again, Row
<1> HIDE DEF origins, own
<1> QED
    BY <1>1, <1>3, <1>4 DEF Matched, Row

LEMMA LearnKeepsReportedInv ==
    ASSUME ReportedInv, NEW a \in Audits, Learn(a) PROVE ReportedInv'
<1> USE DEF ReportedInv
<1>0. FixInv' /\ TypeOK
    BY LearnKeepsFixInv DEF FixInv
<1>1. PICK p \in Previous(a), head \in CommitIds, complete \in BOOLEAN :
      \E tip : Learnt(a, p, head, complete, tip)
    BY <1>0, LearnLeaves
<1>2. PICK tip : Learnt(a, p, head, complete, tip)
    BY <1>1
<1>3. /\ audit[a].state = "pending" /\ Others(a)
      /\ UNCHANGED <<past, text, finding, rule, asked>>
      /\ audit'[a].state \in {"learnt", "stored"} /\ ~audit'[a].ran
    BY <1>0, <1>2, LearnLeaves, LearnSets
<1>4. \A b \in Audits : b = a \/ (audit'[b] = audit[b] /\ txn'[b] = txn[b])
    BY <1>3 DEF Others
<1>5. AskedStored'
    BY <1>3, <1>4 DEF AskedStored, Ended, Rules
<1>6. OpenReported'
    BY <1>3, <1>4 DEF OpenReported, Counts, Hits, SameId
<1>7. RegressionsReported'
    BY <1>3, <1>4 DEF RegressionsReported, Reported, SameId
<1> QED
    BY <1>0, <1>5, <1>6, <1>7

LEMMA RecallKeepsReportedInv ==
    ASSUME ReportedInv, NEW a \in Audits, Recall(a) PROVE ReportedInv'
<1> USE DEF ReportedInv
<1>0. FixInv' /\ TypeOK /\ \A g \in Flaws : txn[a].rows[g].fix = 0
    BY RecallKeepsFixInv DEF FixInv, Transactions
<1>1. PICK ran \in BOOLEAN, R \in SUBSET Rules, rows \in [Flaws -> Row] :
          Recalls(a, ran, R, rows)
    BY <1>0, RecallLeaves
<1>2. /\ audit[a].state = "learnt" /\ Others(a)
      /\ UNCHANGED <<past, text, finding, rule>> /\ asked' = [asked EXCEPT ![a] = Approved]
      /\ audit'[a].state = "stored" /\ audit'[a].commit = audit[a].commit
      /\ audit'[a].ran = ran /\ txn'[a].rows = rows
    BY <1>0, <1>1, RecallLeaves, RecallSets
<1>3. asked'[a] = Approved /\ \A b \in Audits \ {a} : asked'[b] = asked[b]
    BY <1>0, <1>2 DEF TypeOK
<1>4. \A b \in Audits : b = a \/ (audit'[b] = audit[b] /\ txn'[b] = txn[b])
    BY <1>2 DEF Others
<1>5. AskedStored'
    BY <1>2, <1>3, <1>4 DEF AskedStored, Ended, Rules, Approved
<1>6. OpenReported'
    <2>1. ASSUME NEW r \in Approved, NEW g \in Flaws, ran,
                 rule[r].origin # NoFinding, \A s \in Approved : SameId(r, s) => s = r,
                 Hits(r, a, g)
          PROVE  rows[g].kind # "none"
        <3>1. R \in RunRules /\ rows[g] \in Outcomes(a, R, g)
            BY <1>1, <2>1 DEF Recalls
        <3>2. r \in R
            BY <2>1, <3>1 DEF RunRules
        <3> QED
            BY <1>0, <2>1, <3>1, <3>2, MatchIsReported
    <2>2. ASSUME NEW r \in asked'[a], NEW g \in Flaws, ran, Counts(r, a)', Hits(r, a, g)'
          PROVE  txn'[a].rows[g].kind # "none"
        BY <1>2, <1>3, <2>1, <2>2 DEF Counts, Hits, SameId
    <2>3. ASSUME NEW b \in Audits \ {a}, NEW r \in asked'[b], NEW g \in Flaws,
                 audit'[b].state = "stored", audit'[b].ran, Counts(r, b)', Hits(r, b, g)'
          PROVE  txn'[b].rows[g].kind # "none"
        BY <1>2, <1>3, <1>4, <2>3 DEF OpenReported, Counts, Hits, SameId
    <2> QED
        BY <1>2, <2>2, <2>3 DEF OpenReported
<1>7. RegressionsReported'
    BY <1>2, <1>3, <1>4 DEF RegressionsReported, Reported, SameId
<1> QED
    BY <1>0, <1>5, <1>6, <1>7

LEMMA CommitKeepsReportedInv ==
    ASSUME ReportedInv, NEW a \in Audits, Commit(a) PROVE ReportedInv'
<1> USE DEF ReportedInv
<1>0. FixInv' /\ TypeOK
    BY CommitKeepsFixInv DEF FixInv
<1>1. /\ audit[a].state = "stored" /\ Others(a) /\ UNCHANGED <<past, text, asked>>
      /\ audit'[a].state = "done" /\ audit'[a].commit = audit[a].commit
      /\ audit'[a].ran = audit[a].ran
    BY <1>0, CommitSets DEF Others, Commit
<1>2. ASSUME NEW b \in Audits
      PROVE  /\ audit'[b].commit = audit[b].commit /\ Ended(b) => Ended(b)'
             /\ b # a => audit'[b] = audit[b] /\ txn'[b] = txn[b]
    BY <1>1, <1>2 DEF Others, Ended
<1>3. \A r \in Rules : r[1] \in Audits /\ (r[1] # a => rule'[r] = rule[r])
    BY DEF Commit, Rules
<1>4. ASSUME NEW b \in Audits, NEW r \in asked[b] PROVE r \in Rules /\ rule'[r] = rule[r]
    BY <1>1, <1>3, <1>4 DEF AskedStored, Ended
<1>5. AskedStored'
    <2>1. ASSUME NEW r \in Rules, rule'[r].validated PROVE Ended(r[1])'
        BY <1>1, <1>2, <1>3, <2>1 DEF AskedStored, Ended
    <2> QED
        BY <1>1, <1>2, <1>3, <2>1 DEF AskedStored
<1>6. ASSUME NEW b \in Audits, NEW r \in asked'[b], NEW g \in Flaws,
             Counts(r, b)', Hits(r, b, g)'
      PROVE  Counts(r, b) /\ Hits(r, b, g) /\ r \in asked[b]
    BY <1>1, <1>2, <1>4, <1>6, CountedBefore
<1>7. OpenReported'
    BY <1>1, <1>2, <1>6 DEF OpenReported
<1>8. RegressionsReported'
    <2>1. ASSUME NEW b \in Audits, audit'[b].state = "done", audit'[b].ran,
                 NEW r \in asked'[b], NEW g \in Flaws, Counts(r, b)', Hits(r, b, g)'
          PROVE  finding'[b][g].kind # "none"
        <3>1. CASE b = a
            <4>1. finding'[a][g] = txn[a].rows[g]
                BY <1>0, CommitFindings
            <4>2. /\ audit[a].ran /\ audit[a].state = "stored"
                  /\ r \in asked[a] /\ Counts(r, a) /\ Hits(r, a, g)
                BY <1>1, <1>6, <2>1, <3>1
            <4>3. txn[a].rows[g].kind # "none"
                BY <4>2 DEF OpenReported
            <4> QED
                BY <3>1, <4>1, <4>3
        <3>2. CASE b # a
            <4>1. finding[b][g].kind # "none" /\ finding[b][g] \in Row
                BY <1>0, <1>2, <1>6, <2>1, <3>2, ReportedIs DEF TypeOK
            <4>2. finding'[b][g] \in {finding[b][g], [finding[b][g] EXCEPT !.fix = txn[a].fixes[g]]}
                BY <1>0, <3>2, CommitFindings
            <4> QED
                BY <4>1, <4>2 DEF Row
        <3> QED
            BY <3>1, <3>2
    <2> QED
        BY <2>1 DEF RegressionsReported, Reported, Counts, Hits
<1> QED
    BY <1>0, <1>5, <1>7, <1>8

\* An audit that failed or was deleted has nothing more to report.
LEMMA EndKeepsReportedInv ==
    ASSUME ReportedInv, FixInv', NEW a \in Audits, Fail(a) \/ Delete(a) PROVE ReportedInv'
<1> USE DEF ReportedInv
<1>0. TypeOK
    BY DEF FixInv
<1>1. /\ Others(a) /\ audit'[a] = Empty("gone") /\ UNCHANGED <<past, text>>
      /\ asked' = [asked EXCEPT ![a] = {}]
    BY <1>0, FailSets, DeleteSets DEF Others, Fail, Delete
<1>2. \A b \in Audits \ {a} :
          audit'[b] = audit[b] /\ txn'[b] = txn[b] /\ asked'[b] = asked[b]
    BY <1>0, <1>1 DEF Others, TypeOK
<1>3. asked'[a] = {} /\ audit'[a].state = "gone" /\ Ended(a)'
    BY <1>0, <1>1 DEF TypeOK, Empty, Ended
<1>4. ASSUME NEW r \in Rules
      PROVE  /\ rule'[r].pattern = rule[r].pattern /\ rule'[r].name = rule[r].name
             /\ rule'[r].validated = rule[r].validated
             /\ rule'[r].origin # NoFinding => rule[r].origin # NoFinding
    <2>1. rule[r] \in Rule
        BY <1>0 DEF TypeOK
    <2>2. rule'[r] \in {rule[r], [rule[r] EXCEPT !.origin = NoFinding]}
        BY FailSets, <1>0, <1>4 DEF Delete
    <2> QED
        BY <2>1, <2>2 DEF Rule
<1>5. ASSUME NEW b \in Audits \ {a}, NEW g \in Flaws
      PROVE  finding'[b][g].kind = finding[b][g].kind
    <2>1. finding[b][g] \in Row
        BY <1>0 DEF TypeOK
    <2>2. finding'[b][g] \in {finding[b][g], [finding[b][g] EXCEPT !.zombie = NoFinding]}
        BY <1>0, <1>5, FailSets, DeleteFindings
    <2> QED
        BY <2>1, <2>2 DEF Row
<1>6. AskedStored'
    <2>1. \A b \in Audits : Ended(b) => Ended(b)'
        BY <1>2, <1>3 DEF Ended
    <2>2. \A r \in Rules : r[1] \in Audits
        BY DEF Rules
    <2> QED
        BY <1>2, <1>3, <1>4, <2>1, <2>2 DEF AskedStored
<1>7. ASSUME NEW b \in Audits, NEW r \in asked'[b], NEW g \in Flaws,
             Counts(r, b)', Hits(r, b, g)'
      PROVE  b # a /\ Counts(r, b) /\ Hits(r, b, g) /\ r \in asked[b]
    <2>1. b # a /\ r \in asked[b] /\ asked'[b] = asked[b] /\ audit'[b].commit = audit[b].commit
        BY <1>2, <1>3, <1>7
    <2>2. \A s \in asked[b] : s \in Rules
        BY DEF AskedStored
    <2> QED
        BY <1>1, <1>4, <1>7, <2>1, <2>2, CountedBefore
<1>8. OpenReported'
    BY <1>2, <1>7 DEF OpenReported
<1>9. RegressionsReported'
    <2>1. ASSUME NEW b \in Audits, audit'[b].state = "done", audit'[b].ran,
                 NEW r \in asked'[b], NEW g \in Flaws, Counts(r, b)', Hits(r, b, g)'
          PROVE  finding'[b][g].kind # "none"
        BY <1>2, <1>5, <1>7, <2>1, ReportedIs
    <2> QED
        BY <2>1 DEF RegressionsReported, Reported, Counts, Hits
<1> QED
    BY <1>6, <1>8, <1>9

LEMMA DecisionKeepsReportedInv ==
    ASSUME ReportedInv, FixInv', NEW r \in Rules, Approve(r) \/ Revoke(r) PROVE ReportedInv'
<1> USE DEF ReportedInv
<1>0. TypeOK
    BY DEF FixInv
<1>1. UNCHANGED <<past, text, audit, finding, txn, asked>>
    BY DEF Approve, Revoke
<1>2. ASSUME NEW s \in Rules
      PROVE  /\ rule'[s].pattern = rule[s].pattern /\ rule'[s].name = rule[s].name
             /\ rule'[s].validated = rule[s].validated /\ rule'[s].origin = rule[s].origin
    BY <1>0, <1>2 DEF Approve, Revoke, TypeOK, Rule
<1>3. AskedStored'
    BY <1>1, <1>2 DEF AskedStored, Ended
<1>4. ASSUME NEW b \in Audits, NEW s \in asked[b], NEW g \in Flaws,
             Counts(s, b)', Hits(s, b, g)'
      PROVE  Counts(s, b) /\ Hits(s, b, g)
    <2>1. \A t \in asked[b] : t \in Rules
        BY DEF AskedStored
    <2> QED
        BY <1>1, <1>2, <1>4, <2>1, CountedBefore
<1>5. OpenReported'
    BY <1>1, <1>4 DEF OpenReported
<1>6. RegressionsReported'
    <2>1. ASSUME NEW b \in Audits, audit[b].state = "done", audit[b].ran,
                 NEW s \in asked[b], NEW g \in Flaws, Counts(s, b)', Hits(s, b, g)'
          PROVE  finding[b][g].kind # "none"
        BY <1>4, <2>1, ReportedIs
    <2> QED
        BY <1>1, <2>1 DEF RegressionsReported, Reported, Counts, Hits
<1> QED
    BY <1>3, <1>5, <1>6

LEMMA InitReportedInv == ASSUME Init PROVE ReportedInv
<1>1. FixInv
    BY InitFixInv
<1>2. \A a \in Audits : audit[a].state = "pending" /\ asked[a] = {}
    BY DEF Init, Empty
<1>3. \A r \in Rules : ~rule[r].validated
    BY UnusedIs DEF Init
<1> QED
    BY <1>1, <1>2, <1>3 DEF ReportedInv, AskedStored, OpenReported, RegressionsReported

\* What an approved rule that still has its finding matches in an audited commit
\* is reported, if no other approved rule has its identifier (immune.run_rules,
\* record_immune): also when it was revoked or its finding deleted meanwhile.
THEOREM RegressionsAreReported == Spec => []RegressionsReported
<1>1. Init => ReportedInv
    BY InitReportedInv
<1>2. ReportedInv /\ [Next]_vars => ReportedInv'
    <2> SUFFICES ASSUME ReportedInv, [Next]_vars PROVE ReportedInv'
        OBVIOUS
    <2>1. FixInv'
        BY FixInvIsKept DEF ReportedInv
    <2>2. CASE UNCHANGED vars
        <3> USE <2>2 DEF vars, ReportedInv
        <3>1. AskedStored' /\ OpenReported'
            BY DEF AskedStored, Ended, OpenReported, Counts, Hits, SameId
        <3>2. RegressionsReported'
            BY DEF RegressionsReported, Reported, SameId
        <3> QED
            BY <2>1, <3>1, <3>2
    <2> QED
        BY <2>1, <2>2, LearnKeepsReportedInv, RecallKeepsReportedInv, CommitKeepsReportedInv,
           EndKeepsReportedInv, DecisionKeepsReportedInv DEF Next
<1>3. ReportedInv => RegressionsReported
    BY DEF ReportedInv
<1> QED
    BY <1>1, <1>2, <1>3, PTL DEF Spec

=============================================================================
