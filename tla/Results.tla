------------------------------- MODULE Results -------------------------------
(***************************************************************************)
(* From what an audit was told to what it stores.                          *)
(*                                                                         *)
(* An auditor's findings are claims.  The server checks them against its   *)
(* own checkout, adds what its own scanners and the project's rules find,  *)
(* and has one module after another work on the rows.  Each module's       *)
(* failure is its own: it is recorded and the next module goes on.         *)
(*                                                                         *)
(* A finding is at a line of its file, or at 0 if its snippet is nowhere   *)
(* in the checkout.  What an attempt to refute it would show is weighed.   *)
(* An input says whether the commit could be checked out, whether the scan *)
(* ran to its end, which modules fail, and what is there to be found.      *)
(***************************************************************************)
EXTENDS Integers, Sequences, FiniteSets, SequencesExt

Scanners == <<"secrets", "dependencies", "mcp", "taint", "surface", "claims", "deadcode">>

\* A snippet that is not there takes "verified" from a finding, and one that is
\* gives the finding its line.
CheckEvidence(found) ==
    [i \in DOMAIN found |->
        LET f == found[i]
        IN IF f.snippet THEN [f EXCEPT !.line = f.at, !.verified = f.verified /\ f.at # 0]
           ELSE [f EXCEPT !.line = 0]]

\* Mutant: a finding without a checkout to check it in stays what it is said to be.
UncheckableAsClaimed(found) == [i \in DOMAIN found |-> [found[i] EXCEPT !.line = 0]]

\* Without a checkout, nothing that a runner sent counts as verified.
Uncheckable(found) ==
    [i \in DOMAIN found |-> [found[i] EXCEPT !.line = 0, !.verified = FALSE]]

\* The model reported the same lines in the same category already.
Duplicate(f, told) ==
    \E i \in DOMAIN told : /\ told[i].category = f.category /\ told[i].file = f.file
                           /\ told[i].line # 0 /\ told[i].line = f.line

\* All scanners ran in one process, and each is a run of its own.
RunRuleScanners(in, told) ==
    LET Ran(s) == in.checkout /\ in.scan /\ s \notin in.fails
        Counts(s, f) == f.module = s /\ (s \in {"secrets", "taint"} => ~Duplicate(f, told))
        Of(s) == FlattenSeq([i \in DOMAIN in.rules |->
                     IF Counts(s, in.rules[i]) THEN <<in.rules[i]>> ELSE <<>>])
    IN [found |-> FlattenSeq([i \in DOMAIN Scanners |->
                      IF Ran(Scanners[i]) THEN CheckEvidence(Of(Scanners[i])) ELSE <<>>]),
        runs |-> [i \in DOMAIN Scanners |-> [module |-> Scanners[i], ok |-> Ran(Scanners[i])]]]

\* A row says verified only with a snippet; what a rule states is only believed of
\* the server's own.
FindingFromDict(f, source) ==
    LET verified == f.verified /\ f.snippet
    IN [print |-> f.print, severity |-> f.severity, file |-> f.file, line |-> f.line, at |-> f.at,
        weighed |-> f.weighed, category |-> f.category, verified |-> verified,
        status |-> IF verified THEN "exists" ELSE "none", source |-> source,
        stated |-> IF source = "rule" THEN f.stated ELSE "none",
        dynamic |-> source = "rule" /\ f.dynamic, zombie |-> source = "immune", on_path |-> FALSE]

StoreResult(told, rules) ==
    [i \in DOMAIN told |-> FindingFromDict(told[i], "model")] \o
    [i \in DOMAIN rules |-> FindingFromDict(rules[i], "rule")]

\* How many rows of each severity.
Summarize(rows) ==
    [s \in {"high", "low"} |-> Cardinality({i \in DOMAIN rows : rows[i].severity = s})]

\* Each verified finding is attacked, one after another: a failure at the second
\* leaves the first as it came out.
RecordFalsifiability(in, rows) ==
    LET reached == IF "falsifiability" \in in.fails THEN 1 ELSE Len(rows)
    IN [i \in DOMAIN rows |->
           IF in.checkout /\ i <= reached
           THEN [rows[i] EXCEPT !.status = IF rows[i].verified THEN rows[i].weighed ELSE "none"]
           ELSE rows[i]]

\* What the auditor found of the decoys planted, as whoever held the key says.
RecordCanary(in) ==
    LET kept == in.canary.planted > 0 /\ ~in.canary.failed
    IN [kept |-> kept, planted |-> in.canary.planted,
        found |-> IF in.canary.found < in.canary.planted THEN in.canary.found
                  ELSE in.canary.planted]

\* What the project's rules match where no finding is becomes a row of its own
\* (ImmuneMemory has all of it).
Matched(matched, rows) ==
    LET Found(m, all) == \E i \in DOMAIN all : all[i].file = m.file /\ all[i].line = m.at
        Row(m) == FindingFromDict([m EXCEPT !.line = m.at, !.verified = TRUE], "immune")
        all[i \in 0..Len(matched)] ==
            IF i = 0 THEN rows
            ELSE IF matched[i].snippet /\ ~Found(matched[i], all[i - 1])
                 THEN Append(all[i - 1], Row(matched[i]))
            ELSE all[i - 1]
    IN all[Len(matched)]

\* The rows are counted again at the end, which a failure does not come to.
RecordImmune(in, rows) ==
    LET all == IF in.checkout THEN Matched(in.matched, rows) ELSE rows
    IN [rows |-> all, summary |-> Summarize(IF "immune" \in in.fails THEN rows ELSE all)]

\* The findings shown to hold, which add to the leverage of their files.
RecordLeverage(in, rows) ==
    LET shown == {i \in DOMAIN rows : rows[i].verified /\ rows[i].status \in
                                          {"reachable", "corroborated"}}
    IN IF ~in.checkout \/ "leverage" \in in.fails THEN <<>>
       ELSE [f \in {rows[i].file : i \in shown} |->
                Cardinality({i \in shown : rows[i].file = f})]

\* The rows that an attacker's path takes (Attacker has the paths).
RecordAttacker(in, rows) ==
    [i \in DOMAIN rows |->
        LET step == rows[i].verified /\ rows[i].status \in
                        {"reachable", "corroborated", "inconclusive"}
        IN [rows[i] EXCEPT !.on_path = step /\ "attacker" \notin in.fails]]

\* The modules that do without a checkout.
NeedNone == {"falsifiability", "parallax", "attacker"}

Record(in, module) ==
    [module |-> module, ok |-> module \notin in.fails /\ (in.checkout \/ module \in NeedNone)]

\* The whole chain, as one transaction.
Store(in) ==
    LET told == IF in.checkout THEN CheckEvidence(in.found) ELSE Uncheckable(in.found)
        scanned == RunRuleScanners(in, told)
        weighed == RecordFalsifiability(in, StoreResult(told, scanned.found))
        immune == RecordImmune(in, weighed)
        Ok(module) == [module |-> module, ok |-> TRUE]
    IN [rows |-> RecordAttacker(in, immune.rows), summary |-> immune.summary,
        canary |-> RecordCanary(in), leverage |-> RecordLeverage(in, immune.rows),
        runs |-> (IF in.checkout THEN <<Ok("evidence")>> ELSE <<>>) \o <<Ok("audit")>>
                 \o scanned.runs \o
                 [i \in 1..6 |-> Record(in, <<"falsifiability", "parallax", "immune", "leverage",
                                              "attacker", "drift">>[i])]]

=============================================================================
