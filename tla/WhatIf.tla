------------------------------- MODULE WhatIf --------------------------------
(***************************************************************************)
(* A fix for a finding, tried on a copy of the audited commit.             *)
(*                                                                         *)
(* The copy is measured before and after the patch: whether the cited code *)
(* is still there, what the scanners find, whether the approved rules      *)
(* match, whether the patch weakens a control, and, where there is a       *)
(* sandbox, which tests pass.  What a scanner finds is known by its part,  *)
(* rule, file and anchor.  A test that is not in the output is "absent".   *)
(***************************************************************************)
EXTENDS Integers, Sequences, FiniteSets

D == INSTANCE Drift

\* A patch that only changes regular files inside the repository.
PatchAllowed(patch) ==
    ~patch.empty /\ ~patch.large /\ ~patch.special /\ patch.files # {} /\ ~patch.outside

\* The parts of a scan that findings are taken from.
Parts == {"secrets", "mcp", "taint", "dependencies"}

\* What a scan finds of what there is: nothing of a part that fails.
Scanned(scan) == {k \in scan.there : k.part \in Parts \ scan.fails}

-----------------------------------------------------------------------------
\* What is read from the output of a run: the tests that have a line, and whether
\* the run as a whole passed ("unknown" if there was no test).
TestResults(run) ==
    [passed |-> CASE run.exit = "none_collected" -> "unknown"
                  [] run.exit = "ok" -> "yes"
                  [] run.exit \in {"failed", "timeout"} -> "no",
     tests |-> IF run.exit = "timeout" THEN [t \in DOMAIN run.tests |-> "absent"] ELSE run.tests]

\* The tests of both copies.  A test that failed before is not blamed on the patch.
RunTests(sandbox) ==
    LET b == TestResults(sandbox.before)
        a == TestResults(sandbox.after)
        broken == {t \in DOMAIN a.tests : a.tests[t] \in {"FAILED", "ERROR"}
                                          /\ b.tests[t] = "PASSED"}
    IN IF ~sandbox.runner THEN [run |-> FALSE, regressed |-> FALSE, broken |-> {}]
       ELSE [run |-> TRUE, broken |-> broken,
             regressed |-> broken # {} \/ (b.passed = "yes" /\ a.passed = "no")]

NoTests == [run |-> FALSE, regressed |-> FALSE, broken |-> {}]

-----------------------------------------------------------------------------
\* Mutant: what an approved rule matches is not counted against the patch.
VerdictWithoutRules(target, cited, appeared, weakened, matched, tests) ==
    LET regressions == appeared # {} \/ weakened # <<>> \/ tests.regressed
    IN CASE target /\ ~cited /\ ~regressions -> "promising"
         [] regressions -> "introduces_issues"
         [] OTHER -> "not_shown"

Verdict(target, cited, appeared, weakened, matched, tests) ==
    LET regressions == appeared # {} \/ weakened # <<>> \/ matched # {} \/ tests.regressed
    IN CASE target /\ ~cited /\ ~regressions -> "promising"
         [] regressions -> "introduces_issues"
         [] OTHER -> "not_shown"

\* The finding's rule counts as gone when one of its findings went, in any file.
TryPatch(in) ==
    LET before == Scanned(in.before)
        after == Scanned(in.after)
        gone == before \ after
        appeared == after \ before
        matched == IF in.immune.semgrep /\ ~in.immune.fails THEN in.immune.matched ELSE {}
        target == IF in.finding.rule # "none" THEN \E k \in gone : k.rule = in.finding.rule
                  ELSE ~in.cited
        tests == IF in.sandbox.on /\ ~in.sandbox.fails THEN RunTests(in.sandbox) ELSE NoTests
    IN IF ~PatchAllowed(in.patch) THEN [status |-> "refused"]
       ELSE IF ~in.cloned \/ ~in.patch.applies \/ in.before.stopped \/ in.after.stopped
            THEN [status |-> "error"]
       ELSE [status |-> "ok", gone |-> gone, appeared |-> appeared,
             weakened |-> D!DriftOf(in.patch.diff), tests |-> tests,
             verdict |-> Verdict(target, in.cited, appeared, D!DriftOf(in.patch.diff), matched,
                                 tests)]

=============================================================================
