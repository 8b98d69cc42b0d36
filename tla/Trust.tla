-------------------------------- MODULE Trust --------------------------------
(***************************************************************************)
(* What a finding is worth, and how far an audit can be trusted.           *)
(*                                                                         *)
(* A score is a share <<got, of>> of two numbers, none of which is a       *)
(* rounded one, and is unknown where there is nothing to measure.          *)
(***************************************************************************)
EXTENDS Integers, Sequences, FiniteSets, SequencesExt

Unknown == <<0, 0>>

\* The one word for a finding.
AssessRow(row) ==
    CASE row.status = "refuted" -> "discarded"
      [] row.status # "refuted" /\ (~row.verified \/ row.dynamic) -> "unverifiable"
      [] OTHER -> IF row.stated # "none" THEN row.stated
                  ELSE IF row.status = "corroborated" THEN "confirmed" ELSE "potential"

Positive(row) == AssessRow(row) \in {"confirmed", "potential"}

Band(score) ==
    IF score[2] = 0 THEN "unknown"
    ELSE IF 10 * score[1] >= 8 * score[2] THEN "high"
    ELSE IF 2 * score[1] >= score[2] THEN "medium" ELSE "low"

\* At most 79 in 100.
NeverHigh(score) ==
    IF score[2] # 0 /\ 100 * score[1] > 79 * score[2] THEN <<79, 100>> ELSE score

\* What a tier weighs, times four so that half of it is a number.
TierWeight == <<12, 12, 10, 10, 6, 2>>

\* A file counts by its weight if the auditor was shown it, and for half of that if it
\* was shown in part.
Weigh(s, r) ==
    LET got == IF ~r.audited THEN 0
               ELSE IF r.partly THEN TierWeight[r.tier] \div 2 ELSE TierWeight[r.tier]
    IN IF r.why \in {"directory", "ignored_directory", "not_text", "ignored"} THEN s
       ELSE <<s[1] + got, s[2] + TierWeight[r.tier]>>

\* What counts of all files that weigh anything, and what they weigh.
Weighed(rows) ==
    LET score[k \in 0..Len(rows)] == IF k = 0 THEN Unknown ELSE Weigh(score[k - 1], rows[k])
    IN score[Len(rows)]

\* The share of the files that the auditor was shown, by their weight.
CoverageScore(rows, summary) ==
    LET counted == IF Weighed(rows)[2] # 0 THEN Weighed(rows)
                   ELSE <<summary.audited, summary.files>>
    IN IF summary.high_risk_not_audited > 0 THEN NeverHigh(counted) ELSE counted

\* Half of it for having code at all, half for how the code stood up to refutation.
EvidenceScore(rows) ==
    LET verified == {i \in DOMAIN rows : rows[i].verified}
        held == {i \in verified : rows[i].status \in {"reachable", "corroborated"}}
        tested == held \cup {i \in verified : rows[i].status \in {"refuted", "inconclusive"}}
        n == Cardinality(verified)
    IN IF rows = <<>> THEN Unknown
       ELSE IF n = 0 THEN <<0, Len(rows)>>
       ELSE <<2 * n * n + (2 * Cardinality(held) + n - Cardinality(tested)) * Len(rows),
              4 * n * Len(rows)>>

\* The share of the planted decoys that was found.
AdversarialScore(canary, hidden) ==
    LET score == IF canary.kept THEN <<canary.found, canary.planted>> ELSE Unknown
    IN IF hidden THEN NeverHigh(score) ELSE score

\* The modules whose part is missing: of each, its last run.
Limits(runs) ==
    {m \in {runs[i].module : i \in DOMAIN runs} :
        ~runs[CHOOSE i \in DOMAIN runs : /\ runs[i].module = m
                                         /\ \A j \in DOMAIN runs : runs[j].module = m => j <= i].ok}

\* No finding, from an auditor that missed what was planted.
UnreliableClean(rows, canary) ==
    rows = <<>> /\ canary.kept /\ canary.found < canary.planted

=============================================================================
