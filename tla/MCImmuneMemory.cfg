\* Three audits of one project, at most two at once, about one place; clones that
\* hold the whole history.
SPECIFICATION Spec
CONSTANTS
    f = f
    Flaws = {f}
    SafeVersions = {"safe", "other"}
    Verdicts = {"evidenced"}
    Patterns <- LoosePatterns
    Names = {n}
    NoFinding = NoFinding
    MaxAudits = 3
    MaxWorking = 2
    MaxCommits = 3
    HistoryDepth = 3
INVARIANTS TypeOK FixIsReal FixesRecorded RulesCatchTheFlaw OriginsWereFixed RegressionsReported
CHECK_DEADLOCK FALSE
