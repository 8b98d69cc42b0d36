\* Clones of two commits: a finding on another branch, or beyond the edge.
SPECIFICATION Spec
CONSTANTS
    f = f
    Flaws = {f}
    SafeVersions = {"safe", "other"}
    Verdicts = {"evidenced"}
    Patterns <- LoosePatterns
    Names = {n}
    NoFinding = NoFinding
    MaxAudits = 3
    MaxWorking = 2
    MaxCommits = 3
    HistoryDepth = 2
INVARIANT FixRemovedIt
CHECK_DEADLOCK FALSE
