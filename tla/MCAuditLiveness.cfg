\* Two runners race for one audit; fair scheduling.
SPECIFICATION FairSpec
CONSTANTS
    c1 = c1
    c2 = c2
    ann = ann
    bob = bob
    web = web
    r1 = r1
    r2 = r2
    k1 = k1
    k2 = k2
    MaxAudits = 1
    Commits = {c1, c2}
    NoCommit = NoCommit
    Owners = {bob, web}
    NoOwner = NoOwner
    Triggers <- SharedTriggers
    Runners = {r1, r2}
    Serves <- SharedServes
    Choices <- SharedChoices
    Checks = {k1, k2}
    Overrun = FALSE
INVARIANTS NotStranded
PROPERTIES AuditsSettle
