\* One runner per owner; the server runs the other owners' audits.
SPECIFICATION Spec
CONSTANTS
    c1 = c1
    c2 = c2
    ann = ann
    bob = bob
    web = web
    r1 = r1
    r2 = r2
    k1 = k1
    k2 = k2
    MaxAudits = 2
    Commits = {c1, c2}
    NoCommit = NoCommit
    Owners = {ann, bob, web}
    NoOwner = NoOwner
    Triggers <- ExclusiveTriggers
    Runners = {r1, r2}
    Serves <- ExclusiveServes
    Choices <- ExclusiveChoices
    Checks = {k1, k2}
    Overrun = FALSE
INVARIANTS TypeOK Handover SessionsCurrent OneParty DoneIsWhole CheckedAtItsCommit
PROPERTIES DoneIsFinal ImplementsAuditJob
