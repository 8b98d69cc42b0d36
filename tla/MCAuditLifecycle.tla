-------------------------- MODULE MCAuditLifecycle --------------------------
(***************************************************************************)
(* Small instances of AuditLifecycle.                                      *)
(***************************************************************************)
EXTENDS AuditLifecycle, TLC

CONSTANTS c1, c2,          \* commits
          ann, bob, web,   \* an admin, a user, and the owner of webhook audits
          r1, r2,          \* runner processes
          k1, k2           \* verification slots

Manual(o) == [owner |-> o, commit |-> NoCommit, pinned |-> NoCommit]
Push(c) == [owner |-> web, commit |-> c, pinned |-> NoCommit]
PullRequest(c) == [owner |-> web, commit |-> c, pinned |-> c]
Replay(o, c) == [owner |-> o, commit |-> NoCommit, pinned |-> c]

\* The admin's runner takes the webhooks' audits too, ann has a runner of her
\* own, and bob's audits run on the server.
ExclusiveTriggers ==
    {Push(c1), PullRequest(c1), Manual(ann), Replay(ann, c1), Manual(bob), Replay(bob, c1)}
ExclusiveServes == (r1 :> {web} @@ r2 :> {ann})
ExclusiveChoices ==
    [o \in {ann, bob, web} |-> IF o = bob THEN {"server"} ELSE {RunnerBackend}]

\* Two runner processes of the account that takes the webhooks' audits.
SharedTriggers == {Push(c1), PullRequest(c1), Manual(bob)}
SharedServes == [r \in {r1, r2} |-> {web}]
SharedChoices == [o \in {bob, web} |-> IF o = bob THEN {"server"} ELSE {RunnerBackend}]

CommitSymmetry == Permutations({c1, c2})

=============================================================================
