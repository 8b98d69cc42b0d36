------------------------ MODULE AuditLifecycleProofs ------------------------
(***************************************************************************)
(* Proofs about AuditLifecycle.  Where the parties cannot meet             *)
(* (Exclusive), the invariant Handover holds for every number of audits,   *)
(* owners, runners and commits, and with it what the service promises of   *)
(* an audit, which leads the life that AuditJob promises.                  *)
(*                                                                         *)
(* The argument has one lemma per action.  Each first says what the action *)
(* does to the one row and the one party it concerns, in terms that no     *)
(* longer mention sessions: a session that is current writes exactly what  *)
(* its handler assigned (CommitCurrent).  The parts of Handover then follow*)
(* from those facts.                                                       *)
(***************************************************************************)
EXTENDS AuditLifecycle, TLAPS

-----------------------------------------------------------------------------
(***************************************************************************)
(* Rows                                                                    *)
(***************************************************************************)

\* A commit leaves a row, whatever the session had seen of it.
LEMMA FlushType ==
    ASSUME NEW now \in Row, NEW seen \in Row, NEW want \in Want
    PROVE  Flush(now, seen, want) \in Row
BY DEF Flush, Column, ClaimColumn, Row, Want, Claims

\* What the handlers assign fits the columns.
LEMMA AssignedType ==
    ASSUME NEW seen \in Row, NEW c \in Commits \cup {NoCommit}
    PROVE  /\ Running(seen, c) \in Row
           /\ Failed(seen) \in Row
           /\ Stored(seen) \in Row
           /\ Unclaimed(seen) \in Row
           /\ Claimed(seen) \in Want
           /\ Reported(seen, c) \in Want
           /\ ReportedFailure(seen, c) \in Want
           /\ Interrupted(seen) \in Row
BY DEF Running, Failed, Stored, Unclaimed, Claimed, Reported, ReportedFailure,
       Interrupted, Row, Want, Claims, Statuses

\* A row as read can be written back.
LEMMA RowIsWant == Row \subseteq Want
BY DEF Row, Want

\* The null records are of the types they stand in for.
LEMMA NoneType ==
    /\ NoRow \in Row
    /\ [NoRow EXCEPT !.status = "deleted"] \in Row
    /\ NoWorker \in Worker
    /\ IdleRunner \in Runner
    /\ StoppedRunner \in Runner
    /\ NoRequest \in Request
    /\ NoCheck \in Check
BY RowIsWant DEF NoRow, Row, Want, NoWorker, Worker, IdleRunner, StoppedRunner, Runner,
       NoRequest, Request, NoCheck, Check, Statuses, Claims

\* A checkout comes out at a commit.
LEMMA CheckoutsType ==
    ASSUME NEW row \in Row
    PROVE  Checkouts(row) \subseteq Commits
BY DEF Checkouts, Row

-----------------------------------------------------------------------------
(***************************************************************************)
(* Type correctness                                                        *)
(***************************************************************************)

\* A commit, or a task that vanishes, leaves a table of rows.
LEMMA CommitType ==
    ASSUME TypeOK, NEW a \in Audits, NEW row \in Row, CommitOrVanish(a, row)
    PROVE  audit' \in [Audits -> Row]
BY DEF CommitOrVanish, TypeOK

\* Storing one more result leaves sequences of results.
LEMMA AppendType ==
    ASSUME TypeOK, NEW a, NEW x \in Result
    PROVE  [stored EXCEPT ![a] = Append(@, x)] \in [Audits -> Seq(Result)]
<1>1. ASSUME a \in Audits PROVE Append(stored[a], x) \in Seq(Result)
    BY <1>1 DEF TypeOK
<1> QED BY <1>1 DEF TypeOK

\* What the tasks and requests that are under way work on, and have seen.
LEMMA PartType ==
    ASSUME TypeOK
    PROVE  /\ \A a \in Audits : worker[a].seen \in Row /\ audit[a] \in Row
           /\ \A r \in Runners :
                 /\ runner[r].pc \in {"waiting", "working"} => runner[r].job \in Audits
                 /\ request[r].kind # "none" =>
                       /\ request[r].job \in Audits
                       /\ request[r].seen \in Row
                       /\ request[r].want \in Want
                       /\ request[r].at \in Commits \cup {NoCommit}
           /\ \A k \in Checks :
                 check[k].pc # "none" =>
                       /\ check[k].job \in Audits
                       /\ check[k].seen \in Row
                       /\ check[k].audited \in Commits \cup {NoCommit}
BY NoneType DEF TypeOK, Worker, Runner, Request, Check, NoWorker, IdleRunner,
       StoppedRunner, NoRequest, NoCheck

\* A party's commit leaves a row of the table's shape.
LEMMA FlushPartType ==
    ASSUME TypeOK, NEW a \in Audits, NEW seen \in Row, NEW want \in Want
    PROVE  Flush(audit[a], seen, want) \in Row
BY FlushType DEF TypeOK

\* The first state is well typed.
LEMMA InitType == Init => TypeOK
<1> SUFFICES ASSUME Init PROVE TypeOK
    OBVIOUS
<1>1. <<>> \in Seq(Result)
    OBVIOUS
<1> QED BY <1>1, NoneType DEF Init, TypeOK

\* One step per action; only the parts of the state that it changes matter.
LEMMA NextType == TypeOK /\ [Next]_vars => TypeOK'
<1> SUFFICES ASSUME TypeOK, [Next]_vars PROVE TypeOK'
    OBVIOUS
<1> USE PartType, NoneType, AssignedType, RowIsWant
<1>1. ASSUME NEW a \in Audits, NEW t \in Triggers, Queue(a, t) PROVE TypeOK'
    <2>1. [status |-> "pending", error |-> FALSE, claim |-> "none",
           commit |-> t.commit, owner |-> t.owner, pinned |-> t.pinned] \in Row
        BY TriggerAssumption DEF Row, Statuses, Claims
    <2>2. [pc |-> "queued", seen |-> NoRow] \in Worker
        BY DEF Worker
    <2> QED BY <1>1, <2>1, <2>2 DEF Queue, TypeOK
<1>2. ASSUME NEW o \in Owners, PutSettings(o) PROVE TypeOK'
    BY <1>2, ChoicesAssumption DEF PutSettings, TypeOK
<1>3. ASSUME NEW a \in Audits, Delete(a) PROVE TypeOK'
    <2>1. <<>> \in Seq(Result)
        OBVIOUS
    <2> QED BY <1>3, <2>1 DEF Delete, TypeOK
<1>4. ASSUME NEW a \in Audits, WorkerStep(a) PROVE TypeOK'
    <2>1. CASE WorkerBegin(a)
        <3>1. audit' \in [Audits -> Row]
            BY <2>1, CommitType DEF WorkerBegin, TypeOK
        <3>2. [pc |-> "clone", seen |-> audit[a]] \in Worker
            BY DEF Worker
        <3>3. worker' \in [Audits -> Worker]
            BY <2>1, <3>2 DEF WorkerBegin, WorkerEnds, TypeOK
        <3> QED BY <2>1, <3>1, <3>3 DEF WorkerBegin, TypeOK
    <2>2. CASE WorkerClone(a)
        <3>1. PICK c \in Checkouts(worker[a].seen) :
                 /\ CommitOrVanish(a, Flush(audit[a], worker[a].seen,
                                            Running(worker[a].seen, c)))
                 /\ worker' = [worker EXCEPT ![a] =
                       IF Exists(audit[a])
                       THEN [pc |-> "audit", seen |-> Running(worker[a].seen, c)]
                       ELSE NoWorker]
            BY <2>2 DEF WorkerClone
        <3>2. c \in Commits \cup {NoCommit}
            BY CheckoutsType
        <3>3. Running(worker[a].seen, c) \in Row
            BY <3>2
        <3>4. audit' \in [Audits -> Row]
            BY <3>1, <3>3, FlushPartType, CommitType
        <3>5. [pc |-> "audit", seen |-> Running(worker[a].seen, c)] \in Worker
            BY <3>3 DEF Worker
        <3>6. worker' \in [Audits -> Worker]
            BY <3>1, <3>5 DEF TypeOK
        <3> QED BY <2>2, <3>4, <3>6 DEF WorkerClone, TypeOK
    <2>3. CASE WorkerStore(a)
        <3>1. audit' \in [Audits -> Row]
            BY <2>3, FlushPartType, CommitType DEF WorkerStore
        <3>2. [audited |-> worker[a].seen.commit, checked |-> worker[a].seen.commit]
                 \in Result
            BY DEF Row, Result
        <3>3. stored' \in [Audits -> Seq(Result)]
            BY <2>3, <3>2, AppendType DEF WorkerStore, TypeOK
        <3> QED BY <2>3, <3>1, <3>3 DEF WorkerStore, WorkerEnds, TypeOK
    <2>4. CASE WorkerFail(a)
        <3>1. audit' \in [Audits -> Row]
            BY <2>4, FlushPartType, CommitType DEF WorkerFail
        <3> QED BY <2>4, <3>1 DEF WorkerFail, WorkerEnds, TypeOK
    <2>5. CASE WorkerCrash(a)
        <3>1. audit' \in [Audits -> Row]
            BY <2>5, CommitType DEF WorkerCrash
        <3> QED BY <2>5, <3>1 DEF WorkerCrash, WorkerEnds, TypeOK
    <2> QED BY <1>4, <2>1, <2>2, <2>3, <2>4, <2>5 DEF WorkerStep
<1>5. ASSUME NEW a \in Audits, ClaimTimeout(a) PROVE TypeOK'
    <2>1. [audit[a] EXCEPT !.claim = "stale"] \in Row
        BY DEF Row, Claims
    <2> QED BY <1>5, <2>1 DEF ClaimTimeout, TypeOK
<1>6. ASSUME NEW r \in Runners, RunnerStep(r) PROVE TypeOK'
    <2>1. CASE ClaimSelect(r)
        <3>1. PICK a \in Audits :
                 /\ request' = [request EXCEPT ![r] =
                       [kind |-> "claim", job |-> a, seen |-> audit[a],
                        want |-> Claimed(audit[a]), at |-> NoCommit]]
                 /\ runner' = [runner EXCEPT ![r] = [pc |-> "waiting", job |-> a]]
            BY <2>1 DEF ClaimSelect, Candidates
        <3>2. [kind |-> "claim", job |-> a, seen |-> audit[a],
               want |-> Claimed(audit[a]), at |-> NoCommit] \in Request
            BY DEF Request
        <3>3. [pc |-> "waiting", job |-> a] \in Runner
            BY DEF Runner
        <3> QED BY <2>1, <3>1, <3>2, <3>3 DEF ClaimSelect, TypeOK
    <2>2. CASE ResultRead(r)
        <3> DEFINE a == runner[r].job
                   row == audit[a]
        <3>1. a \in Audits /\ row \in Row
            BY <2>2 DEF ResultRead
        <3>2. CASE ~ Exists(row) \/ row.claim = "none"
            BY <2>2, <3>2 DEF ResultRead, TypeOK
        <3>3. CASE ~ (~ Exists(row) \/ row.claim = "none")
            <4>1. [pc |-> "waiting", job |-> a] \in Runner
                BY <3>1 DEF Runner
            <4>2. \A c \in Checkouts(row) \cup {NoCommit} :
                     /\ [kind |-> "result", job |-> a, seen |-> row,
                         want |-> Reported(row, c), at |-> c] \in Request
                     /\ [kind |-> "failure", job |-> a, seen |-> row,
                         want |-> ReportedFailure(row, c), at |-> c] \in Request
                <5> TAKE c \in Checkouts(row) \cup {NoCommit}
                <5>1. c \in Commits \cup {NoCommit}
                    BY <3>1, CheckoutsType
                <5>2. Reported(row, c) \in Want /\ ReportedFailure(row, c) \in Want
                    BY <3>1, <5>1
                <5> QED BY <3>1, <5>1, <5>2 DEF Request
            <4>3. PICK q \in Request : request' = [request EXCEPT ![r] = q]
                <5>1. CASE \E c \in Checkouts(row) :
                              request' = [request EXCEPT ![r] =
                                 [kind |-> "result", job |-> a, seen |-> row,
                                  want |-> Reported(row, c), at |-> c]]
                    BY <4>2, <5>1
                <5>2. CASE \E c \in Checkouts(row) \cup {NoCommit} :
                              request' = [request EXCEPT ![r] =
                                 [kind |-> "failure", job |-> a, seen |-> row,
                                  want |-> ReportedFailure(row, c), at |-> c]]
                    BY <4>2, <5>2
                <5> QED BY <2>2, <3>3, <5>1, <5>2 DEF ResultRead
            <4> QED BY <2>2, <3>3, <4>1, <4>3 DEF ResultRead, TypeOK
        <3> QED BY <3>2, <3>3
    <2>3. CASE RunnerCannotConnect(r)
        BY <2>3 DEF RunnerCannotConnect, TypeOK
    <2> QED BY <1>6, <2>1, <2>2, <2>3 DEF RunnerStep
<1>7. ASSUME NEW r \in Runners, RequestStep(r) PROVE TypeOK'
    <2> DEFINE q == request[r]
    <2>1. /\ q.kind # "none"
          /\ CommitOrVanish(q.job, Flush(audit[q.job], q.seen, q.want))
          /\ request' = [request EXCEPT ![r] = NoRequest]
          /\ UNCHANGED <<stored, worker, up, backend>>
        BY <1>7 DEF RequestStep, ClaimCommit, ResultCommit, FailureCommit
    <2>2. q.job \in Audits /\ audit[q.job] \in Row /\ q.seen \in Row /\ q.want \in Want
        BY <2>1
    <2>3. audit' \in [Audits -> Row]
        BY <2>1, <2>2, FlushType, CommitType
    <2>4. \A s \in Runner : Answer(r, s) => runner' \in [Runners -> Runner]
        BY DEF Answer, TypeOK
    <2>5. [pc |-> "working", job |-> q.job] \in Runner
        BY <2>2 DEF Runner
    <2>6. runner' \in [Runners -> Runner]
        BY <1>7, <2>4, <2>5 DEF RequestStep, ClaimCommit, ResultCommit, FailureCommit
    <2>7. [pc |-> "scheduled", job |-> q.job, audited |-> q.at, seen |-> NoRow] \in Check
        BY <2>1, <2>2 DEF Check
    <2>8. check' \in [Checks -> Check]
        BY <1>7, <2>7 DEF RequestStep, ClaimCommit, ResultCommit, FailureCommit, TypeOK
    <2> QED BY <2>1, <2>3, <2>6, <2>8 DEF TypeOK
<1>8. ASSUME NEW r \in Runners, RunnerDies(r) PROVE TypeOK'
    BY <1>8 DEF RunnerDies, TypeOK
<1>9. ASSUME NEW k \in Checks, CheckStep(k) PROVE TypeOK'
    <2> DEFINE a == check[k].job
               seen == check[k].seen
    <2>1. /\ check[k].pc # "none"
          /\ UNCHANGED <<worker, runner, request, up, backend>>
        BY <1>9 DEF CheckStep, CheckBegin, CheckStore, CheckFail
    <2>2. a \in Audits /\ audit[a] \in Row /\ seen \in Row
        BY <2>1
    <2>3. CASE CheckBegin(k)
        <3>1. [check[k] EXCEPT !.pc = "checking", !.seen = audit[a]] \in Check
            <4>1. check[k] \in [pc : {"scheduled", "checking"}, job : Audits,
                                audited : Commits \cup {NoCommit}, seen : Row]
                BY <2>1 DEF TypeOK, Check, NoCheck
            <4> QED BY <2>2, <4>1 DEF Check
        <3> QED BY <2>1, <2>3, <3>1 DEF CheckBegin, CheckEnds, TypeOK
    <2>4. CASE CheckStore(k)
        <3>1. Unclaimed(Stored(seen)) \in Want
            BY <2>2
        <3>2. audit' \in [Audits -> Row]
            BY <2>2, <2>4, <3>1, FlushType, CommitType DEF CheckStore
        <3>3. \A c \in {seen.commit, NoCommit} :
                 [audited |-> check[k].audited, checked |-> c] \in Result
            BY <2>1, <2>2 DEF Row, Result
        <3>4. stored' \in [Audits -> Seq(Result)]
            BY <2>4, <3>3, AppendType DEF CheckStore, TypeOK
        <3> QED BY <2>1, <2>4, <3>2, <3>4 DEF CheckStore, CheckEnds, TypeOK
    <2>5. CASE CheckFail(k)
        <3>1. audit' \in [Audits -> Row]
            BY <2>2, <2>5, CommitType DEF CheckFail
        <3> QED BY <2>1, <2>5, <3>1 DEF CheckFail, CheckEnds, TypeOK
    <2> QED BY <1>9, <2>3, <2>4, <2>5 DEF CheckStep
<1>10. CASE ServerStop
    BY <1>10 DEF ServerStop, TypeOK
<1>11. CASE ServerStart
    BY <1>11 DEF ServerStart, TypeOK
<1>12. CASE UNCHANGED vars
    BY <1>12 DEF vars, TypeOK
<1> QED BY <1>1, <1>2, <1>3, <1>4, <1>5, <1>6, <1>7, <1>8, <1>9, <1>10, <1>11, <1>12
        DEF Next

\* Every reachable state is well typed: whatever order the parties' commits
\* come in, the column-wise writes leave rows of the table's shape.
THEOREM TypeCorrect == Spec => []TypeOK
BY InitType, NextType, PTL DEF Spec

-----------------------------------------------------------------------------
(***************************************************************************)
(* Lemmas about rows, sessions and results                                 *)
(***************************************************************************)

\* A session that has seen what the row holds writes what it wants.
LEMMA CommitCurrent ==
    ASSUME TypeOK, NEW a \in Audits, NEW seen \in Row, NEW want \in Want,
           Exists(audit[a]) => seen = audit[a],
           want.owner = seen.owner, want.pinned = seen.pinned,
           CommitOrVanish(a, Flush(audit[a], seen, want))
    PROVE  /\ \A b \in Audits : b # a => audit'[b] = audit[b]
           /\ ~ Exists(audit[a]) => audit'[a] = audit[a]
           /\ Exists(audit[a]) =>
                 /\ audit'[a].status = want.status
                 /\ audit'[a].error = want.error
                 /\ audit'[a].claim = IF want.claim = "now" THEN "fresh" ELSE want.claim
                 /\ audit'[a].commit = want.commit
                 /\ audit'[a].owner = audit[a].owner
                 /\ audit'[a].pinned = audit[a].pinned
BY DEF CommitOrVanish, Flush, Column, ClaimColumn, TypeOK, Row, Want

\* A row written over after a rollback.
LEMMA CommitOver ==
    ASSUME TypeOK, NEW a \in Audits, NEW row \in Row, CommitOrVanish(a, row)
    PROVE  /\ \A b \in Audits : b # a => audit'[b] = audit[b]
           /\ ~ Exists(audit[a]) => audit'[a] = audit[a]
           /\ Exists(audit[a]) => audit'[a] = row
BY DEF CommitOrVanish, TypeOK

\* What a recorded failure changes of a row, and what it keeps.
LEMMA FailedRow ==
    ASSUME NEW row \in Row
    PROVE  /\ Failed(row).status = "error"
           /\ Failed(row).error = TRUE
           /\ Failed(row).claim = row.claim
           /\ Failed(row).commit = row.commit
           /\ Failed(row).owner = row.owner
           /\ Failed(row).pinned = row.pinned
BY DEF Failed, Row

\* What a row says of who may execute it, and of what can be checked out for
\* it, depends on columns that no commit changes.
LEMMA SameOwner ==
    ASSUME NEW row \in Row, NEW new \in Row,
           new.owner = row.owner, new.pinned = row.pinned
    PROVE  /\ ForRunners(new) = ForRunners(row)
           /\ \A r \in Runners : Sees(r, new) = Sees(r, row)
           /\ Checkouts(new) = Checkouts(row)
BY DEF ForRunners, Sees, Checkouts

\* The results stored with an audit are numbered from 1.
LEMMA StoredDomain ==
    ASSUME TypeOK
    PROVE  \A a \in Audits :
              Len(stored[a]) \in Nat /\ DOMAIN stored[a] = 1 .. Len(stored[a])
BY DEF TypeOK

\* The first result stored is the only one.
LEMMA FirstResult ==
    ASSUME NEW s \in Seq(Result), Len(s) = 0, NEW x \in Result
    PROVE  /\ Len(Append(s, x)) = 1
           /\ DOMAIN Append(s, x) = {1}
           /\ Append(s, x)[1] = x
OBVIOUS

-----------------------------------------------------------------------------
(***************************************************************************)
(* Lemmas about the parties                                                *)
(***************************************************************************)

\* Steps that change rows alone leave every party where it is.
LEMMA SameParties ==
    ASSUME UNCHANGED <<worker, runner, request, check>>
    PROVE  /\ \A a : AtWork(a)' = AtWork(a) /\ Checked(a)' = Checked(a)
           /\ \A r, a : Holds(r, a)' = Holds(r, a)
           /\ Exclusion => Exclusion'
BY DEF AtWork, Checked, Holds, Exclusion

\* The server's audits are in no runner's hands.
LEMMA ServerAlone ==
    ASSUME Exclusive, Handover, NEW a \in Audits, Exists(audit[a]),
           AtWork(a) \/ backend[audit[a].owner] # RunnerBackend
    PROVE  /\ ~ ForRunners(audit[a])
           /\ ~ Checked(a)
           /\ \A r \in Runners : ~ Holds(r, a)
           /\ audit[a].claim = "none"
<1> USE DEF Handover
<1>1. ~ ForRunners(audit[a])
    BY DEF Ownership, ForRunners, Sees, Exclusive
<1>2. ~ Checked(a) /\ \A r \in Runners : ~ Holds(r, a)
    BY <1>1 DEF Ownership, ForRunners
<1> QED BY <1>1, <1>2 DEF RowClaims

\* What a check or a runner's party excludes.
LEMMA CheckAlone ==
    ASSUME Handover, NEW k \in Checks, check[k].pc # "none"
    PROVE  LET a == check[k].job
           IN  /\ a \in Audits
               /\ ~ AtWork(a)
               /\ \A r \in Runners : ~ Holds(r, a)
               /\ \A l \in Checks : check[l].pc # "none" /\ check[l].job = a => l = k
               /\ Exists(audit[a]) =>
                     /\ ForRunners(audit[a])
                     /\ audit[a].claim = "fresh" /\ audit[a].status = "running"
                     /\ audit[a].commit = check[k].audited
                     /\ audit[a].commit \in Checkouts(audit[a])
<1> USE DEF Handover
<1>1. check[k].job \in Audits /\ Checked(check[k].job)
    BY PartType DEF Checked
<1> QED BY <1>1 DEF Exclusion, Ownership, CheckedClaims

\* A runner that has an audit has it alone, and may claim it.
LEMMA HolderAlone ==
    ASSUME Handover, NEW r \in Runners, NEW a \in Audits, Holds(r, a)
    PROVE  /\ ~ AtWork(a)
           /\ ~ Checked(a)
           /\ \A s \in Runners : Holds(s, a) => s = r
           /\ Exists(audit[a]) => Sees(r, audit[a]) /\ ForRunners(audit[a])
BY DEF Handover, Exclusion, Ownership, ForRunners

-----------------------------------------------------------------------------
(***************************************************************************)
(* The first state                                                         *)
(***************************************************************************)

\* The invariant holds when the service starts on an empty database.
LEMMA HandoverInit == Exclusive /\ Init => Handover
<1> SUFFICES ASSUME Exclusive, Init PROVE Handover
    OBVIOUS
<1> USE DEF Init, NoRow, Exists, AtWork, Checked, Holds, NoWorker, NoCheck, NoRequest,
            IdleRunner
<1>1. TypeOK
    BY InitType
<1>2. Ownership
    BY DEF Ownership
<1>3. Exclusion
    BY DEF Exclusion
<1>4. HeldClaims /\ CheckedClaims /\ RowClaims
    BY DEF HeldClaims, CheckedClaims, RowClaims
<1>5. Sessions
    BY DEF Sessions, SessionsCurrent
<1>6. Blank
    BY DEF Blank
<1>7. DoneIsWhole /\ CheckedAtItsCommit
    BY DEF DoneIsWhole, CheckedAtItsCommit
<1> QED BY <1>1, <1>2, <1>3, <1>4, <1>5, <1>6, <1>7 DEF Handover

-----------------------------------------------------------------------------
(***************************************************************************)
(* Queueing, settings, deletion, time, restarts                            *)
(***************************************************************************)

\* A queued audit is in nobody's hands yet.
LEMMA HandoverQueue ==
    ASSUME Exclusive, Handover, TypeOK', NEW a \in Audits, NEW t \in Triggers, Queue(a, t)
    PROVE  Handover'
<1>1. /\ \A b \in Audits : b # a => audit'[b] = audit[b] /\ worker'[b] = worker[b]
      /\ worker'[a].pc = "queued"
      /\ audit[a] = NoRow
      /\ audit'[a].status = "pending" /\ audit'[a].claim = "none"
      /\ audit'[a].owner = t.owner
      /\ UNCHANGED <<stored, runner, request, check, up, backend>>
      /\ up
    BY DEF Queue, Handover, TypeOK
<1>2. t.owner \in Owners
    BY TriggerAssumption
<1>3. \A b : Checked(b)' = Checked(b) /\ \A r : Holds(r, b)' = Holds(r, b)
    BY <1>1 DEF Checked, Holds
<1>4. \A b \in Audits : AtWork(b)' => AtWork(b) /\ b # a
    BY <1>1 DEF AtWork
<1>5. ~ Checked(a) /\ \A r \in Runners : ~ Holds(r, a)
    BY <1>1 DEF Handover, Blank, NoRow
<1>6. stored[a] \in Seq(Result) /\ Len(stored[a]) = 0 /\ DOMAIN stored[a] = {}
    BY <1>1, StoredDomain DEF Handover, DoneIsWhole, NoRow, TypeOK
<1> USE <1>1, <1>3, <1>4, <1>5
<1>10. Ownership'
    BY <1>2 DEF Handover, Ownership
<1>11. Exclusion'
    BY DEF Handover, Exclusion
<1>12. HeldClaims'
    BY DEF Handover, HeldClaims, Holds
<1>13. CheckedClaims'
    BY DEF Handover, CheckedClaims, Checked
<1>14. RowClaims'
    BY DEF Handover, RowClaims
<1>15. Sessions'
    BY DEF Handover, Sessions, SessionsCurrent, Holds, Checked
<1>16. Blank'
    BY DEF Handover, Blank
<1>17. DoneIsWhole'
    BY <1>6 DEF Handover, DoneIsWhole
<1>18. CheckedAtItsCommit'
    BY <1>6 DEF Handover, CheckedAtItsCommit
<1> QED BY <1>10, <1>11, <1>12, <1>13, <1>14, <1>15, <1>16, <1>17, <1>18 DEF Handover

\* A change of settings stays within what the owner may choose.
LEMMA HandoverPutSettings ==
    ASSUME Exclusive, Handover, TypeOK', NEW o \in Owners, PutSettings(o)
    PROVE  Handover'
<1>1. UNCHANGED <<audit, stored, worker, runner, request, check, up>>
    BY DEF PutSettings
<1>2. \A p \in Owners : backend'[p] \in Choices[p]
    BY DEF PutSettings, Handover, Ownership, TypeOK
<1>3. Ownership'
    BY <1>1, <1>2, SameParties DEF Handover, Ownership
<1>4. Exclusion'
    BY <1>1, SameParties DEF Handover
<1> QED
    BY <1>1, <1>3, <1>4
       DEF Handover, HeldClaims, CheckedClaims, RowClaims, Sessions, SessionsCurrent,
           Blank, Holds, Checked, DoneIsWhole, CheckedAtItsCommit

\* A deleted row leaves its parties with nothing to claim or commit.
LEMMA HandoverDelete ==
    ASSUME Exclusive, Handover, TypeOK', NEW a \in Audits, Delete(a)
    PROVE  Handover'
<1>1. /\ UNCHANGED <<worker, runner, request, check, up, backend>>
      /\ \A b \in Audits : b # a => audit'[b] = audit[b] /\ stored'[b] = stored[b]
      /\ audit'[a] = [NoRow EXCEPT !.status = "deleted"]
      /\ stored'[a] = <<>>
    BY DEF Delete, Handover, TypeOK
<1>2. ~ Exists(audit'[a]) /\ audit'[a].status = "deleted"
    BY <1>1 DEF Exists, NoRow
<1> USE <1>1, <1>2, SameParties
<1>10. Ownership'
    BY DEF Handover, Ownership
<1>11. Exclusion'
    BY DEF Handover
<1>12. HeldClaims'
    BY DEF Handover, HeldClaims
<1>13. CheckedClaims'
    BY DEF Handover, CheckedClaims
<1>14. RowClaims'
    BY DEF Handover, RowClaims
<1>15. Sessions'
    BY DEF Handover, Sessions, SessionsCurrent
<1>16. Blank'
    <2> SUFFICES ASSUME NEW b \in Audits
                 PROVE  /\ audit'[b].status = "none" =>
                              /\ audit'[b] = NoRow
                              /\ worker'[b].pc = "none"
                              /\ ~ Checked(b)'
                              /\ \A r \in Runners : ~ Holds(r, b)'
                        /\ audit'[b].status = "deleted" =>
                              audit'[b] = [NoRow EXCEPT !.status = "deleted"]
        BY Zenon DEF Blank
    <2>1. CASE b = a
        BY <2>1
    <2>2. CASE b # a
        BY <2>2 DEF Handover, Blank
    <2> QED BY <2>1, <2>2
<1>17. DoneIsWhole'
    <2>1. Len(stored'[a]) = 0
        OBVIOUS
    <2> QED BY <2>1 DEF Handover, DoneIsWhole
<1>18. CheckedAtItsCommit'
    BY DEF Handover, CheckedAtItsCommit
<1> QED BY <1>10, <1>11, <1>12, <1>13, <1>14, <1>15, <1>16, <1>17, <1>18 DEF Handover

\* An unattended claim belongs to nobody who is still at work.
LEMMA HandoverClaimTimeout ==
    ASSUME Exclusive, Handover, TypeOK', NEW a \in Audits, ClaimTimeout(a)
    PROVE  Handover'
<1>1. /\ UNCHANGED <<stored, worker, runner, request, check, up, backend>>
      /\ audit' = [audit EXCEPT ![a] = [audit[a] EXCEPT !.claim = "stale"]]
      /\ audit[a].claim = "fresh"
      /\ ~ Attended(a)
    BY DEF ClaimTimeout, Exclusive
<1>2. Exists(audit[a])
    BY <1>1 DEF Handover, Blank, NoRow, Exists
<1>3. audit[a].status # "done"
    BY <1>1 DEF Handover, DoneIsWhole
<1>4. ~ Checked(a) /\ \A r \in Runners : ~ Holds(r, a)
    BY <1>1 DEF Attended, Holds, Checked
<1>5. ForRunners(audit[a]) /\ ~ AtWork(a)
    BY <1>1, <1>2 DEF Handover, RowClaims, Ownership
<1>6. /\ \A b \in Audits : b # a => audit'[b] = audit[b]
      /\ audit'[a].status = audit[a].status
      /\ audit'[a].owner = audit[a].owner
      /\ audit'[a].claim = "stale"
      /\ audit'[a].commit = audit[a].commit
      /\ audit'[a].pinned = audit[a].pinned
    BY <1>1 DEF Handover, TypeOK, Row
<1>7. /\ Checkouts(audit'[a]) = Checkouts(audit[a])
      /\ ForRunners(audit'[a]) = ForRunners(audit[a])
    BY <1>6 DEF Checkouts, ForRunners, Sees
<1> USE <1>1, <1>2, <1>3, <1>4, <1>5, <1>6, <1>7, SameParties
<1>10. Ownership'
    BY DEF Handover, Ownership, Exists, Sees
<1>11. Exclusion'
    BY DEF Handover
<1>12. HeldClaims'
    BY DEF Handover, HeldClaims, Holds
<1>13. CheckedClaims'
    BY DEF Handover, CheckedClaims, Checked
<1>14. RowClaims'
    BY DEF Handover, RowClaims, AtWork, Exists
<1>15. Sessions'
    BY DEF Handover, Sessions, SessionsCurrent, Exists, Holds, Checked, AtWork
<1>16. Blank'
    BY DEF Handover, Blank, Exists
<1>17. DoneIsWhole'
    BY DEF Handover, DoneIsWhole
<1>18. CheckedAtItsCommit'
    BY DEF Handover, CheckedAtItsCommit
<1> QED BY <1>10, <1>11, <1>12, <1>13, <1>14, <1>15, <1>16, <1>17, <1>18 DEF Handover

\* A stop ends every party of the server; a runner at work goes on.
LEMMA HandoverServerStop ==
    ASSUME Exclusive, Handover, TypeOK', ServerStop
    PROVE  Handover'
<1>1. /\ UNCHANGED <<audit, stored, backend>>
      /\ ~ up'
      /\ \A a \in Audits : worker'[a].pc = "none"
      /\ \A r \in Runners : request'[r].kind = "none"
      /\ \A k \in Checks : check'[k].pc = "none"
      /\ \A r \in Runners : runner'[r].pc = "working" => runner'[r] = runner[r]
    BY DEF ServerStop, NoWorker, NoRequest, NoCheck, StoppedRunner
<1>2. \A a \in Audits : ~ AtWork(a)' /\ ~ Checked(a)'
    BY <1>1 DEF AtWork, Checked
<1>3. \A a \in Audits, r \in Runners : Holds(r, a)' => Holds(r, a)
    BY <1>1 DEF Holds
<1> USE <1>1, <1>2, <1>3
<1>10. Ownership'
    BY DEF Handover, Ownership
<1>11. Exclusion'
    BY DEF Handover, Exclusion
<1>12. HeldClaims' /\ CheckedClaims'
    BY DEF Handover, HeldClaims, CheckedClaims
<1>14. RowClaims'
    BY DEF Handover, RowClaims
<1>15. Sessions'
    BY DEF Handover, Sessions, SessionsCurrent
<1>16. Blank'
    BY DEF Handover, Blank
<1>17. DoneIsWhole' /\ CheckedAtItsCommit'
    BY DEF Handover, DoneIsWhole, CheckedAtItsCommit
<1> QED BY <1>10, <1>11, <1>12, <1>14, <1>15, <1>16, <1>17 DEF Handover

\* A start fails what was not finished, and keeps its claim.
LEMMA HandoverServerStart ==
    ASSUME Exclusive, Handover, TypeOK', ServerStart
    PROVE  Handover'
<1>1. /\ UNCHANGED <<stored, worker, runner, request, check, backend>>
      /\ \A a \in Audits : audit'[a] = Interrupted(audit[a])
      /\ ~ up
    BY DEF ServerStart
<1>2. /\ \A a \in Audits : worker[a].pc = "none"
      /\ \A r \in Runners : request[r].kind = "none"
      /\ \A k \in Checks : check[k].pc = "none"
    BY <1>1 DEF Handover, Ownership
<1>3. \A a \in Audits : ~ AtWork(a) /\ ~ Checked(a)
    BY <1>2 DEF AtWork, Checked
<1>4. \A a \in Audits :
         /\ audit'[a].status = IF audit[a].status \in {"pending", "running"}
                               THEN "error" ELSE audit[a].status
         /\ audit[a].status \notin {"pending", "running"} => audit'[a] = audit[a]
         /\ audit'[a].claim = audit[a].claim
         /\ audit'[a].commit = audit[a].commit
         /\ audit'[a].owner = audit[a].owner
         /\ audit'[a].pinned = audit[a].pinned
    <2> TAKE a \in Audits
    <2>1. audit[a] \in Row
        BY DEF Handover, TypeOK
    <2>2. CASE audit[a].status \in {"pending", "running"}
        BY <1>1, <2>1, <2>2, FailedRow DEF Interrupted
    <2>3. CASE audit[a].status \notin {"pending", "running"}
        BY <1>1, <2>3 DEF Interrupted
    <2> QED BY <2>2, <2>3
<1>5. \A a \in Audits : /\ Exists(audit'[a]) <=> Exists(audit[a])
                        /\ ForRunners(audit'[a]) = ForRunners(audit[a])
                        /\ \A r \in Runners : Sees(r, audit'[a]) = Sees(r, audit[a])
                        /\ Checkouts(audit'[a]) = Checkouts(audit[a])
    BY <1>4 DEF Exists, ForRunners, Sees, Checkouts
<1> USE <1>1, <1>2, <1>3, <1>4, <1>5, SameParties
<1>10. Ownership'
    BY DEF Handover, Ownership
<1>11. Exclusion'
    BY DEF Handover
<1>12. HeldClaims' /\ CheckedClaims'
    BY DEF Handover, HeldClaims, CheckedClaims, Held
<1>14. RowClaims'
    BY DEF Handover, RowClaims
<1>15. Sessions'
    BY DEF Handover, Sessions, SessionsCurrent
<1>16. Blank'
    BY DEF Handover, Blank
<1>17. DoneIsWhole'
    BY DEF Handover, DoneIsWhole
<1>18. CheckedAtItsCommit'
    BY DEF Handover, CheckedAtItsCommit
<1> QED BY <1>10, <1>11, <1>12, <1>14, <1>15, <1>16, <1>17, <1>18 DEF Handover

-----------------------------------------------------------------------------
(***************************************************************************)
(* The server's own execution                                              *)
(***************************************************************************)

\* The task leaves the audit to a runner, fails it, or goes on to the clone:
\* only the last puts it in the server's hands.
LEMMA HandoverWorkerBegin ==
    ASSUME Exclusive, Handover, TypeOK', NEW a \in Audits, WorkerBegin(a)
    PROVE  Handover'
<1>1. /\ UNCHANGED <<stored, runner, request, check, up, backend>>
      /\ worker[a].pc = "queued"
      /\ \A b \in Audits : b # a => worker'[b] = worker[b]
      /\ up
    BY DEF WorkerBegin, WorkerEnds, Handover, TypeOK
<1>2. \A b : Checked(b)' = Checked(b) /\ \A r : Holds(r, b)' = Holds(r, b)
    BY <1>1 DEF Checked, Holds
<1>3. Exists(audit[a]) /\ ~ ForRunners(audit[a]) => audit[a].status = "pending"
    BY <1>1 DEF Handover, RowClaims
<1>4. CASE ~ ServerRuns(a) /\ UNCHANGED audit /\ worker'[a].pc = "none"
    <2>1. \A b \in Audits : AtWork(b)' => AtWork(b) /\ b # a
        BY <1>1, <1>4 DEF AtWork
    <2>2. Ownership' /\ Exclusion'
        BY <1>1, <1>2, <1>4, <2>1 DEF Handover, Ownership, Exclusion
    <2>3. HeldClaims' /\ CheckedClaims' /\ Sessions'
        BY <1>1, <1>4 DEF Handover, HeldClaims, CheckedClaims, Sessions, SessionsCurrent
    <2>4. RowClaims'
        BY <1>1, <1>3, <1>4 DEF Handover, RowClaims
    <2>5. Blank' /\ DoneIsWhole' /\ CheckedAtItsCommit'
        BY <1>1, <1>2, <1>4 DEF Handover, Blank, DoneIsWhole, CheckedAtItsCommit
    <2> QED BY <2>2, <2>3, <2>4, <2>5 DEF Handover
<1>5. CASE ServerRuns(a) /\ CommitOrVanish(a, Failed(audit[a])) /\ worker'[a].pc = "none"
    <2>1. Exists(audit[a]) /\ audit[a] \in Row
        BY <1>5 DEF ServerRuns, Handover, TypeOK
    <2>2. /\ ~ ForRunners(audit[a]) /\ ~ Checked(a)
          /\ \A r \in Runners : ~ Holds(r, a)
          /\ audit[a].claim = "none" /\ audit[a].status = "pending"
        BY <1>3, <1>5, <2>1, ServerAlone DEF ServerRuns
    <2>3. /\ \A b \in Audits : b # a => audit'[b] = audit[b]
          /\ audit'[a].status = "error"
          /\ audit'[a].claim = "none"
          /\ audit'[a].owner = audit[a].owner
        <3>1. TypeOK /\ Failed(audit[a]) \in Row
            BY <2>1, AssignedType, NoneType DEF Handover, NoRow, Row
        <3>2. /\ \A b \in Audits : b # a => audit'[b] = audit[b]
              /\ audit'[a] = Failed(audit[a])
            BY <1>5, <2>1, <3>1, CommitOver
        <3> QED BY <2>1, <2>2, <3>2, FailedRow
    <2>4. ~ ForRunners(audit'[a])
        BY <2>2, <2>3 DEF ForRunners, Sees
    <2>5. \A b \in Audits : AtWork(b)' => AtWork(b) /\ b # a
        BY <1>1, <1>5 DEF AtWork
    <2>6. Len(stored[a]) = 0 /\ DOMAIN stored[a] = {}
        BY <2>2, StoredDomain DEF Handover, DoneIsWhole
    <2> USE <1>1, <1>2, <1>5, <2>1, <2>2, <2>3, <2>4, <2>5, <2>6
    <2>7. Ownership' /\ Exclusion'
        BY DEF Handover, Ownership, Exclusion
    <2>8. HeldClaims' /\ CheckedClaims'
        BY DEF Handover, HeldClaims, CheckedClaims, Holds, Checked
    <2>9. RowClaims'
        BY DEF Handover, RowClaims
    <2>10. Sessions'
        BY DEF Handover, Sessions, SessionsCurrent, Holds, Checked
    <2>11. Blank'
        BY DEF Handover, Blank
    <2>12. DoneIsWhole' /\ CheckedAtItsCommit'
        BY DEF Handover, DoneIsWhole, CheckedAtItsCommit
    <2> QED BY <2>7, <2>8, <2>9, <2>10, <2>11, <2>12 DEF Handover
<1>6. CASE /\ ServerRuns(a) /\ UNCHANGED audit
           /\ worker'[a] = [pc |-> "clone", seen |-> audit[a]]
    <2>1. Exists(audit[a])
        BY <1>6 DEF ServerRuns
    <2>2. /\ ~ ForRunners(audit[a]) /\ ~ Checked(a)
          /\ \A r \in Runners : ~ Holds(r, a)
          /\ audit[a].claim = "none" /\ audit[a].status = "pending"
        BY <1>3, <1>6, <2>1, ServerAlone DEF ServerRuns
    <2>3. \A b \in Audits : b # a => AtWork(b)' = AtWork(b)
        BY <1>1 DEF AtWork
    <2>4. worker'[a].pc = "clone" /\ worker'[a].seen = audit[a]
        BY <1>6
    <2> USE <1>1, <1>2, <1>6, <2>1, <2>2, <2>3, <2>4
    <2>5. Ownership' /\ Exclusion'
        BY DEF Handover, Ownership, Exclusion
    <2>6. HeldClaims' /\ CheckedClaims'
        BY DEF Handover, HeldClaims, CheckedClaims
    <2>7. RowClaims'
        BY DEF Handover, RowClaims
    <2>8. Sessions'
        BY DEF Handover, Sessions, SessionsCurrent
    <2>9. Blank'
        BY DEF Handover, Blank
    <2>10. DoneIsWhole' /\ CheckedAtItsCommit'
        BY DEF Handover, DoneIsWhole, CheckedAtItsCommit
    <2> QED BY <2>5, <2>6, <2>7, <2>8, <2>9, <2>10 DEF Handover
<1> QED BY <1>4, <1>5, <1>6 DEF WorkerBegin, WorkerEnds, NoWorker, Handover, TypeOK

\* The clone and every way in which the task ends change the row of an audit
\* that only the server executes.
LEMMA HandoverServerRow ==
    ASSUME Exclusive, Handover, TypeOK', NEW a \in Audits, AtWork(a),
           UNCHANGED <<runner, request, check, up, backend>>,
           \A b \in Audits : b # a =>
              audit'[b] = audit[b] /\ worker'[b] = worker[b] /\ stored'[b] = stored[b],
           Exists(audit[a]) =>
              /\ Exists(audit'[a])
              /\ audit'[a].claim = audit[a].claim
              /\ audit'[a].owner = audit[a].owner
              /\ \/ /\ audit'[a].status \in {"error", "done"}
                    /\ worker'[a].pc = "none"
                 \/ /\ audit'[a].status = "running"
                    /\ worker'[a].pc = "audit" /\ worker'[a].seen = audit'[a]
                    /\ audit'[a].commit \in Checkouts(audit'[a]),
           ~ Exists(audit[a]) => /\ audit'[a] = audit[a]
                                 /\ stored'[a] = stored[a]
                                 /\ worker'[a].pc = "none",
           DoneIsWhole', CheckedAtItsCommit'
    PROVE  Handover'
<1>1. ~ Checked(a) /\ \A r \in Runners : ~ Holds(r, a)
    BY DEF Handover, Exclusion
<1>2. Exists(audit[a]) => ~ ForRunners(audit[a]) /\ audit[a].claim = "none"
    BY ServerAlone
<1>3. Exists(audit[a]) => ~ ForRunners(audit'[a])
    BY <1>2 DEF ForRunners, Sees
<1>4. \A b : Checked(b)' = Checked(b) /\ \A r : Holds(r, b)' = Holds(r, b)
    BY DEF Checked, Holds
<1>5. \A b \in Audits : AtWork(b)' => AtWork(b)
    BY DEF AtWork
<1>6. audit[a].status # "none"
    BY DEF AtWork, Handover, Blank
<1> USE <1>1, <1>2, <1>3, <1>4, <1>5, <1>6
<1>10. Ownership'
    BY DEF Handover, Ownership, AtWork
<1>11. Exclusion'
    BY DEF Handover, Exclusion
<1>12. HeldClaims' /\ CheckedClaims'
    BY DEF Handover, HeldClaims, CheckedClaims, Holds, Checked
<1>13. RowClaims'
    BY DEF Handover, RowClaims
<1>14. Sessions'
    BY DEF Handover, Sessions, SessionsCurrent, Holds, Checked
<1>15. Blank'
    BY DEF Handover, Blank, Exists
<1> QED BY <1>10, <1>11, <1>12, <1>13, <1>14, <1>15 DEF Handover

\* The clone: the row names a commit that it may be checked out at.
LEMMA HandoverWorkerClone ==
    ASSUME Exclusive, Handover, TypeOK', NEW a \in Audits, WorkerClone(a)
    PROVE  Handover'
<1> DEFINE seen == worker[a].seen
<1>1. PICK c \in Checkouts(seen) :
         /\ CommitOrVanish(a, Flush(audit[a], seen, Running(seen, c)))
         /\ worker' = [worker EXCEPT ![a] =
               IF Exists(audit[a]) THEN [pc |-> "audit", seen |-> Running(seen, c)]
                                   ELSE NoWorker]
    BY DEF WorkerClone
<1>2. /\ UNCHANGED <<stored, runner, request, check, up, backend>>
      /\ worker[a].pc = "clone"
      /\ AtWork(a)
    BY DEF WorkerClone, AtWork
<1>3. TypeOK /\ seen \in Row /\ (Exists(audit[a]) => seen = audit[a])
    BY <1>2, PartType DEF Handover, Sessions, SessionsCurrent
<1>4. Running(seen, c) \in Row /\ Running(seen, c) \in Want
    BY <1>3, CheckoutsType, AssignedType, RowIsWant
<1>5. /\ Running(seen, c).status = "running"
      /\ Running(seen, c).commit = c
      /\ Running(seen, c).error = seen.error
      /\ Running(seen, c).claim = seen.claim
      /\ Running(seen, c).owner = seen.owner
      /\ Running(seen, c).pinned = seen.pinned
    BY <1>3 DEF Running, Row
<1>6. seen.claim # "now"
    BY <1>3 DEF Row, Claims
<1>7. /\ \A b \in Audits : b # a => audit'[b] = audit[b] /\ worker'[b] = worker[b]
      /\ ~ Exists(audit[a]) => (audit'[a] = audit[a] /\ worker'[a].pc = "none")
      /\ Exists(audit[a]) =>
            /\ audit'[a].status = "running"
            /\ audit'[a].error = audit[a].error
            /\ audit'[a].claim = audit[a].claim
            /\ audit'[a].commit = c
            /\ audit'[a].owner = audit[a].owner
            /\ audit'[a].pinned = audit[a].pinned
            /\ worker'[a].pc = "audit"
            /\ worker'[a].seen = Running(seen, c)
    <2>1. /\ \A b \in Audits : b # a => worker'[b] = worker[b]
          /\ ~ Exists(audit[a]) => worker'[a].pc = "none"
          /\ Exists(audit[a]) =>
                worker'[a].pc = "audit" /\ worker'[a].seen = Running(seen, c)
        BY <1>1, <1>3 DEF TypeOK, NoWorker
    <2> QED BY <1>1, <1>3, <1>4, <1>5, <1>6, <2>1, CommitCurrent
<1>8. audit'[a] \in Row /\ audit[a] \in Row
    BY <1>3 DEF TypeOK
<1>9. Exists(audit[a]) => /\ Exists(audit'[a])
                          /\ worker'[a].seen = audit'[a]
                          /\ audit'[a].commit \in Checkouts(audit'[a])
    <2> SUFFICES ASSUME Exists(audit[a])
                 PROVE  /\ Exists(audit'[a])
                        /\ worker'[a].seen = audit'[a]
                        /\ audit'[a].commit \in Checkouts(audit'[a])
        OBVIOUS
    <2>1. Exists(audit'[a])
        BY <1>7 DEF Exists
    <2>2. worker'[a].seen = audit'[a]
        BY <1>3, <1>4, <1>5, <1>7, <1>8 DEF Row
    <2>3. Checkouts(audit'[a]) = Checkouts(seen)
        BY <1>3, <1>7 DEF Checkouts
    <2> QED BY <1>7, <2>1, <2>2, <2>3
<1>10. Exists(audit[a]) => Len(stored[a]) = 0 /\ DOMAIN stored[a] = {}
    <2>1. Exists(audit[a]) => audit[a].status = "pending"
        BY <1>2, ServerAlone DEF Handover, RowClaims
    <2> QED BY <2>1, StoredDomain DEF Handover, DoneIsWhole
<1>11. DoneIsWhole' /\ CheckedAtItsCommit'
    BY <1>2, <1>7, <1>10 DEF Handover, DoneIsWhole, CheckedAtItsCommit
<1> QED BY <1>2, <1>3, <1>7, <1>9, <1>11, HandoverServerRow

\* A failure of the task, whether its session wrote it or wrote over the row,
\* leaves a row that failed and nothing stored.
LEMMA HandoverWorkerFails ==
    ASSUME Exclusive, Handover, TypeOK', NEW a \in Audits,
           WorkerFail(a) \/ WorkerCrash(a)
    PROVE  Handover'
<1>1. /\ UNCHANGED <<stored, runner, request, check, up, backend>>
      /\ AtWork(a)
      /\ \A b \in Audits : b # a => worker'[b] = worker[b]
      /\ worker'[a].pc = "none"
    BY DEF WorkerFail, WorkerCrash, WorkerEnds, NoWorker, AtWork, Handover, TypeOK
<1>2. TypeOK /\ worker[a].seen \in Row /\ audit[a] \in Row
    BY PartType DEF Handover
<1>3. Exists(audit[a]) => worker[a].seen = audit[a]
    BY <1>1 DEF Handover, Sessions, SessionsCurrent, AtWork
<1>4. \A row \in Row : Failed(row) \in Row /\ Failed(row) \in Want /\ row.claim # "now"
    <2> TAKE row \in Row
    <2>1. Failed(row) \in Row
        BY AssignedType, NoneType DEF NoRow, Row
    <2> QED BY <2>1, RowIsWant DEF Row, Claims
<1>5. /\ \A b \in Audits : b # a => audit'[b] = audit[b]
      /\ ~ Exists(audit[a]) => audit'[a] = audit[a]
      /\ Exists(audit[a]) =>
            /\ audit'[a].status = "error"
            /\ audit'[a].claim = audit[a].claim
            /\ audit'[a].owner = audit[a].owner
    <2>1. CASE WorkerFail(a)
        <3>1. CommitOrVanish(a, Flush(audit[a], worker[a].seen, Failed(worker[a].seen)))
            BY <2>1 DEF WorkerFail
        <3> DEFINE seen == worker[a].seen
                   want == Failed(seen)
        <3>2. /\ want \in Want
              /\ want.status = "error" /\ want.claim = seen.claim
              /\ want.owner = seen.owner /\ want.pinned = seen.pinned
              /\ seen.claim # "now"
            BY <1>2, <1>4, FailedRow
        <3>3. CommitOrVanish(a, Flush(audit[a], seen, want))
            BY <3>1
        <3> HIDE DEF want
        <3> QED BY <1>2, <1>3, <3>2, <3>3, CommitCurrent
    <2>2. CASE WorkerCrash(a)
        <3>1. CommitOrVanish(a, Failed(audit[a]))
            BY <2>2 DEF WorkerCrash
        <3> QED BY <1>2, <1>4, <3>1, FailedRow, CommitOver
    <2> QED BY <2>1, <2>2
<1>6. Exists(audit[a]) => Exists(audit'[a])
    BY <1>5 DEF Exists
<1>7. Exists(audit[a]) => (Len(stored[a]) = 0 /\ DOMAIN stored[a] = {})
    <2>1. Exists(audit[a]) => audit[a].status \in {"pending", "running"}
        BY <1>1, ServerAlone DEF Handover, RowClaims, AtWork
    <2> QED BY <1>2, <2>1, StoredDomain DEF Handover, DoneIsWhole
<1>8. DoneIsWhole' /\ CheckedAtItsCommit'
    BY <1>1, <1>5, <1>7 DEF Handover, DoneIsWhole, CheckedAtItsCommit
<1> QED BY <1>1, <1>5, <1>6, <1>8, HandoverServerRow

\* The result of the server's own execution is the first one stored.
LEMMA HandoverWorkerStore ==
    ASSUME Exclusive, Handover, TypeOK', NEW a \in Audits, WorkerStore(a)
    PROVE  Handover'
<1> DEFINE seen == worker[a].seen
           result == [audited |-> seen.commit, checked |-> seen.commit]
<1>1. /\ UNCHANGED <<runner, request, check, up, backend>>
      /\ worker[a].pc = "audit" /\ AtWork(a)
      /\ \A b \in Audits : b # a => worker'[b] = worker[b]
      /\ worker'[a].pc = "none"
      /\ CommitOrVanish(a, Flush(audit[a], seen, Stored(seen)))
      /\ stored' = IF Exists(audit[a]) THEN [stored EXCEPT ![a] = Append(@, result)]
                                       ELSE stored
    BY DEF WorkerStore, WorkerEnds, NoWorker, AtWork, Handover, TypeOK
<1>2. TypeOK /\ seen \in Row /\ audit[a] \in Row /\ (Exists(audit[a]) => seen = audit[a])
    BY <1>1, PartType DEF Handover, Sessions, SessionsCurrent
<1>3. Stored(seen) \in Want
    BY <1>2, AssignedType, NoneType, RowIsWant DEF NoRow, Row
<1>4. /\ Stored(seen).status = "done"
      /\ Stored(seen).error = FALSE
      /\ Stored(seen).commit = seen.commit
      /\ Stored(seen).claim = seen.claim /\ seen.claim # "now"
      /\ Stored(seen).owner = seen.owner
      /\ Stored(seen).pinned = seen.pinned
    BY <1>2 DEF Stored, Row, Claims
<1>5. /\ \A b \in Audits : b # a => audit'[b] = audit[b]
      /\ ~ Exists(audit[a]) => audit'[a] = audit[a]
      /\ Exists(audit[a]) =>
            /\ audit'[a].status = "done"
            /\ audit'[a].error = FALSE
            /\ audit'[a].claim = audit[a].claim
            /\ audit'[a].commit = audit[a].commit
            /\ audit'[a].owner = audit[a].owner
            /\ audit'[a].pinned = audit[a].pinned
    BY <1>1, <1>2, <1>3, <1>4, CommitCurrent
<1>6. Exists(audit[a]) => Exists(audit'[a])
    BY <1>5 DEF Exists
<1>7. Exists(audit[a]) => /\ audit[a].claim = "none"
                          /\ audit[a].status = "running"
                          /\ audit[a].commit \in Checkouts(audit[a])
    BY <1>1, ServerAlone DEF Handover, RowClaims
<1>8. /\ \A b \in Audits : b # a => stored'[b] = stored[b]
      /\ ~ Exists(audit[a]) => stored'[a] = stored[a]
      /\ Exists(audit[a]) => /\ Len(stored'[a]) = 1
                             /\ DOMAIN stored'[a] = {1}
                             /\ stored'[a][1] = result
    <2>1. Exists(audit[a]) => Len(stored[a]) = 0
        BY <1>7 DEF Handover, DoneIsWhole
    <2>2. stored[a] \in Seq(Result) /\ result \in Result
        BY <1>2 DEF TypeOK, Row, Result
    <2>3. Exists(audit[a]) => stored'[a] = Append(stored[a], result)
        BY <1>1, <1>2 DEF TypeOK
    <2> QED BY <1>1, <1>2, <2>1, <2>2, <2>3, FirstResult DEF TypeOK
<1>9. DoneIsWhole'
    BY <1>5, <1>7, <1>8 DEF Handover, DoneIsWhole
<1>10. CheckedAtItsCommit'
    <2>1. Exists(audit[a]) => Checkouts(audit'[a]) = Checkouts(audit[a])
        BY <1>5 DEF Checkouts
    <2>2. Exists(audit[a]) =>
             result.audited = audit'[a].commit /\ result.checked = audit'[a].commit
        BY <1>2, <1>5
    <2> QED BY <1>5, <1>7, <1>8, <2>1, <2>2 DEF Handover, CheckedAtItsCommit
<1> QED BY <1>1, <1>5, <1>6, <1>8, <1>9, <1>10, HandoverServerRow

-----------------------------------------------------------------------------
(***************************************************************************)
(* Runners                                                                 *)
(***************************************************************************)

\* Of two runners at most one sees an audit, and an audit that one of them
\* sees is not the server's.
LEMMA OneSees ==
    ASSUME Exclusive, Handover, NEW r \in Runners, NEW a \in Audits,
           Exists(audit[a]), Sees(r, audit[a])
    PROVE  /\ ForRunners(audit[a])
           /\ ~ AtWork(a)
           /\ \A s \in Runners : Holds(s, a) => s = r
<1>1. ForRunners(audit[a])
    BY DEF ForRunners
<1>2. \A s \in Runners : Holds(s, a) => Sees(s, audit[a])
    BY DEF Handover, Ownership
<1> QED BY <1>1, <1>2 DEF Handover, Ownership, Exclusive, Sees

\* What may be taken is in nobody's hands.
LEMMA HandoverClaimSelect ==
    ASSUME Exclusive, Handover, TypeOK', NEW r \in Runners, ClaimSelect(r)
    PROVE  Handover'
<1>1. PICK a \in Audits :
         /\ a \in Candidates(r)
         /\ request' = [request EXCEPT ![r] =
               [kind |-> "claim", job |-> a, seen |-> audit[a],
                want |-> Claimed(audit[a]), at |-> NoCommit]]
         /\ runner' = [runner EXCEPT ![r] = [pc |-> "waiting", job |-> a]]
    BY DEF ClaimSelect, Candidates
<1>2. /\ Exists(audit[a]) /\ Takeable(audit[a]) /\ Sees(r, audit[a])
    BY <1>1 DEF Candidates, Takeable, Exists
<1>3. /\ UNCHANGED <<audit, stored, worker, check, up, backend>>
      /\ up
      /\ runner[r].pc = "idle" /\ request[r].kind = "none"
      /\ \A s \in Runners : s # r => request'[s] = request[s] /\ runner'[s] = runner[s]
      /\ request'[r].kind = "claim" /\ request'[r].job = a
      /\ request'[r].seen = audit[a] /\ request'[r].want = Claimed(audit[a])
      /\ runner'[r].pc = "waiting"
    BY <1>1 DEF ClaimSelect, Handover, TypeOK
<1>4. ~ AtWork(a) /\ ForRunners(audit[a]) /\ \A s \in Runners : ~ Holds(s, a)
    BY <1>2, <1>3, OneSees DEF Holds
<1>5. ~ Checked(a)
    BY <1>2, CheckAlone DEF Checked, Takeable
<1>6. \A b : AtWork(b)' = AtWork(b) /\ Checked(b)' = Checked(b)
    BY <1>3 DEF AtWork, Checked
<1>7. \A s \in Runners, b \in Audits : Holds(s, b)' => Holds(s, b) \/ (s = r /\ b = a)
    BY <1>3 DEF Holds
<1> USE <1>2, <1>3, <1>4, <1>5, <1>6, <1>7
<1>10. Ownership'
    BY DEF Handover, Ownership
<1>11. Exclusion'
    BY DEF Handover, Exclusion
<1>12. HeldClaims'
    BY DEF Handover, HeldClaims
<1>13. CheckedClaims' /\ RowClaims'
    BY DEF Handover, CheckedClaims, RowClaims
<1>14. Sessions'
    BY DEF Handover, Sessions, SessionsCurrent
<1>15. Blank'
    BY DEF Handover, Blank, Exists
<1>16. DoneIsWhole' /\ CheckedAtItsCommit'
    BY DEF Handover, DoneIsWhole, CheckedAtItsCommit
<1> QED BY <1>10, <1>11, <1>12, <1>13, <1>14, <1>15, <1>16 DEF Handover

\* A runner that ends takes nothing with it but its own work; a request that
\* it had sent goes on.
LEMMA HandoverRunnerEnds ==
    ASSUME Exclusive, Handover, TypeOK', NEW r \in Runners,
           RunnerDies(r) \/ RunnerCannotConnect(r)
    PROVE  Handover'
<1>1. /\ UNCHANGED <<audit, stored, worker, request, check, up, backend>>
      /\ \A s \in Runners : runner'[s].pc = "working" => runner'[s] = runner[s]
    BY DEF RunnerDies, RunnerCannotConnect, StoppedRunner, Handover, TypeOK
<1>2. \A b : AtWork(b)' = AtWork(b) /\ Checked(b)' = Checked(b)
    BY <1>1 DEF AtWork, Checked
<1>3. \A s \in Runners : \A b : Holds(s, b)' => Holds(s, b)
    BY <1>1 DEF Holds
<1> USE <1>1, <1>2, <1>3
<1>10. Ownership'
    BY DEF Handover, Ownership
<1>11. Exclusion'
    BY DEF Handover, Exclusion
<1>12. HeldClaims'
    BY DEF Handover, HeldClaims
<1>13. CheckedClaims' /\ RowClaims'
    BY DEF Handover, CheckedClaims, RowClaims
<1>14. Sessions'
    BY DEF Handover, Sessions, SessionsCurrent
<1>15. Blank'
    BY DEF Handover, Blank
<1>16. DoneIsWhole' /\ CheckedAtItsCommit'
    BY DEF Handover, DoneIsWhole, CheckedAtItsCommit
<1> QED BY <1>10, <1>11, <1>12, <1>13, <1>14, <1>15, <1>16 DEF Handover

\* A result is read by the request of the runner that holds the audit.
LEMMA HandoverResultRead ==
    ASSUME Exclusive, Handover, TypeOK', NEW r \in Runners, ResultRead(r)
    PROVE  Handover'
<1> DEFINE a == runner[r].job
<1>1. /\ UNCHANGED <<audit, stored, worker, check, up, backend>>
      /\ up
      /\ runner[r].pc = "working" /\ request[r].kind = "none"
      /\ a \in Audits /\ Holds(r, a)
    BY PartType DEF ResultRead, Holds, Handover
<1>2. \A b : AtWork(b)' = AtWork(b) /\ Checked(b)' = Checked(b)
    BY <1>1 DEF AtWork, Checked
<1>3. CASE runner' = [runner EXCEPT ![r] = IdleRunner] /\ UNCHANGED request
    <2>1. \A s \in Runners : runner'[s].pc = "working" => runner'[s] = runner[s]
        BY <1>3 DEF IdleRunner, Handover, TypeOK
    <2>2. \A s \in Runners : \A b : Holds(s, b)' => Holds(s, b)
        BY <1>3, <2>1 DEF Holds
    <2> USE <1>1, <1>2, <1>3, <2>1, <2>2
    <2>3. Ownership' /\ Exclusion'
        BY DEF Handover, Ownership, Exclusion
    <2>4. HeldClaims'
        BY DEF Handover, HeldClaims
    <2>5. CheckedClaims' /\ RowClaims'
        BY DEF Handover, CheckedClaims, RowClaims
    <2>6. Sessions' /\ Blank'
        BY DEF Handover, Sessions, SessionsCurrent, Blank
    <2>7. DoneIsWhole' /\ CheckedAtItsCommit'
        BY DEF Handover, DoneIsWhole, CheckedAtItsCommit
    <2> QED BY <2>3, <2>4, <2>5, <2>6, <2>7 DEF Handover
<1>4. CASE /\ Exists(audit[a])
           /\ runner' = [runner EXCEPT ![r] = [pc |-> "waiting", job |-> a]]
           /\ \E kind \in {"result", "failure"}, c \in Commits \cup {NoCommit} :
                 /\ kind = "result" => c \in Checkouts(audit[a])
                 /\ request' = [request EXCEPT ![r] =
                       [kind |-> kind, job |-> a, seen |-> audit[a],
                        want |-> IF kind = "result" THEN Reported(audit[a], c)
                                                    ELSE ReportedFailure(audit[a], c),
                        at |-> c]]
    <2>1. /\ \A s \in Runners : s # r => request'[s] = request[s] /\ runner'[s] = runner[s]
          /\ request'[r].kind \in {"result", "failure"} /\ request'[r].job = a
          /\ request'[r].seen = audit[a]
          /\ request'[r].kind = "result" =>
                /\ request'[r].want = Reported(audit[a], request'[r].at)
                /\ request'[r].at \in Checkouts(audit[a])
          /\ request'[r].kind = "failure" =>
                request'[r].want = ReportedFailure(audit[a], request'[r].at)
          /\ runner'[r].pc = "waiting"
        BY <1>1, <1>4 DEF Handover, TypeOK
    <2>2. \A s \in Runners, b \in Audits : Holds(s, b)' => Holds(s, b)
        BY <1>1, <2>1 DEF Holds
    <2>3. Held(audit[a])
        BY <1>1, <1>4 DEF Handover, HeldClaims
    <2> USE <1>1, <1>2, <1>4, <2>1, <2>2, <2>3
    <2>4. Ownership' /\ Exclusion'
        BY DEF Handover, Ownership, Exclusion
    <2>5. HeldClaims'
        BY DEF Handover, HeldClaims
    <2>6. CheckedClaims' /\ RowClaims'
        BY DEF Handover, CheckedClaims, RowClaims
    <2>7. Sessions'
        BY DEF Handover, Sessions, SessionsCurrent
    <2>8. Blank'
        BY DEF Handover, Blank
    <2>9. DoneIsWhole' /\ CheckedAtItsCommit'
        BY DEF Handover, DoneIsWhole, CheckedAtItsCommit
    <2> QED BY <2>4, <2>5, <2>6, <2>7, <2>8, <2>9 DEF Handover
<1>5. Checkouts(audit[a]) \subseteq Commits
    BY <1>1, PartType, CheckoutsType DEF Handover
<1> QED BY <1>1, <1>3, <1>4, <1>5 DEF ResultRead

\* What a request leaves behind when it commits: the audit passes from the
\* request to the runner (a claim), to a check (a result) or to nobody (a
\* failure, or an audit deleted meanwhile).
LEMMA HandoverRequestRow ==
    ASSUME Exclusive, Handover, TypeOK', NEW r \in Runners, NEW a \in Audits, Holds(r, a),
           UNCHANGED <<stored, worker, up, backend>>, up,
           \A b \in Audits : b # a => audit'[b] = audit[b],
           \A s \in Runners : s # r => request'[s] = request[s] /\ runner'[s] = runner[s],
           request'[r].kind = "none",
           ~ Exists(audit[a]) => audit'[a] = audit[a] /\ runner'[r].pc # "working",
           Exists(audit[a]) => /\ audit[a].status # "done"
                               /\ audit'[a].status \in {"running", "error"}
                               /\ audit'[a].status = "running" => audit'[a].claim # "none"
                               /\ audit'[a].owner = audit[a].owner
                               /\ audit'[a].pinned = audit[a].pinned,
           runner'[r].pc = "working" => runner'[r].job = a /\ Held(audit'[a]),
           \/ UNCHANGED check
           \/ /\ Exists(audit[a]) /\ runner'[r].pc # "working"
              /\ audit'[a].claim = "fresh" /\ audit'[a].status = "running"
              /\ \E k \in Checks, c \in Checkouts(audit[a]) :
                    /\ audit'[a].commit = c
                    /\ check[k].pc = "none"
                    /\ check' = [check EXCEPT ![k] =
                          [pc |-> "scheduled", job |-> a, audited |-> c, seen |-> NoRow]]
    PROVE  Handover'
<1>1. /\ ~ AtWork(a) /\ ~ Checked(a)
      /\ \A s \in Runners : Holds(s, a) => s = r
      /\ Exists(audit[a]) => Sees(r, audit[a]) /\ ForRunners(audit[a])
    BY HolderAlone
<1>2. audit[a] \in Row /\ audit'[a] \in Row
    BY PartType DEF Handover, TypeOK
<1>3. Exists(audit[a]) =>
         /\ ForRunners(audit'[a]) = ForRunners(audit[a])
         /\ \A s \in Runners : Sees(s, audit'[a]) = Sees(s, audit[a])
         /\ Checkouts(audit'[a]) = Checkouts(audit[a])
         /\ Exists(audit'[a])
    BY <1>2, SameOwner DEF Exists
<1>4. \A b : AtWork(b)' = AtWork(b)
    BY DEF AtWork
<1>5. \A s \in Runners, b \in Audits : Holds(s, b)' => Holds(s, b)
    BY DEF Holds
<1>6. Holds(r, a)' => runner'[r].pc = "working"
    BY DEF Holds
<1>7. Exists(audit[a]) => Len(stored[a]) = 0 /\ DOMAIN stored[a] = {}
    BY StoredDomain DEF Handover, DoneIsWhole
<1>8. \A k \in Checks : check'[k].pc # "none" =>
         \/ check'[k] = check[k]
         \/ /\ check'[k].job = a /\ check'[k].pc = "scheduled"
            /\ check'[k].audited = audit'[a].commit
            /\ Exists(audit[a]) /\ runner'[r].pc # "working"
            /\ audit'[a].claim = "fresh" /\ audit'[a].status = "running"
            /\ audit'[a].commit \in Checkouts(audit[a])
            /\ \A l \in Checks : l # k => check'[l] = check[l]
    BY DEF Handover, TypeOK
<1>9. \A b \in Audits : Checked(b)' => Checked(b) \/ (/\ b = a /\ Exists(audit[a])
                                                     /\ runner'[r].pc # "working")
    BY <1>8 DEF Checked
<1>10. Exclusion'
    <2>1. \A b \in Audits : AtWork(b)' =>
             ~ Checked(b)' /\ \A s \in Runners : ~ Holds(s, b)'
        BY <1>1, <1>4, <1>5, <1>9 DEF Handover, Exclusion
    <2>2. \A b \in Audits : Checked(b)' => \A s \in Runners : ~ Holds(s, b)'
        BY <1>1, <1>5, <1>6, <1>9 DEF Handover, Exclusion
    <2>3. \A b \in Audits : \A s, t \in Runners : Holds(s, b)' /\ Holds(t, b)' => s = t
        BY <1>5 DEF Handover, Exclusion
    <2>4. \A k, l \in Checks :
             check'[k].pc # "none" /\ check'[l].pc # "none" /\ check'[k].job = check'[l].job
                => k = l
        BY <1>1, <1>8 DEF Handover, Exclusion, Checked
    <2>5. \A s \in Runners : runner'[s].pc = "working" => request'[s].kind = "none"
        BY DEF Handover, Exclusion
    <2> QED BY <2>1, <2>2, <2>3, <2>4, <2>5 DEF Exclusion
<1>11. Ownership'
    BY <1>1, <1>3, <1>4, <1>5, <1>9 DEF Handover, Ownership
<1>12. HeldClaims'
    BY <1>1, <1>3, <1>5 DEF Handover, HeldClaims, Holds
<1>13. CheckedClaims'
    BY <1>1, <1>3, <1>8 DEF Handover, CheckedClaims, Checked
<1>14. RowClaims'
    BY <1>1, <1>3 DEF Handover, RowClaims
<1>15. Sessions'
    BY <1>1, <1>3, <1>8 DEF Handover, Sessions, SessionsCurrent, Holds, Checked, AtWork
<1>16. Blank'
    BY <1>1, <1>3, <1>5, <1>9 DEF Handover, Blank, Exists
<1>17. DoneIsWhole'
    BY <1>7 DEF Handover, DoneIsWhole
<1>18. CheckedAtItsCommit'
    BY <1>7 DEF Handover, CheckedAtItsCommit
<1> QED BY <1>10, <1>11, <1>12, <1>13, <1>14, <1>15, <1>16, <1>17, <1>18 DEF Handover

\* What every request knows when it commits.
LEMMA RequestCurrent ==
    ASSUME Handover, TypeOK', NEW r \in Runners, request[r].kind # "none",
           CommitOrVanish(request[r].job,
                          Flush(audit[request[r].job], request[r].seen, request[r].want))
    PROVE  LET q == request[r]
               a == q.job
           IN  /\ a \in Audits /\ Holds(r, a) /\ q.at \in Commits \cup {NoCommit}
               /\ q.seen \in Row
               /\ Exists(audit[a]) => q.seen = audit[a]
               /\ \A b \in Audits : b # a => audit'[b] = audit[b]
               /\ ~ Exists(audit[a]) => audit'[a] = audit[a]
               /\ Exists(audit[a]) =>
                     /\ audit'[a].status = q.want.status
                     /\ audit'[a].error = q.want.error
                     /\ audit'[a].claim =
                           IF q.want.claim = "now" THEN "fresh" ELSE q.want.claim
                     /\ audit'[a].commit = q.want.commit
                     /\ audit'[a].owner = audit[a].owner
                     /\ audit'[a].pinned = audit[a].pinned
<1> DEFINE q == request[r]
           a == q.job
<1>1. /\ TypeOK /\ a \in Audits /\ q.seen \in Row /\ q.want \in Want
      /\ q.at \in Commits \cup {NoCommit} /\ q.kind \in {"claim", "result", "failure"}
    BY PartType DEF Handover, TypeOK, Request, NoRequest
<1>2. Holds(r, a)
    BY DEF Holds
<1>3. Exists(audit[a]) => q.seen = audit[a]
    BY <1>1 DEF Handover, Sessions, SessionsCurrent
<1>4. q.want.owner = q.seen.owner /\ q.want.pinned = q.seen.pinned
    <2>1. \A c : /\ Reported(q.seen, c).owner = q.seen.owner
                 /\ Reported(q.seen, c).pinned = q.seen.pinned
                 /\ ReportedFailure(q.seen, c).owner = q.seen.owner
                 /\ ReportedFailure(q.seen, c).pinned = q.seen.pinned
        BY <1>1 DEF Reported, ReportedFailure, Claimed, Failed, Unclaimed, Row
    <2>2. Claimed(q.seen).owner = q.seen.owner /\ Claimed(q.seen).pinned = q.seen.pinned
        BY <1>1 DEF Claimed, Row
    <2> QED BY <1>1, <2>1, <2>2 DEF Handover, Sessions
<1> HIDE DEF q, a
<1>5. CommitOrVanish(a, Flush(audit[a], q.seen, q.want))
    BY DEF q, a
<1>6. /\ \A b \in Audits : b # a => audit'[b] = audit[b]
      /\ ~ Exists(audit[a]) => audit'[a] = audit[a]
      /\ Exists(audit[a]) =>
            /\ audit'[a].status = q.want.status
            /\ audit'[a].error = q.want.error
            /\ audit'[a].claim = IF q.want.claim = "now" THEN "fresh" ELSE q.want.claim
            /\ audit'[a].commit = q.want.commit
            /\ audit'[a].owner = audit[a].owner
            /\ audit'[a].pinned = audit[a].pinned
    BY <1>1, <1>3, <1>4, <1>5, CommitCurrent
<1> QED BY <1>1, <1>2, <1>3, <1>6 DEF q, a

\* The claim passes the audit to the runner that still waits for the answer.
LEMMA HandoverClaimCommit ==
    ASSUME Exclusive, Handover, TypeOK', NEW r \in Runners, ClaimCommit(r)
    PROVE  Handover'
<1> DEFINE q == request[r]
           a == q.job
<1>1. /\ UNCHANGED <<stored, worker, check, up, backend>> /\ up
      /\ q.kind = "claim"
      /\ CommitOrVanish(a, Flush(audit[a], q.seen, q.want))
      /\ Answer(r, IF Exists(audit[a]) THEN [pc |-> "working", job |-> a] ELSE IdleRunner)
      /\ request' = [request EXCEPT ![r] = NoRequest]
    BY DEF ClaimCommit
<1>2. /\ \A s \in Runners : s # r => request'[s] = request[s] /\ runner'[s] = runner[s]
      /\ request'[r].kind = "none"
      /\ ~ Exists(audit[a]) => runner'[r].pc # "working"
      /\ runner'[r].pc = "working" => runner'[r].job = a
    <2>1. runner[r].pc # "working"
        BY <1>1 DEF Handover, Exclusion
    <2> QED BY <1>1, <2>1 DEF Answer, IdleRunner, NoRequest, Handover, TypeOK
<1>3. /\ Holds(r, a) /\ a \in Audits /\ q.seen \in Row
      /\ \A b \in Audits : b # a => audit'[b] = audit[b]
      /\ ~ Exists(audit[a]) => audit'[a] = audit[a]
      /\ Exists(audit[a]) => /\ audit'[a].status = q.want.status
                             /\ audit'[a].claim = IF q.want.claim = "now"
                                                  THEN "fresh" ELSE q.want.claim
                             /\ audit'[a].owner = audit[a].owner
                             /\ audit'[a].pinned = audit[a].pinned
    BY <1>1, RequestCurrent
<1>4. q.want = Claimed(q.seen) /\ (Exists(audit[a]) => Takeable(audit[a]))
    BY <1>1, <1>3 DEF Handover, Sessions, HeldClaims
<1>5. q.want.status = "running" /\ q.want.claim = "now"
    BY <1>3, <1>4 DEF Claimed, Row
<1>6. Exists(audit[a]) => /\ audit'[a].status = "running" /\ audit'[a].claim = "fresh"
                          /\ audit[a].status # "done"
    BY <1>3, <1>4, <1>5 DEF Takeable
<1>7. runner'[r].pc = "working" => Held(audit'[a])
    BY <1>2, <1>6 DEF Held
<1> HIDE DEF q, a
<1> QED BY <1>1, <1>2, <1>3, <1>6, <1>7, HandoverRequestRow

\* A failure that a runner reports ends its audit and its claim.
LEMMA HandoverFailureCommit ==
    ASSUME Exclusive, Handover, TypeOK', NEW r \in Runners, FailureCommit(r)
    PROVE  Handover'
<1> DEFINE q == request[r]
           a == q.job
<1>1. /\ UNCHANGED <<stored, worker, check, up, backend>> /\ up
      /\ q.kind = "failure"
      /\ CommitOrVanish(a, Flush(audit[a], q.seen, q.want))
      /\ Answer(r, IdleRunner)
      /\ request' = [request EXCEPT ![r] = NoRequest]
    BY DEF FailureCommit
<1>2. /\ \A s \in Runners : s # r => request'[s] = request[s] /\ runner'[s] = runner[s]
      /\ request'[r].kind = "none"
      /\ runner'[r].pc # "working"
    <2>1. runner[r].pc # "working"
        BY <1>1 DEF Handover, Exclusion
    <2> QED BY <1>1, <2>1 DEF Answer, IdleRunner, NoRequest, Handover, TypeOK
<1>3. /\ Holds(r, a) /\ a \in Audits /\ q.seen \in Row
      /\ \A b \in Audits : b # a => audit'[b] = audit[b]
      /\ ~ Exists(audit[a]) => audit'[a] = audit[a]
      /\ Exists(audit[a]) => /\ audit'[a].status = q.want.status
                             /\ audit'[a].owner = audit[a].owner
                             /\ audit'[a].pinned = audit[a].pinned
    BY <1>1, RequestCurrent
<1>4. q.want = ReportedFailure(q.seen, q.at) /\ (Exists(audit[a]) => Held(audit[a]))
    BY <1>1, <1>3 DEF Handover, Sessions, HeldClaims
<1>5. q.want.status = "error"
    BY <1>3, <1>4 DEF ReportedFailure, Unclaimed, Failed, Row
<1>6. Exists(audit[a]) => audit'[a].status = "error" /\ audit[a].status # "done"
    BY <1>3, <1>4, <1>5 DEF Held
<1> HIDE DEF q, a
<1> QED BY <1>1, <1>2, <1>3, <1>6, HandoverRequestRow

\* A result passes its audit to the check.
LEMMA HandoverResultCommit ==
    ASSUME Exclusive, Handover, TypeOK', NEW r \in Runners, ResultCommit(r)
    PROVE  Handover'
<1> DEFINE q == request[r]
           a == q.job
<1>1. /\ UNCHANGED <<stored, worker, up, backend>> /\ up
      /\ q.kind = "result"
      /\ CommitOrVanish(a, Flush(audit[a], q.seen, q.want))
      /\ Answer(r, IdleRunner)
      /\ request' = [request EXCEPT ![r] = NoRequest]
    BY DEF ResultCommit
<1>2. /\ \A s \in Runners : s # r => request'[s] = request[s] /\ runner'[s] = runner[s]
      /\ request'[r].kind = "none"
      /\ runner'[r].pc # "working"
    <2>1. runner[r].pc # "working"
        BY <1>1 DEF Handover, Exclusion
    <2> QED BY <1>1, <2>1 DEF Answer, IdleRunner, NoRequest, Handover, TypeOK
<1>3. /\ Holds(r, a) /\ a \in Audits /\ q.seen \in Row
      /\ Exists(audit[a]) => q.seen = audit[a]
      /\ \A b \in Audits : b # a => audit'[b] = audit[b]
      /\ ~ Exists(audit[a]) => audit'[a] = audit[a]
      /\ Exists(audit[a]) => /\ audit'[a].status = q.want.status
                             /\ audit'[a].claim = IF q.want.claim = "now"
                                                  THEN "fresh" ELSE q.want.claim
                             /\ audit'[a].commit = q.want.commit
                             /\ audit'[a].owner = audit[a].owner
                             /\ audit'[a].pinned = audit[a].pinned
    BY <1>1, RequestCurrent
<1>4. /\ q.want = Reported(q.seen, q.at) /\ q.at \in Checkouts(q.seen)
      /\ Exists(audit[a]) => Held(audit[a])
    BY <1>1, <1>3 DEF Handover, Sessions, HeldClaims
<1>5. q.want.status = "running" /\ q.want.claim = "now" /\ q.want.commit = q.at
    BY <1>3, <1>4 DEF Reported, Claimed, Row
<1>6. Exists(audit[a]) => /\ audit'[a].status = "running" /\ audit'[a].claim = "fresh"
                          /\ audit[a].status # "done"
                          /\ audit'[a].commit = q.at /\ q.at \in Checkouts(audit[a])
    BY <1>3, <1>4, <1>5 DEF Held
<1>7. \/ UNCHANGED check
      \/ /\ Exists(audit[a])
         /\ \E k \in Checks :
               /\ check[k].pc = "none"
               /\ check' = [check EXCEPT ![k] =
                     [pc |-> "scheduled", job |-> a, audited |-> q.at, seen |-> NoRow]]
    BY DEF ResultCommit
<1> HIDE DEF q, a
<1> QED BY <1>1, <1>2, <1>3, <1>6, <1>7, HandoverRequestRow

-----------------------------------------------------------------------------
(***************************************************************************)
(* Checks of runner results                                                *)
(***************************************************************************)

\* A check that begins sees the row as the result left it.
LEMMA HandoverCheckBegin ==
    ASSUME Exclusive, Handover, TypeOK', NEW k \in Checks, CheckBegin(k)
    PROVE  Handover'
<1>1. /\ UNCHANGED <<audit, stored, worker, runner, request, up, backend>> /\ up
      /\ check[k].pc = "scheduled"
      /\ \A l \in Checks : l # k => check'[l] = check[l]
      /\ check'[k].pc # "none" =>
            /\ check'[k].job = check[k].job /\ check'[k].audited = check[k].audited
            /\ check'[k].seen = audit[check[k].job]
    <2>1. check[k].pc = "scheduled"
        BY DEF CheckBegin
    <2>2. check[k] \in [pc : {"scheduled", "checking"}, job : Audits,
                        audited : Commits \cup {NoCommit}, seen : Row]
        BY <2>1 DEF Handover, TypeOK, Check, NoCheck
    <2> QED BY <2>1, <2>2 DEF CheckBegin, CheckEnds, NoCheck, Handover, TypeOK
<1>2. \A b : AtWork(b)' = AtWork(b) /\ \A r : Holds(r, b)' = Holds(r, b)
    BY <1>1 DEF AtWork, Holds
<1>3. \A b : Checked(b)' => Checked(b)
    BY <1>1 DEF Checked
<1> USE <1>1, <1>2, <1>3
<1>10. Ownership'
    BY DEF Handover, Ownership
<1>11. Exclusion'
    BY DEF Handover, Exclusion
<1>12. HeldClaims' /\ RowClaims'
    BY DEF Handover, HeldClaims, RowClaims
<1>13. CheckedClaims'
    BY DEF Handover, CheckedClaims
<1>14. Sessions'
    BY DEF Handover, Sessions, SessionsCurrent
<1>15. Blank'
    BY DEF Handover, Blank
<1>16. DoneIsWhole' /\ CheckedAtItsCommit'
    BY DEF Handover, DoneIsWhole, CheckedAtItsCommit
<1> QED BY <1>10, <1>11, <1>12, <1>13, <1>14, <1>15, <1>16 DEF Handover

\* The end of a check leaves a row that is finished, or failed, without claim.
LEMMA HandoverCheckRow ==
    ASSUME Exclusive, Handover, TypeOK', NEW k \in Checks, check[k].pc # "none",
           NEW a, a = check[k].job,
           UNCHANGED <<worker, runner, request, up, backend>>, up,
           CheckEnds(k),
           \A b \in Audits : b # a => audit'[b] = audit[b] /\ stored'[b] = stored[b],
           ~ Exists(audit[a]) => audit'[a] = audit[a] /\ stored'[a] = stored[a],
           Exists(audit[a]) => /\ audit'[a].status \in {"done", "error"}
                               /\ audit'[a].claim = "none"
                               /\ audit'[a].owner = audit[a].owner
                               /\ audit'[a].pinned = audit[a].pinned,
           DoneIsWhole', CheckedAtItsCommit'
    PROVE  Handover'
<1>1. /\ a \in Audits /\ ~ AtWork(a)
      /\ \A r \in Runners : ~ Holds(r, a)
      /\ \A l \in Checks : check[l].pc # "none" /\ check[l].job = a => l = k
      /\ Exists(audit[a]) => ForRunners(audit[a])
    BY CheckAlone
<1>2. audit[a] \in Row /\ audit'[a] \in Row
    BY <1>1, PartType DEF Handover, TypeOK
<1>3. Exists(audit[a]) =>
         /\ ForRunners(audit'[a]) = ForRunners(audit[a])
         /\ \A s \in Runners : Sees(s, audit'[a]) = Sees(s, audit[a])
         /\ Exists(audit'[a])
    BY <1>2, SameOwner DEF Exists
<1>4. \A b : AtWork(b)' = AtWork(b) /\ \A r : Holds(r, b)' = Holds(r, b)
    BY DEF AtWork, Holds
<1>5. \A l \in Checks : check'[l].pc # "none" =>
         l # k /\ check'[l] = check[l] /\ check[l].job # a
    BY <1>1 DEF CheckEnds, NoCheck, Handover, TypeOK
<1>6. \A b : Checked(b)' => Checked(b) /\ b # a
    BY <1>5 DEF Checked
<1> USE <1>1, <1>3, <1>4, <1>5, <1>6
<1>10. Ownership'
    BY DEF Handover, Ownership
<1>11. Exclusion'
    BY DEF Handover, Exclusion
<1>12. HeldClaims'
    BY DEF Handover, HeldClaims, Holds
<1>13. CheckedClaims'
    BY DEF Handover, CheckedClaims
<1>14. RowClaims'
    BY DEF Handover, RowClaims, AtWork
<1>15. Sessions'
    BY DEF Handover, Sessions, SessionsCurrent, Holds, AtWork
<1>16. Blank'
    BY DEF Handover, Blank, Exists
<1> QED BY <1>10, <1>11, <1>12, <1>13, <1>14, <1>15, <1>16 DEF Handover

\* A result that was checked is the first one stored, at the commit it is for.
LEMMA HandoverCheckStore ==
    ASSUME Exclusive, Handover, TypeOK', NEW k \in Checks, CheckStore(k)
    PROVE  Handover'
<1> DEFINE a == check[k].job
           seen == check[k].seen
           want == Unclaimed(Stored(seen))
           result(c) == [audited |-> check[k].audited, checked |-> c]
<1>1. /\ UNCHANGED <<worker, runner, request, up, backend>> /\ up
      /\ check[k].pc = "checking"
      /\ CommitOrVanish(a, Flush(audit[a], seen, want))
      /\ CheckEnds(k)
    BY DEF CheckStore
<1>2. /\ a \in Audits /\ seen \in Row /\ audit[a] \in Row /\ TypeOK
      /\ check[k].audited \in Commits \cup {NoCommit}
      /\ Exists(audit[a]) =>
            /\ seen = audit[a]
            /\ audit[a].status = "running" /\ audit[a].commit = check[k].audited
            /\ audit[a].commit \in Checkouts(audit[a])
    BY <1>1, PartType, CheckAlone DEF Handover, Sessions, SessionsCurrent
<1>3. PICK c \in {seen.commit, NoCommit} :
         stored' = IF Exists(audit[a])
                   THEN [stored EXCEPT ![a] = Append(@, result(c))] ELSE stored
    BY DEF CheckStore
<1>4. /\ want \in Want
      /\ want.status = "done" /\ want.error = FALSE /\ want.claim = "none"
      /\ want.commit = seen.commit /\ want.owner = seen.owner /\ want.pinned = seen.pinned
    <2>1. Stored(seen) \in Row
        BY <1>2, AssignedType, NoneType DEF NoRow, Row
    <2>2. want \in Want
        BY <2>1, AssignedType, NoneType, RowIsWant DEF NoRow, Row
    <2> QED BY <1>2, <2>1, <2>2 DEF Stored, Unclaimed, Row
<1> HIDE DEF want
<1>5. /\ \A b \in Audits : b # a => audit'[b] = audit[b]
      /\ ~ Exists(audit[a]) => audit'[a] = audit[a]
      /\ Exists(audit[a]) =>
            /\ audit'[a].status = "done"
            /\ audit'[a].error = FALSE
            /\ audit'[a].claim = "none"
            /\ audit'[a].commit = audit[a].commit
            /\ audit'[a].owner = audit[a].owner
            /\ audit'[a].pinned = audit[a].pinned
    BY <1>1, <1>2, <1>4, CommitCurrent
<1>6. /\ \A b \in Audits : b # a => stored'[b] = stored[b]
      /\ ~ Exists(audit[a]) => stored'[a] = stored[a]
      /\ Exists(audit[a]) => /\ Len(stored'[a]) = 1
                             /\ DOMAIN stored'[a] = {1}
                             /\ stored'[a][1] = result(c)
    <2>1. Exists(audit[a]) => Len(stored[a]) = 0
        BY <1>2 DEF Handover, DoneIsWhole
    <2>2. stored[a] \in Seq(Result) /\ result(c) \in Result
        BY <1>2, <1>3 DEF TypeOK, Row, Result
    <2>3. Exists(audit[a]) => stored'[a] = Append(stored[a], result(c))
        BY <1>2, <1>3 DEF TypeOK
    <2> QED BY <1>2, <1>3, <2>1, <2>2, <2>3, FirstResult DEF TypeOK
<1>7. DoneIsWhole'
    BY <1>2, <1>5, <1>6 DEF Handover, DoneIsWhole
<1>8. CheckedAtItsCommit'
    <2>1. Exists(audit[a]) => Checkouts(audit'[a]) = Checkouts(audit[a])
        BY <1>5 DEF Checkouts
    <2>2. Exists(audit[a]) => /\ result(c).audited = audit'[a].commit
                              /\ result(c).checked \in {audit'[a].commit, NoCommit}
        BY <1>2, <1>3, <1>5
    <2> QED BY <1>2, <1>5, <1>6, <2>1, <2>2 DEF Handover, CheckedAtItsCommit
<1> QED BY <1>1, <1>5, <1>6, <1>7, <1>8, HandoverCheckRow

\* A check that fails leaves a failed audit without claim or result.
LEMMA HandoverCheckFail ==
    ASSUME Exclusive, Handover, TypeOK', NEW k \in Checks, CheckFail(k)
    PROVE  Handover'
<1> DEFINE a == check[k].job
           row == Unclaimed(Failed(audit[a]))
<1>1. /\ UNCHANGED <<stored, worker, runner, request, up, backend>> /\ up
      /\ check[k].pc = "checking"
      /\ CommitOrVanish(a, row)
      /\ CheckEnds(k)
    BY DEF CheckFail
<1>2. /\ a \in Audits /\ audit[a] \in Row /\ TypeOK
      /\ Exists(audit[a]) => audit[a].status = "running"
    BY <1>1, PartType, CheckAlone DEF Handover
<1>3. /\ row \in Row
      /\ row.status = "error" /\ row.claim = "none"
      /\ row.owner = audit[a].owner /\ row.pinned = audit[a].pinned
    <2>1. Failed(audit[a]) \in Row
        BY <1>2, AssignedType, NoneType DEF NoRow, Row
    <2>2. row \in Row
        BY <2>1, AssignedType, NoneType DEF NoRow, Row
    <2> QED BY <1>2, <2>1, <2>2, FailedRow DEF Unclaimed, Row
<1> HIDE DEF row
<1>4. /\ \A b \in Audits : b # a => audit'[b] = audit[b]
      /\ ~ Exists(audit[a]) => audit'[a] = audit[a]
      /\ Exists(audit[a]) => audit'[a] = row
    BY <1>1, <1>2, <1>3, CommitOver
<1>5. Exists(audit[a]) => (Len(stored[a]) = 0 /\ DOMAIN stored[a] = {})
    BY <1>2, StoredDomain DEF Handover, DoneIsWhole
<1>6. DoneIsWhole' /\ CheckedAtItsCommit'
    BY <1>1, <1>3, <1>4, <1>5 DEF Handover, DoneIsWhole, CheckedAtItsCommit
<1> QED BY <1>1, <1>3, <1>4, <1>6, HandoverCheckRow

-----------------------------------------------------------------------------
(***************************************************************************)
(* What follows                                                            *)
(***************************************************************************)

\* Every step keeps the invariant.
LEMMA HandoverNext ==
    ASSUME Exclusive
    PROVE  Handover /\ [Next]_vars => Handover'
<1> SUFFICES ASSUME Handover, [Next]_vars PROVE Handover'
    OBVIOUS
<1>1. TypeOK'
    BY NextType DEF Handover
<1>2. ASSUME NEW a \in Audits, WorkerStep(a) PROVE Handover'
    BY <1>1, <1>2, HandoverWorkerBegin, HandoverWorkerClone, HandoverWorkerStore,
       HandoverWorkerFails DEF WorkerStep
<1>3. ASSUME NEW r \in Runners, RunnerStep(r) \/ RequestStep(r) \/ RunnerDies(r)
      PROVE  Handover'
    <2>1. CASE RunnerStep(r)
        BY <1>1, <2>1, HandoverClaimSelect, HandoverResultRead, HandoverRunnerEnds
           DEF RunnerStep
    <2>2. CASE RequestStep(r)
        BY <1>1, <2>2, HandoverClaimCommit, HandoverResultCommit, HandoverFailureCommit
           DEF RequestStep
    <2>3. CASE RunnerDies(r)
        BY <1>1, <2>3, HandoverRunnerEnds
    <2> QED BY <1>3, <2>1, <2>2, <2>3
<1>4. ASSUME NEW k \in Checks, CheckStep(k) PROVE Handover'
    BY <1>1, <1>4, HandoverCheckBegin, HandoverCheckStore, HandoverCheckFail DEF CheckStep
<1>5. ASSUME NEW a \in Audits, Delete(a) \/ ClaimTimeout(a) PROVE Handover'
    BY <1>1, <1>5, HandoverDelete, HandoverClaimTimeout
<1>6. ASSUME NEW a \in Audits, NEW t \in Triggers, Queue(a, t) PROVE Handover'
    BY <1>1, <1>6, HandoverQueue
<1>7. ASSUME NEW o \in Owners, PutSettings(o) PROVE Handover'
    BY <1>1, <1>7, HandoverPutSettings
<1>8. CASE ServerStop \/ ServerStart
    BY <1>1, <1>8, HandoverServerStop, HandoverServerStart
<1>9. CASE UNCHANGED vars
    BY <1>9 DEF vars, Handover, TypeOK, Ownership, Exclusion, HeldClaims, CheckedClaims,
        RowClaims, Sessions, SessionsCurrent, Blank, DoneIsWhole, CheckedAtItsCommit,
        AtWork, Checked, Holds
<1> QED BY <1>2, <1>3, <1>4, <1>5, <1>6, <1>7, <1>8, <1>9 DEF Next

\* Where the parties cannot meet, what each of them concludes from an audit's
\* row alone (its claim, status and owner) about the others is right, in every
\* order of polls, commits, deletions, deaths and restarts.
THEOREM HandoverHolds == Exclusive => (Spec => []Handover)
<1> SUFFICES ASSUME Exclusive PROVE Spec => []Handover
    OBVIOUS
<1>1. Init => Handover
    BY HandoverInit
<1>2. Handover /\ [Next]_vars => Handover'
    BY HandoverNext
<1> QED BY <1>1, <1>2, PTL DEF Spec

\* No task and no request ever commits over a row it has not seen: the
\* column-wise writes of the ORM lose no update.
THEOREM SessionsStayCurrent == Exclusive => (Spec => []SessionsCurrent)
<1>1. Handover => SessionsCurrent
    BY DEF Handover, Sessions
<1> QED BY <1>1, HandoverHolds, PTL

\* No audit is ever executed by two parties.
THEOREM OnePartyAtATime == Exclusive => (Spec => []OneParty)
<1>1. ASSUME Handover PROVE OneParty
    <2> SUFFICES ASSUME NEW a \in Audits
                 PROVE  LET x == Executing(a)
                        IN  /\ x.server => x.runners = {} /\ x.results = {} /\ x.checks = {}
                            /\ x.runners # {} => x.results = {} /\ x.checks = {}
                            /\ x.results # {} => x.checks = {}
                            /\ \A r, s \in x.runners : r = s
                            /\ \A r, s \in x.results : r = s
                            /\ \A k, l \in x.checks : k = l
        BY DEF OneParty
    <2>1. \A k \in Checks : check[k].job = a <=> check[k].pc # "none" /\ check[k].job = a
        BY <1>1 DEF Handover, TypeOK, Check, NoCheck, Audits, NoAudit
    <2>2. \A r \in Executing(a).runners :
             r \in Runners /\ Holds(r, a) /\ request[r].kind = "none"
        BY <1>1 DEF Executing, Holds, Handover, Exclusion
    <2>3. \A r \in Executing(a).results :
             r \in Runners /\ Holds(r, a) /\ request[r].kind # "none"
        BY DEF Executing, Holds
    <2>4. \A k \in Executing(a).checks :
             k \in Checks /\ Checked(a) /\ check[k].pc # "none" /\ check[k].job = a
        BY <2>1 DEF Executing, Checked
    <2>5. Executing(a).server <=> AtWork(a)
        BY DEF Executing, AtWork
    <2> QED BY <1>1, <2>2, <2>3, <2>4, <2>5 DEF Handover, Exclusion
<1> QED BY <1>1, HandoverHolds, PTL

\* A finished audit has its one result, no error text and no claim, and no
\* other audit has a result.
THEOREM DoneStaysWhole == Exclusive => (Spec => []DoneIsWhole)
<1>1. Handover => DoneIsWhole
    BY DEF Handover
<1> QED BY <1>1, HandoverHolds, PTL

\* What is stored was found, and checked, in the commit that the audit names.
THEOREM ResultsAtTheirCommit == Exclusive => (Spec => []CheckedAtItsCommit)
<1>1. Handover => CheckedAtItsCommit
    BY DEF Handover
<1> QED BY <1>1, HandoverHolds, PTL

\* An audit shown as running is in somebody's hands, or can be claimed again.
THEOREM RunningIsNotStranded == Exclusive => (Spec => []NotStranded)
<1>1. ASSUME Handover PROVE NotStranded
    BY <1>1 DEF Handover, RowClaims, NotStranded, Exists
<1> QED BY <1>1, HandoverHolds, PTL

-----------------------------------------------------------------------------
(***************************************************************************)
(* The life that AuditJob promises.  Handover fixes what is published: a   *)
(* finished audit has one result, of the commit that it names, and no      *)
(* other audit has one.  What is left is which status may follow which,    *)
(* one lemma per kind of step.                                             *)
(***************************************************************************)

\* The changes of status that one step may make to one audit.
Moves == {<<"none", "pending">>, <<"pending", "pending">>, <<"pending", "running">>,
          <<"pending", "error">>, <<"running", "running">>, <<"running", "error">>,
          <<"running", "done">>, <<"error", "error">>, <<"error", "running">>}

\* A step that concerns audit a alone.
Concerns(a) ==
    /\ \A b \in Audits : b # a => audit'[b] = audit[b] /\ stored'[b] = stored[b]
    /\ \/ audit'[a] = audit[a] /\ stored'[a] = stored[a]
       \/ <<audit[a].status, audit'[a].status>> \in Moves
       \/ Exists(audit[a]) /\ audit'[a].status = "deleted"

-----------------------------------------------------------------------------
(***************************************************************************)
(* One lemma per kind of step                                              *)
(***************************************************************************)

\* A step that touches neither rows nor results concerns any audit.
LEMMA ConcernsNone ==
    ASSUME UNCHANGED <<audit, stored>>, NEW a \in Audits
    PROVE  Concerns(a)
BY DEF Concerns

\* A request, a deletion and a claim's expiry.
LEMMA ConcernsUser ==
    ASSUME Handover, NEW a \in Audits,
           Delete(a) \/ ClaimTimeout(a) \/ \E t \in Triggers : Queue(a, t)
    PROVE  Concerns(a)
<1> USE DEF Handover, TypeOK
<1>1. CASE Delete(a)
    BY <1>1 DEF Delete, NoRow, Concerns
<1>2. CASE ClaimTimeout(a)
    <2>1. audit[a].status \notin {"none", "deleted", "done"}
        BY <1>2 DEF ClaimTimeout, Blank, DoneIsWhole, NoRow
    <2>2. /\ audit' = [audit EXCEPT ![a] = [audit[a] EXCEPT !.claim = "stale"]]
          /\ UNCHANGED stored
        BY <1>2 DEF ClaimTimeout
    <2>3. audit'[a].status = audit[a].status
        BY <2>2 DEF Row
    <2>4. audit[a].status \in {"pending", "running", "error"}
        BY <2>1 DEF Row, Statuses
    <2> QED BY <2>2, <2>3, <2>4 DEF Concerns, Moves
<1>3. CASE \E t \in Triggers : Queue(a, t)
    BY <1>3 DEF Queue, NoRow, Concerns, Moves
<1> QED BY <1>1, <1>2, <1>3

\* The server's task.
LEMMA ConcernsWorker ==
    ASSUME Exclusive, Handover, NEW a \in Audits, WorkerStep(a)
    PROVE  Concerns(a)
<1> DEFINE seen == worker[a].seen
<1>1. TypeOK /\ seen \in Row /\ audit[a] \in Row
    BY PartType DEF Handover
<1>2. \A row \in Row, c \in Commits \cup {NoCommit} :
         /\ Failed(row) \in Row /\ Failed(row) \in Want
         /\ Failed(row).status = "error"
         /\ Failed(row).owner = row.owner /\ Failed(row).pinned = row.pinned
         /\ Running(row, c) \in Want /\ Running(row, c).status = "running"
         /\ Running(row, c).owner = row.owner /\ Running(row, c).pinned = row.pinned
         /\ Stored(row) \in Want /\ Stored(row).status = "done"
         /\ Stored(row).owner = row.owner /\ Stored(row).pinned = row.pinned
    <2> TAKE row \in Row, c \in Commits \cup {NoCommit}
    <2>1. /\ Failed(row) \in Row /\ Failed(row) \in Want
          /\ Running(row, c) \in Want /\ Stored(row) \in Want
        BY AssignedType, RowIsWant
    <2> QED BY <2>1 DEF Failed, Running, Stored, Row
<1>3. WorkerBegin(a) => /\ UNCHANGED stored
                        /\ UNCHANGED audit \/ (/\ ServerRuns(a)
                                               /\ CommitOrVanish(a, Failed(audit[a])))
    BY DEF WorkerBegin
<1>4. CASE WorkerBegin(a) /\ UNCHANGED audit
    BY <1>3, <1>4, ConcernsNone
<1>5. CASE WorkerBegin(a) /\ ServerRuns(a) /\ CommitOrVanish(a, Failed(audit[a]))
    <2>1. Exists(audit[a]) /\ audit[a].status = "pending"
        BY <1>5, ServerAlone DEF ServerRuns, WorkerBegin, Handover, RowClaims
    <2>2. Failed(audit[a]) \in Row /\ Failed(audit[a]).status = "error"
        BY <1>1, <1>2, NoneType DEF NoRow, Row
    <2>3. audit'[a] = Failed(audit[a]) /\ \A b \in Audits : b # a => audit'[b] = audit[b]
        BY <1>1, <1>5, <2>1, <2>2, CommitOver
    <2> QED BY <1>3, <1>5, <2>1, <2>2, <2>3 DEF Concerns, Moves
<1>6. CASE AtWork(a) /\ ~ Exists(audit[a])
    <2>1. UNCHANGED stored
        BY <1>6 DEF WorkerStep, WorkerBegin, WorkerClone, WorkerStore, WorkerFail,
                    WorkerCrash
    <2>2. \A b \in Audits : audit'[b] = audit[b]
        BY <1>1, <1>6 DEF WorkerStep, WorkerBegin, ServerRuns, WorkerClone, WorkerStore,
                          WorkerFail, WorkerCrash, CommitOrVanish, TypeOK
    <2> QED BY <2>1, <2>2 DEF Concerns
<1>7. CASE AtWork(a) /\ Exists(audit[a])
    <2>1. /\ worker[a].pc = "clone" => audit[a].status = "pending"
          /\ worker[a].pc = "audit" => audit[a].status = "running"
          /\ seen = audit[a]
        BY <1>7, ServerAlone DEF Handover, RowClaims, Sessions, SessionsCurrent, AtWork
    <2>2. CASE WorkerClone(a)
        <3>1. PICK c \in Checkouts(seen) :
                 CommitOrVanish(a, Flush(audit[a], seen, Running(seen, c)))
            BY <2>2 DEF WorkerClone
        <3>2. c \in Commits \cup {NoCommit}
            BY <1>1, CheckoutsType
        <3> DEFINE want == Running(seen, c)
        <3>3. want \in Want /\ want.status = "running"
              /\ want.owner = seen.owner /\ want.pinned = seen.pinned
            BY <1>1, <1>2, <3>2
        <3> HIDE DEF want
        <3>4. CommitOrVanish(a, Flush(audit[a], seen, want))
            BY <3>1 DEF want
        <3>5. /\ audit'[a].status = "running"
              /\ \A b \in Audits : b # a => audit'[b] = audit[b]
            BY <1>1, <1>7, <2>1, <3>3, <3>4, CommitCurrent
        <3> QED BY <2>1, <2>2, <3>5 DEF WorkerClone, Concerns, Moves
    <2>3. CASE WorkerStore(a)
        <3> DEFINE want == Stored(seen)
        <3>1. want \in Want /\ want.status = "done"
              /\ want.owner = seen.owner /\ want.pinned = seen.pinned
            BY <1>1, <1>2, NoneType DEF NoRow, Row
        <3>2. CommitOrVanish(a, Flush(audit[a], seen, want))
            BY <2>3 DEF WorkerStore
        <3> HIDE DEF want
        <3>3. /\ audit'[a].status = "done"
              /\ \A b \in Audits : b # a => audit'[b] = audit[b]
            BY <1>1, <1>7, <2>1, <3>1, <3>2, CommitCurrent
        <3>4. \A b \in Audits : b # a => stored'[b] = stored[b]
            BY <1>1, <2>3 DEF WorkerStore, TypeOK
        <3> QED BY <2>1, <2>3, <3>3, <3>4 DEF WorkerStore, Concerns, Moves
    <2>4. CASE WorkerFail(a) \/ WorkerCrash(a)
        <3>1. /\ audit'[a].status = "error"
              /\ \A b \in Audits : b # a => audit'[b] = audit[b]
            <4> DEFINE want == Failed(seen)
            <4>1. want \in Row /\ want \in Want /\ want.status = "error"
                  /\ want.owner = seen.owner /\ want.pinned = seen.pinned
                BY <1>1, <1>2, NoneType DEF NoRow, Row
            <4>2. \/ CommitOrVanish(a, Flush(audit[a], seen, want))
                  \/ CommitOrVanish(a, want)
                BY <2>1, <2>4 DEF WorkerFail, WorkerCrash
            <4> HIDE DEF want
            <4> QED BY <1>1, <1>7, <2>1, <4>1, <4>2, CommitCurrent, CommitOver
        <3>2. audit[a].status \in {"pending", "running"} /\ UNCHANGED stored
            BY <2>1, <2>4 DEF WorkerFail, WorkerCrash
        <3> QED BY <3>1, <3>2 DEF Concerns, Moves
    <2>5. ~ WorkerBegin(a)
        BY <1>7 DEF WorkerBegin, AtWork
    <2> QED BY <2>2, <2>3, <2>4, <2>5 DEF WorkerStep
<1>8. WorkerBegin(a) \/ AtWork(a)
    BY DEF WorkerStep, WorkerClone, WorkerStore, WorkerFail, WorkerCrash, AtWork
<1> QED BY <1>3, <1>4, <1>5, <1>6, <1>7, <1>8

\* A runner's request.
LEMMA ConcernsRequest ==
    ASSUME Handover, TypeOK', NEW r \in Runners, RequestStep(r)
    PROVE  request[r].job \in Audits /\ Concerns(request[r].job)
<1> DEFINE q == request[r]
           a == q.job
<1>1. /\ q.kind \in {"claim", "result", "failure"}
      /\ CommitOrVanish(a, Flush(audit[a], q.seen, q.want))
      /\ UNCHANGED stored
    BY DEF RequestStep, ClaimCommit, ResultCommit, FailureCommit
<1>2. /\ a \in Audits /\ q.seen \in Row
      /\ \A b \in Audits : b # a => audit'[b] = audit[b]
      /\ ~ Exists(audit[a]) => audit'[a] = audit[a]
      /\ Exists(audit[a]) => audit'[a].status = q.want.status
    BY <1>1, RequestCurrent
<1>3. Exists(audit[a]) =>
         /\ q.kind = "claim" => audit[a].status \in {"pending", "running"}
         /\ q.kind # "claim" => audit[a].status \in {"running", "error"}
    BY <1>1, <1>2 DEF Handover, HeldClaims, Takeable, Held
<1>4. q.want.status = IF q.kind = "failure" THEN "error" ELSE "running"
    <2>1. q.want = CASE q.kind = "claim" -> Claimed(q.seen)
                     [] q.kind = "result" -> Reported(q.seen, q.at)
                     [] q.kind = "failure" -> ReportedFailure(q.seen, q.at)
        BY <1>1 DEF Handover, Sessions
    <2>2. /\ Claimed(q.seen).status = "running"
          /\ Reported(q.seen, q.at).status = "running"
          /\ ReportedFailure(q.seen, q.at).status = "error"
        BY <1>2 DEF Claimed, Reported, ReportedFailure, Unclaimed, Failed, Row
    <2> QED BY <1>1, <2>1, <2>2
<1> HIDE DEF q, a
<1>5. Concerns(a)
    BY <1>1, <1>2, <1>3, <1>4 DEF Concerns, Moves
<1> QED BY <1>2, <1>5 DEF a, q

\* The check of a runner's result.
LEMMA ConcernsCheck ==
    ASSUME Handover, NEW k \in Checks, CheckStep(k)
    PROVE  check[k].job \in Audits /\ Concerns(check[k].job)
<1> DEFINE a == check[k].job
           seen == check[k].seen
<1>1. /\ check[k].pc # "none" /\ TypeOK
      /\ a \in Audits /\ seen \in Row /\ audit[a] \in Row
      /\ Exists(audit[a]) => audit[a].status = "running"
      /\ Exists(audit[a]) /\ check[k].pc = "checking" => seen = audit[a]
    <2>1. check[k].pc # "none"
        BY DEF CheckStep, CheckBegin, CheckStore, CheckFail
    <2> QED BY <2>1, PartType, CheckAlone DEF Handover, Sessions, SessionsCurrent
<1>2. CASE CheckBegin(k)
    BY <1>1, <1>2, ConcernsNone DEF CheckBegin
<1>3. CASE CheckStore(k)
    <2> DEFINE want == Unclaimed(Stored(seen))
    <2>1. want \in Want /\ want.status = "done"
          /\ want.owner = seen.owner /\ want.pinned = seen.pinned
        <3>1. Stored(seen) \in Row
            BY <1>1, AssignedType, NoneType DEF NoRow, Row
        <3>2. want \in Want
            BY <3>1, AssignedType, NoneType, RowIsWant DEF NoRow, Row
        <3> QED BY <1>1, <3>1, <3>2 DEF Stored, Unclaimed, Row
    <2>2. CommitOrVanish(a, Flush(audit[a], seen, want))
        BY <1>3 DEF CheckStore
    <2>3. check[k].pc = "checking"
        BY <1>3 DEF CheckStore
    <2> HIDE DEF want
    <2>4. /\ \A b \in Audits : b # a => audit'[b] = audit[b]
          /\ ~ Exists(audit[a]) => audit'[a] = audit[a]
          /\ Exists(audit[a]) => audit'[a].status = "done"
        BY <1>1, <2>1, <2>2, <2>3, CommitCurrent
    <2>5. /\ \A b \in Audits : b # a => stored'[b] = stored[b]
          /\ ~ Exists(audit[a]) => stored'[a] = stored[a]
        BY <1>1, <1>3 DEF CheckStore, TypeOK
    <2> QED BY <1>1, <2>4, <2>5 DEF Concerns, Moves
<1>4. CASE CheckFail(k)
    <2> DEFINE row == Unclaimed(Failed(audit[a]))
    <2>1. row \in Row /\ row.status = "error"
        <3>1. Failed(audit[a]) \in Row
            BY <1>1, AssignedType, NoneType DEF NoRow, Row
        <3>2. row \in Row
            BY <3>1, AssignedType, NoneType DEF NoRow, Row
        <3> QED BY <1>1, <3>1, <3>2, FailedRow DEF Unclaimed, Row
    <2>2. CommitOrVanish(a, row) /\ UNCHANGED stored
        BY <1>4 DEF CheckFail
    <2> HIDE DEF row
    <2>3. /\ \A b \in Audits : b # a => audit'[b] = audit[b]
          /\ ~ Exists(audit[a]) => audit'[a] = audit[a]
          /\ Exists(audit[a]) => audit'[a].status = "error"
        BY <1>1, <2>1, <2>2, CommitOver
    <2> QED BY <1>1, <2>2, <2>3 DEF Concerns, Moves
<1> QED BY <1>1, <1>2, <1>3, <1>4 DEF CheckStep

\* A step concerns one audit, or restarts the server, or touches none.
LEMMA StepConcerns ==
    ASSUME Exclusive, Handover, [Next]_vars
    PROVE  \/ \E a \in Audits : Concerns(a)
           \/ /\ \A a \in Audits : audit'[a] = Interrupted(audit[a])
              /\ UNCHANGED stored
           \/ UNCHANGED <<audit, stored>>
<1>1. TypeOK'
    BY NextType DEF Handover
<1>2. ASSUME NEW a \in Audits,
             (Delete(a) \/ ClaimTimeout(a) \/ \E t \in Triggers : Queue(a, t))
             \/ WorkerStep(a)
      PROVE  Concerns(a)
    BY <1>2, ConcernsUser, ConcernsWorker
<1>3. ASSUME NEW r \in Runners, RequestStep(r) PROVE \E a \in Audits : Concerns(a)
    BY <1>1, <1>3, ConcernsRequest
<1>4. ASSUME NEW k \in Checks, CheckStep(k) PROVE \E a \in Audits : Concerns(a)
    BY <1>4, ConcernsCheck
<1>5. CASE ServerStart
    BY <1>5 DEF ServerStart
<1>6. CASE \/ \E o \in Owners : PutSettings(o)
           \/ \E r \in Runners : RunnerStep(r) \/ RunnerDies(r)
           \/ ServerStop
           \/ UNCHANGED vars
    BY <1>6 DEF PutSettings, RunnerStep, ClaimSelect, ResultRead, RunnerCannotConnect,
                RunnerDies, ServerStop, vars
<1> QED BY <1>2, <1>3, <1>4, <1>5, <1>6 DEF Next

-----------------------------------------------------------------------------
(***************************************************************************)
(* The theorems                                                            *)
(***************************************************************************)

\* A finished audit is never taken back or overwritten: no late result, no
\* restart and no expired claim reaches it.
THEOREM DoneStaysFinal == Exclusive => (Spec => DoneIsFinal)
<1> SUFFICES ASSUME Exclusive PROVE Spec => DoneIsFinal
    OBVIOUS
<1>1. ASSUME Handover, [Next]_vars, NEW a \in Audits, audit[a].status = "done"
      PROVE  \/ audit'[a].status = "deleted"
             \/ audit'[a] = audit[a] /\ stored'[a] = stored[a]
    <2>1. CASE \E b \in Audits : Concerns(b)
        BY <1>1, <2>1 DEF Concerns, Moves
    <2>2. CASE (\A b \in Audits : audit'[b] = Interrupted(audit[b])) /\ UNCHANGED stored
        BY <1>1, <2>2 DEF Interrupted
    <2> QED BY <1>1, <2>1, <2>2, StepConcerns
<1>2. Handover /\ [Next]_vars =>
         [\A a \in Audits :
             audit[a].status = "done" =>
                \/ audit'[a].status = "deleted"
                \/ audit'[a] = audit[a] /\ stored'[a] = stored[a]]_vars
    BY <1>1
<1> QED BY <1>2, HandoverHolds, PTL DEF Spec, DoneIsFinal

\* What AuditJob sees of an audit's row and results.
status == [a \in Audits |-> audit[a].status]
published == [a \in Audits |-> [i \in DOMAIN stored[a] |-> stored[a][i].audited]]

\* A finished audit shows the commit that it names, and no other shows one.
Shown(a) ==
    /\ published[a] = IF status[a] = "done" THEN <<audit[a].commit>> ELSE <<>>
    /\ status[a] = "done" => audit[a].commit \in Commits

AllShown == \A a \in Audits : Shown(a)

\* Handover fixes what is published of every audit.
LEMMA HandoverShown == Handover => AllShown
<1> SUFFICES ASSUME Handover, NEW a \in Audits PROVE Shown(a)
    BY DEF AllShown
<1>1. stored[a] \in Seq(Result) /\ audit[a] \in Row
    BY DEF Handover, TypeOK
<1>2. CASE audit[a].status = "done"
    <2>1. Len(stored[a]) = 1
        BY <1>2 DEF Handover, DoneIsWhole
    <2>2. DOMAIN stored[a] = {1}
        BY <1>1, <2>1
    <2>3. stored[a][1].audited = audit[a].commit /\ audit[a].commit \in Checkouts(audit[a])
        BY <2>2 DEF Handover, CheckedAtItsCommit
    <2>4. [i \in DOMAIN stored[a] |-> stored[a][i].audited] = <<audit[a].commit>>
        BY <2>2, <2>3
    <2> QED BY <1>1, <1>2, <2>3, <2>4, CheckoutsType DEF Shown, status, published
<1>3. CASE audit[a].status # "done"
    <2>1. Len(stored[a]) = 0
        BY <1>3 DEF Handover, DoneIsWhole
    <2>2. DOMAIN stored[a] = {}
        BY <1>1, <2>1
    <2>3. [i \in DOMAIN stored[a] |-> stored[a][i].audited] = <<>>
        BY <2>2
    <2> QED BY <1>3, <2>3 DEF Shown, status, published
<1> QED BY <1>2, <1>3

\* So it does in the state after a step.
LEMMA HandoverShownNext == Handover' => AllShown'
BY HandoverShown, PTL

\* The empty table maps to the first state of AuditJob.
LEMMA JobInit == Init => Job!Init
<1> SUFFICES ASSUME Init PROVE Job!Init
    OBVIOUS
<1>1. \A a \in Audits : audit[a].status = "none" /\ stored[a] = <<>>
    BY DEF Init, NoRow
<1> QED BY <1>1 DEF Job!Init

\* The step of an audit whose status or whose results change.
LEMMA JobStep ==
    ASSUME Handover, Handover', NEW a \in Audits, Concerns(a)
    PROVE  Job!Next \/ UNCHANGED <<status, published>>
<1>1. /\ \A b \in Audits : b # a => status'[b] = status[b] /\ published'[b] = published[b]
      /\ status \in [Audits -> Statuses] /\ status' \in [Audits -> Statuses]
    BY DEF Concerns, status, published, Handover, TypeOK, Row
<1>2. Shown(a) /\ Shown(a)'
    BY HandoverShown, HandoverShownNext DEF AllShown
<1>3. \/ status'[a] = status[a] /\ published'[a] = published[a]
      \/ <<status[a], status'[a]>> \in Moves
      \/ status[a] \notin {"none", "deleted"} /\ status'[a] = "deleted"
    BY DEF Concerns, status, published, Exists
<1> DEFINE from == status[a]
           to == status'[a]
<1>4. status' = [status EXCEPT ![a] = to]
    BY <1>1 DEF status
<1>5. published' = [published EXCEPT ![a] = published'[a]]
    BY <1>1 DEF published
<1>6. published'[a] = IF to = "done" THEN <<audit'[a].commit>> ELSE <<>>
    BY <1>2 DEF Shown
<1>7. published[a] = IF from = "done" THEN <<audit[a].commit>> ELSE <<>>
    BY <1>2 DEF Shown
<1>8. to = "done" => audit'[a].commit \in Commits
    BY <1>2 DEF Shown
<1>9. CASE from = to /\ published'[a] = published[a]
    BY <1>1, <1>4, <1>5, <1>9 DEF status, published
<1>10. CASE to = "deleted" /\ from \in {"pending", "running", "done", "error"}
    <2>1. Job!Remove(a)
        BY <1>4, <1>5, <1>6, <1>10 DEF Job!Remove, Job!Moves, status, published
    <2> QED BY <2>1 DEF Job!Next
<1>11. CASE to = "done" /\ from = "running"
    <2>1. Job!Finish(a)
        BY <1>4, <1>5, <1>6, <1>8, <1>11 DEF Job!Finish, Job!Moves, status, published
    <2> QED BY <2>1 DEF Job!Next
<1>12. CASE /\ to # from /\ to \notin {"done", "deleted"} /\ from # "done"
            /\ <<from, to>> \in Moves
    <2>1. published' = published
        BY <1>5, <1>6, <1>7, <1>12 DEF published
    <2>2. Job!Submit(a) \/ Job!Start(a) \/ Job!Fail(a) \/ Job!Resume(a)
        BY <1>4, <1>12, <2>1
           DEF Moves, Job!Submit, Job!Start, Job!Fail, Job!Resume, Job!Moves, status, published
    <2> QED BY <2>2 DEF Job!Next
<1>13. CASE <<from, to>> \in Moves /\ to = from
    BY <1>6, <1>7, <1>9, <1>13 DEF Moves
<1>14. status[a] \in Statuses
    BY <1>1
<1> QED BY <1>3, <1>9, <1>10, <1>11, <1>12, <1>13, <1>14 DEF Moves, Statuses

\* A restart fails what was not finished.
LEMMA JobRestart ==
    ASSUME \A a \in Audits : audit'[a] = Interrupted(audit[a]), UNCHANGED stored, Handover
    PROVE  Job!Next
<1>1. \A a \in Audits : status'[a] = IF status[a] \in {"pending", "running"}
                                     THEN "error" ELSE status[a]
    <2> TAKE a \in Audits
    <2>1. audit[a] \in Row
        BY DEF Handover, TypeOK
    <2> QED BY <2>1, FailedRow DEF status, Interrupted
<1>2. Job!Interrupt
    BY <1>1 DEF Job!Interrupt, status, published
<1> QED BY <1>2 DEF Job!Next

\* Where the parties cannot meet, every behaviour of the service shows each
\* audit the life that AuditJob promises.
THEOREM LifecycleImplementsJob == Exclusive => (Spec => ImplementsAuditJob)
<1> SUFFICES ASSUME Exclusive PROVE Spec => Job!Spec
    BY DEF ImplementsAuditJob
<1>1. Init => Job!Init
    BY JobInit
<1>2. ASSUME Handover, Handover', [Next]_vars PROVE [Job!Next]_(Job!vars)
    <2>1. CASE \E a \in Audits : Concerns(a)
        BY <1>2, <2>1, JobStep DEF Job!vars, status, published
    <2>2. CASE (\A a \in Audits : audit'[a] = Interrupted(audit[a])) /\ UNCHANGED stored
        BY <1>2, <2>2, JobRestart
    <2>3. CASE UNCHANGED <<audit, stored>>
        BY <2>3 DEF Job!vars
    <2> QED BY <1>2, <2>1, <2>2, <2>3, StepConcerns
<1> QED BY <1>1, <1>2, HandoverHolds, PTL DEF Spec, Job!Spec

=============================================================================
