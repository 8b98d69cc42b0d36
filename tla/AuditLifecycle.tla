--------------------------- MODULE AuditLifecycle ---------------------------
(***************************************************************************)
(* The life of an audit in the hosted service, from the request that       *)
(* queues it to the row that holds its outcome.                            *)
(*                                                                         *)
(* An audit is executed by one of two parties.  A background task of the   *)
(* server (execute_audit) clones and audits it, unless the owner's backend *)
(* is claude-code: then the task leaves it queued, and a runner process on *)
(* the owner's own machine claims it over HTTP, audits it and posts what   *)
(* it found, which a second background task (verify_runner_result) checks  *)
(* against the server's own checkout before storing it.  Nothing but the   *)
(* audit's row in the database tells these parties about each other, and   *)
(* none of them locks it.                                                  *)
(*                                                                         *)
(* Every database session is modelled as the ORM runs it.  A session keeps *)
(* the row it first read (expire_on_commit is off), and a commit writes    *)
(* only the columns whose assigned value differs from the value that the   *)
(* session has seen, whatever the row holds by then.  A commit is atomic;  *)
(* reading and committing are separate steps of every handler.             *)
(***************************************************************************)
EXTENDS Naturals, Sequences

CONSTANTS
    MaxAudits,   \* bound: how many audits are ever queued
    Commits,     \* the commits a clone can come out at
    NoCommit,    \* a column or an argument that names no commit
    Owners,      \* whom audits belong to: accounts, and nobody (a webhook's)
    NoOwner,     \* the owner column of a row that does not exist
    Triggers,    \* the ways an audit is queued: [owner, commit, pinned]
    Runners,     \* runner processes; each dies at most once
    Serves,      \* Serves[r]: the owners whose audits r's account may claim
    Choices,     \* Choices[o]: the backends o may choose in the settings
    Checks,      \* bound: verifications of runner results under way at once
    Overrun      \* whether a claim may turn 45 minutes old in its holder's hands

Audits == 1 .. MaxAudits      \* numbered in the order of created_at
NoAudit == 0
RunnerBackend == "claude-code"
Backends == {RunnerBackend, "server"}

ASSUME BoundAssumption == MaxAudits \in Nat
ASSUME NoneAssumption == NoCommit \notin Commits /\ NoOwner \notin Owners
ASSUME TriggerAssumption ==
    Triggers \subseteq [owner : Owners, commit : Commits \cup {NoCommit},
                        pinned : Commits \cup {NoCommit}]
ASSUME ServesAssumption == Serves \in [Runners -> SUBSET Owners]
ASSUME ChoicesAssumption == Choices \in [Owners -> SUBSET Backends]
ASSUME OverrunAssumption == Overrun \in BOOLEAN

VARIABLES
    audit,     \* the audits table: id -> row
    stored,    \* id -> the results stored with the audit, in the order stored
    worker,    \* id -> the background task execute_audit of the audit
    runner,    \* the runner processes
    request,   \* r -> the server's handling of r's HTTP request
    check,     \* the background tasks verify_runner_result
    up,        \* whether the server process runs
    backend    \* owner -> the backend chosen in the settings

vars == <<audit, stored, worker, runner, request, check, up, backend>>

-----------------------------------------------------------------------------
(***************************************************************************)
(* Rows and sessions                                                       *)
(***************************************************************************)

\* The claim column holds runner_claimed_at: NULL, a moment less than
\* CLAIM_TIMEOUT ago, or an older one.  "now" is only ever assigned.
Claims == {"none", "fresh", "stale"}
Statuses == {"none", "pending", "running", "done", "error", "deleted"}

\* error: whether the row carries an error text.
Row == [status : Statuses, error : BOOLEAN, claim : Claims,
        commit : Commits \cup {NoCommit},
        owner : Owners \cup {NoOwner}, pinned : Commits \cup {NoCommit}]

NoRow == [status |-> "none", error |-> FALSE, claim |-> "none",
          commit |-> NoCommit, owner |-> NoOwner, pinned |-> NoCommit]

Exists(row) == row.status \notin {"none", "deleted"}

\* The column after a commit: now is what it holds, seen what the session read
\* or last wrote, want what the handler assigned.
Column(now, seen, want) == IF want = seen THEN now ELSE want

\* Faulty: the claim is written as any other column.
ClaimColumnFaulty(now, seen, want) == Column(now, seen, want)

\* A new claim is a new timestamp, which no session has seen before.
ClaimColumn(now, seen, want) ==
    IF want = "now" THEN "fresh" ELSE Column(now, seen, want)

Flush(now, seen, want) ==
    [status |-> Column(now.status, seen.status, want.status),
     error  |-> Column(now.error, seen.error, want.error),
     claim  |-> ClaimColumn(now.claim, seen.claim, want.claim),
     commit |-> Column(now.commit, seen.commit, want.commit),
     owner  |-> now.owner,
     pinned |-> now.pinned]

\* Faulty: a result stored leaves the error text of an earlier attempt.
StoredFaulty(seen) == [seen EXCEPT !.status = "done"]
\* Faulty: the claim outlives the audit.
UnclaimedFaulty(seen) == seen

\* What a handler assigns, on top of the row it read.
Running(seen, commit) == [seen EXCEPT !.status = "running", !.commit = commit]
Claimed(seen) == [seen EXCEPT !.status = "running", !.claim = "now"]
Failed(seen) == [seen EXCEPT !.status = "error", !.error = TRUE]
Stored(seen) == [seen EXCEPT !.status = "done", !.error = FALSE]
Unclaimed(seen) == [seen EXCEPT !.claim = "none"]

\* A result as it is stored: the commit whose code the findings are about, and
\* the commit the server checked their evidence at (NoCommit: it could check
\* out none, and every finding is downgraded to unverified).
Result == [audited : Commits \cup {NoCommit}, checked : Commits \cup {NoCommit}]

\* What clone_repo and clone_at_commit can come out at for this row.
Checkouts(row) == IF row.pinned = NoCommit THEN Commits ELSE {row.pinned}

-----------------------------------------------------------------------------
(***************************************************************************)
(* The parties                                                             *)
(***************************************************************************)

NoWorker == [pc |-> "none", seen |-> NoRow]
Worker == [pc : {"queued", "clone", "audit"}, seen : Row] \cup {NoWorker}

\* A runner waits while the server handles its request; job is the audit it
\* works on, or asked about.
IdleRunner == [pc |-> "idle", job |-> NoAudit]
StoppedRunner == [pc |-> "stopped", job |-> NoAudit]
Runner == [pc : {"waiting", "working"}, job : Audits] \cup {IdleRunner, StoppedRunner}

\* A request between its read of the row and its commit; at is the commit that
\* the runner says it audited.
NoRequest == [kind |-> "none", job |-> NoAudit, seen |-> NoRow, want |-> NoRow,
              at |-> NoCommit]
Want == [status : Statuses, error : BOOLEAN, claim : Claims \cup {"now"},
         commit : Commits \cup {NoCommit},
         owner : Owners \cup {NoOwner}, pinned : Commits \cup {NoCommit}]
Request == [kind : {"claim", "result", "failure"}, job : Audits, seen : Row,
            want : Want, at : Commits \cup {NoCommit}] \cup {NoRequest}

NoCheck == [pc |-> "none", job |-> NoAudit, audited |-> NoCommit, seen |-> NoRow]
Check == [pc : {"scheduled", "checking"}, job : Audits,
          audited : Commits \cup {NoCommit}, seen : Row] \cup {NoCheck}

TypeOK ==
    /\ audit \in [Audits -> Row]
    /\ stored \in [Audits -> Seq(Result)]
    /\ worker \in [Audits -> Worker]
    /\ runner \in [Runners -> Runner]
    /\ request \in [Runners -> Request]
    /\ check \in [Checks -> Check]
    /\ up \in BOOLEAN
    /\ backend \in [Owners -> Backends]

Init ==
    /\ audit = [a \in Audits |-> NoRow]
    /\ stored = [a \in Audits |-> <<>>]
    /\ worker = [a \in Audits |-> NoWorker]
    /\ runner = [r \in Runners |-> IdleRunner]
    /\ request = [r \in Runners |-> NoRequest]
    /\ check = [k \in Checks |-> NoCheck]
    /\ up = TRUE
    /\ backend \in [Owners -> Backends]
    /\ \A o \in Owners : backend[o] \in Choices[o]

-----------------------------------------------------------------------------
(***************************************************************************)
(* Queueing, settings, deletion                                            *)
(***************************************************************************)

\* queue_audit: the row and the background task, for a form, a webhook, a
\* pull request or a replay.
Queue(a, t) ==
    /\ up
    /\ audit[a] = NoRow
    /\ \A b \in Audits : b < a => audit[b] # NoRow
    /\ audit' = [audit EXCEPT ![a] =
          [status |-> "pending", error |-> FALSE, claim |-> "none",
           commit |-> t.commit, owner |-> t.owner, pinned |-> t.pinned]]
    /\ worker' = [worker EXCEPT ![a] = [pc |-> "queued", seen |-> NoRow]]
    /\ UNCHANGED <<stored, runner, request, check, up, backend>>

\* put_settings: another backend from here on, queued audits included.
PutSettings(o) ==
    /\ up
    /\ \E b \in Choices[o] : backend' = [backend EXCEPT ![o] = b]
    /\ UNCHANGED <<audit, stored, worker, runner, request, check, up>>

\* delete_audit: the row and, by cascade, all that is stored with it, whoever
\* is working on it.
Delete(a) ==
    /\ up
    /\ Exists(audit[a])
    /\ audit' = [audit EXCEPT ![a] = [NoRow EXCEPT !.status = "deleted"]]
    /\ stored' = [stored EXCEPT ![a] = <<>>]
    /\ UNCHANGED <<worker, runner, request, check, up, backend>>

-----------------------------------------------------------------------------
(***************************************************************************)
(* The server's own execution: execute_audit                               *)
(***************************************************************************)

\* A task's commit on a row deleted meanwhile fails, and so does the commit of
\* the error it then tries to record: the task ends without a trace.
CommitOrVanish(a, row) ==
    audit' = [audit EXCEPT ![a] = IF Exists(audit[a]) THEN row ELSE audit[a]]

WorkerEnds(a) == worker' = [worker EXCEPT ![a] = NoWorker]

\* Reads the row, then the owner's settings.  The audit is left queued for a
\* runner, fails because a stored key cannot be decrypted (only the backends
\* the server runs have a key), or goes on to the clone.
\* Faulty: the server runs the audits of every backend.
ServerRunsFaulty(a) == Exists(audit[a])

ServerRuns(a) == Exists(audit[a]) /\ backend[audit[a].owner] # RunnerBackend

WorkerBegin(a) ==
    /\ up
    /\ worker[a].pc = "queued"
    /\ \/ /\ ~ ServerRuns(a)
          /\ WorkerEnds(a)
          /\ UNCHANGED audit
       \/ /\ ServerRuns(a)
          /\ CommitOrVanish(a, Failed(audit[a]))
          /\ WorkerEnds(a)
       \/ /\ ServerRuns(a)
          /\ worker' = [worker EXCEPT ![a] = [pc |-> "clone", seen |-> audit[a]]]
          /\ UNCHANGED audit
    /\ UNCHANGED <<stored, runner, request, check, up, backend>>

\* The clone worked: its commit and "running" are committed, and the session
\* goes on with what it has just written.
WorkerClone(a) ==
    /\ up
    /\ worker[a].pc = "clone"
    /\ \E c \in Checkouts(worker[a].seen) :
          LET seen == worker[a].seen
              want == Running(seen, c)
          IN  /\ CommitOrVanish(a, Flush(audit[a], seen, want))
              /\ worker' = [worker EXCEPT ![a] =
                    IF Exists(audit[a]) THEN [pc |-> "audit", seen |-> want]
                                        ELSE NoWorker]
    /\ UNCHANGED <<stored, runner, request, check, up, backend>>

\* CloneError or AuditError: the failure is written by the same session.
WorkerFail(a) ==
    /\ up
    /\ worker[a].pc \in {"clone", "audit"}
    /\ CommitOrVanish(a, Flush(audit[a], worker[a].seen, Failed(worker[a].seen)))
    /\ WorkerEnds(a)
    /\ UNCHANGED <<stored, runner, request, check, up, backend>>

\* Any other exception: the rollback makes the session forget what it has seen,
\* so that the failure is written over whatever the row holds.
WorkerCrash(a) ==
    /\ up
    /\ worker[a].pc \in {"clone", "audit"}
    /\ CommitOrVanish(a, Failed(audit[a]))
    /\ WorkerEnds(a)
    /\ UNCHANGED <<stored, runner, request, check, up, backend>>

\* store_result and the modules after it, in the transaction that ends the
\* audit.  The evidence was checked in the checkout that was audited.
WorkerStore(a) ==
    /\ up
    /\ worker[a].pc = "audit"
    /\ LET seen == worker[a].seen
       IN  /\ CommitOrVanish(a, Flush(audit[a], seen, Stored(seen)))
           /\ stored' = IF Exists(audit[a])
                        THEN [stored EXCEPT ![a] = Append(@,
                                 [audited |-> seen.commit, checked |-> seen.commit])]
                        ELSE stored
    /\ WorkerEnds(a)
    /\ UNCHANGED <<runner, request, check, up, backend>>

-----------------------------------------------------------------------------
(***************************************************************************)
(* A runner takes an audit: claim_next, over /api/runner/claim             *)
(***************************************************************************)

Sees(r, row) == row.owner \in Serves[r]

\* Faulty: a running audit may be taken whatever its claim.
TakeableFaulty(row) ==
    \/ row.status = "pending" /\ row.claim = "none"
    \/ row.status = "running"

\* Never claimed, or the previous runner vanished.
Takeable(row) ==
    \/ row.status = "pending" /\ row.claim = "none"
    \/ row.status \in {"pending", "running"} /\ row.claim = "stale"

\* The rows r's account may claim now; the oldest one is taken.
Candidates(r) == {a \in Audits : Sees(r, audit[a]) /\ Takeable(audit[a])}

\* The poll of an idle runner, up to the choice of a row.  Finding none
\* changes nothing: the runner sleeps and polls again.
ClaimSelect(r) ==
    /\ up
    /\ runner[r].pc = "idle" /\ request[r].kind = "none"
    /\ \E a \in Candidates(r) :
          /\ \A b \in Candidates(r) : a <= b
          /\ request' = [request EXCEPT ![r] =
                [kind |-> "claim", job |-> a, seen |-> audit[a],
                 want |-> Claimed(audit[a]), at |-> NoCommit]]
          /\ runner' = [runner EXCEPT ![r] = [pc |-> "waiting", job |-> a]]
    /\ UNCHANGED <<audit, stored, worker, check, up, backend>>

\* The answer to a request: only a runner that still waits hears it.
Answer(r, state) ==
    runner' = [runner EXCEPT ![r] = IF @.pc = "waiting" THEN state ELSE @]

\* The commit of the claim, which hands the job out.  The row may have been
\* deleted: the request fails and the runner polls again.
ClaimCommit(r) ==
    LET q == request[r]
        found == Exists(audit[q.job])
    IN  /\ up
        /\ q.kind = "claim"
        /\ CommitOrVanish(q.job, Flush(audit[q.job], q.seen, q.want))
        /\ Answer(r, IF found THEN [pc |-> "working", job |-> q.job] ELSE IdleRunner)
        /\ request' = [request EXCEPT ![r] = NoRequest]
        /\ UNCHANGED <<stored, worker, check, up, backend>>

\* Anything that leaves the runner's process dead: it is killed, its machine
\* goes away, or its token is revoked.  A request it had sent goes on.
RunnerDies(r) ==
    /\ runner[r].pc # "stopped"
    /\ runner' = [runner EXCEPT ![r] = StoppedRunner]
    /\ UNCHANGED <<audit, stored, worker, request, check, up, backend>>

\* A poll or a post that cannot connect raises an exception that request()
\* does not catch: the process ends, and a result it was posting is lost.
RunnerCannotConnect(r) ==
    /\ ~ up
    /\ runner[r].pc \in {"idle", "working"}
    /\ runner' = [runner EXCEPT ![r] = StoppedRunner]
    /\ UNCHANGED <<audit, stored, worker, request, check, up, backend>>

-----------------------------------------------------------------------------
(***************************************************************************)
(* A runner posts what it found: run_one, and runner_result                *)
(***************************************************************************)

\* Faulty: a commit the row already names is not replaced.
ReportedFaulty(seen, c) ==
    [Claimed(seen) EXCEPT !.commit = IF @ = NoCommit THEN c ELSE @]
\* Faulty: the failure is recorded, and the audit left running.
ReportedFailureFaulty(seen, c) == [Unclaimed(seen) EXCEPT !.error = TRUE]

\* What runner_result assigns for a result at commit c, or for a failure (c is
\* NoCommit when the clone itself failed).
Reported(seen, c) == [Claimed(seen) EXCEPT !.commit = c]
ReportedFailure(seen, c) ==
    [Unclaimed(Failed(seen)) EXCEPT !.commit = IF c = NoCommit THEN @ ELSE c]

\* The audit is over, well or not, and its result reaches the server, which
\* reads the row: an audit deleted or not claimed is refused, and the result
\* dropped.
ResultRead(r) ==
    LET a == runner[r].job
        row == audit[a]
    IN  /\ up
        /\ runner[r].pc = "working" /\ request[r].kind = "none"
        /\ IF ~ Exists(row) \/ row.claim = "none"
           THEN /\ runner' = [runner EXCEPT ![r] = IdleRunner]
                /\ UNCHANGED request
           ELSE /\ runner' = [runner EXCEPT ![r] = [pc |-> "waiting", job |-> a]]
                /\ \/ \E c \in Checkouts(row) :
                         request' = [request EXCEPT ![r] =
                            [kind |-> "result", job |-> a, seen |-> row,
                             want |-> Reported(row, c), at |-> c]]
                   \/ \E c \in Checkouts(row) \cup {NoCommit} :
                         request' = [request EXCEPT ![r] =
                            [kind |-> "failure", job |-> a, seen |-> row,
                             want |-> ReportedFailure(row, c), at |-> c]]
        /\ UNCHANGED <<audit, stored, worker, check, up, backend>>

\* The commit of the result, and the task that will check it.  On a row
\* deleted meanwhile the request fails, and its task never runs.
ResultCommit(r) ==
    LET q == request[r]
    IN  /\ up
        /\ q.kind = "result"
        /\ CommitOrVanish(q.job, Flush(audit[q.job], q.seen, q.want))
        /\ IF Exists(audit[q.job])
           THEN \E k \in Checks :
                   /\ check[k].pc = "none"
                   /\ check' = [check EXCEPT ![k] =
                         [pc |-> "scheduled", job |-> q.job,
                          audited |-> q.at, seen |-> NoRow]]
           ELSE UNCHANGED check
        /\ Answer(r, IdleRunner)
        /\ request' = [request EXCEPT ![r] = NoRequest]
        /\ UNCHANGED <<stored, worker, up, backend>>

FailureCommit(r) ==
    LET q == request[r]
    IN  /\ up
        /\ q.kind = "failure"
        /\ CommitOrVanish(q.job, Flush(audit[q.job], q.seen, q.want))
        /\ Answer(r, IdleRunner)
        /\ request' = [request EXCEPT ![r] = NoRequest]
        /\ UNCHANGED <<stored, worker, check, up, backend>>

-----------------------------------------------------------------------------
(***************************************************************************)
(* The server checks a runner's result: verify_runner_result               *)
(***************************************************************************)

CheckEnds(k) == check' = [check EXCEPT ![k] = NoCheck]

\* Reads the row; the commit it will check out is the row's.
CheckBegin(k) ==
    /\ up
    /\ check[k].pc = "scheduled"
    /\ IF Exists(audit[check[k].job])
       THEN check' = [check EXCEPT ![k].pc = "checking",
                                   ![k].seen = audit[check[k].job]]
       ELSE CheckEnds(k)
    /\ UNCHANGED <<audit, stored, worker, runner, request, up, backend>>

\* The evidence is checked at the row's commit, or no commit could be checked
\* out, and the result is stored; the claim ends in the same commit.
CheckStore(k) ==
    LET a == check[k].job
        seen == check[k].seen
    IN  /\ up
        /\ check[k].pc = "checking"
        /\ CommitOrVanish(a, Flush(audit[a], seen, Unclaimed(Stored(seen))))
        /\ \E c \in {seen.commit, NoCommit} :
              stored' = IF Exists(audit[a])
                        THEN [stored EXCEPT ![a] = Append(@,
                                 [audited |-> check[k].audited, checked |-> c])]
                        ELSE stored
        /\ CheckEnds(k)
        /\ UNCHANGED <<worker, runner, request, up, backend>>

\* Any exception: rolled back, then written over whatever the row holds.
CheckFail(k) ==
    LET a == check[k].job
    IN  /\ up
        /\ check[k].pc = "checking"
        /\ CommitOrVanish(a, Unclaimed(Failed(audit[a])))
        /\ CheckEnds(k)
        /\ UNCHANGED <<stored, worker, runner, request, up, backend>>

-----------------------------------------------------------------------------
(***************************************************************************)
(* Time and restarts                                                       *)
(***************************************************************************)

\* Somebody still works on the audit, or is about to, by its claim.
Attended(a) ==
    \/ \E r \in Runners : runner[r].pc # "stopped" /\ runner[r].job = a
    \/ \E r \in Runners : request[r].job = a
    \/ \E k \in Checks : check[k].job = a

\* CLAIM_TIMEOUT passes since the claim was made or renewed.
ClaimTimeout(a) ==
    /\ audit[a].claim = "fresh"
    /\ Overrun \/ ~ Attended(a)
    /\ audit' = [audit EXCEPT ![a].claim = "stale"]
    /\ UNCHANGED <<stored, worker, runner, request, check, up, backend>>

\* The process ends with every task and request in it; a runner waiting for an
\* answer gets a connection error, which nothing catches.
ServerStop ==
    /\ up
    /\ up' = FALSE
    /\ worker' = [a \in Audits |-> NoWorker]
    /\ request' = [r \in Runners |-> NoRequest]
    /\ check' = [k \in Checks |-> NoCheck]
    /\ runner' = [r \in Runners |->
          IF runner[r].pc = "waiting" THEN StoppedRunner ELSE runner[r]]
    /\ UNCHANGED <<audit, stored, backend>>

\* Faulty: nothing is closed out at startup.
InterruptedNot(row) == row
\* Faulty: everything is closed out at startup.
InterruptedAll(row) == IF Exists(row) THEN Failed(row) ELSE row

\* fail_interrupted_audits: what is pending or running at startup is failed.
Interrupted(row) ==
    IF row.status \in {"pending", "running"} THEN Failed(row) ELSE row

ServerStart ==
    /\ ~ up
    /\ up' = TRUE
    /\ audit' = [a \in Audits |-> Interrupted(audit[a])]
    /\ UNCHANGED <<stored, worker, runner, request, check, backend>>

-----------------------------------------------------------------------------
WorkerStep(a) == \/ WorkerBegin(a) \/ WorkerClone(a) \/ WorkerStore(a)
                 \/ WorkerFail(a) \/ WorkerCrash(a)
RequestStep(r) == ClaimCommit(r) \/ ResultCommit(r) \/ FailureCommit(r)
RunnerStep(r) == ClaimSelect(r) \/ ResultRead(r) \/ RunnerCannotConnect(r)
CheckStep(k) == CheckBegin(k) \/ CheckStore(k) \/ CheckFail(k)

Next ==
    \/ \E a \in Audits, t \in Triggers : Queue(a, t)
    \/ \E o \in Owners : PutSettings(o)
    \/ \E a \in Audits : Delete(a) \/ WorkerStep(a) \/ ClaimTimeout(a)
    \/ \E r \in Runners : RunnerStep(r) \/ RequestStep(r) \/ RunnerDies(r)
    \/ \E k \in Checks : CheckStep(k)
    \/ ServerStop
    \/ ServerStart

Spec == Init /\ [][Next]_vars

\* What is scheduled runs: background tasks and requests are threads of the
\* server, subprocesses have timeouts, a runner that lives goes on polling and
\* working, time passes, and the service is restarted when it stops.  Nothing
\* makes anybody queue an audit, change a setting, delete, die or stop.
Fairness ==
    /\ \A a \in Audits : WF_vars(WorkerStep(a)) /\ WF_vars(ClaimTimeout(a))
    /\ \A r \in Runners : WF_vars(RunnerStep(r)) /\ WF_vars(RequestStep(r))
    /\ \A k \in Checks : WF_vars(CheckStep(k))
    /\ WF_vars(ServerStart)

FairSpec == Spec /\ Fairness

-----------------------------------------------------------------------------
(***************************************************************************)
(* When the parties cannot meet                                            *)
(*                                                                         *)
(* Nothing in the code keeps two parties off one audit except its claim,   *)
(* so what follows is promised only where the parties cannot meet: one     *)
(* runner process claims an owner's audits, those audits are never the     *)
(* server's to run, and no party holds a claim for 45 minutes.             *)
(***************************************************************************)
Exclusive ==
    /\ \A r, s \in Runners : Serves[r] \cap Serves[s] # {} => r = s
    /\ \A r \in Runners : \A o \in Serves[r] : Choices[o] \subseteq {RunnerBackend}
    /\ ~ Overrun

-----------------------------------------------------------------------------
(***************************************************************************)
(* Properties                                                              *)
(***************************************************************************)

\* No session works from a row that has moved on: what a task or a request has
\* read is still what the table holds when it commits, unless the audit has
\* been deleted.  Column-wise writes are only harmless because of this.
SessionsCurrent ==
    \A a \in Audits : Exists(audit[a]) =>
        /\ worker[a].pc \in {"clone", "audit"} => worker[a].seen = audit[a]
        /\ \A r \in Runners :
              request[r].kind # "none" /\ request[r].job = a => request[r].seen = audit[a]
        /\ \A k \in Checks :
              check[k].pc = "checking" /\ check[k].job = a => check[k].seen = audit[a]

\* The parties executing an audit: its background task, the runners at work on
\* it, the results about to be committed, the results being checked.
Executing(a) ==
    [server |-> worker[a].pc \in {"clone", "audit"},
     runners |-> {r \in Runners : runner[r].pc = "working" /\ runner[r].job = a},
     results |-> {r \in Runners : request[r].kind \in {"result", "failure"}
                                   /\ request[r].job = a},
     checks |-> {k \in Checks : check[k].job = a}]

\* An audit is in the hands of one party at a time: the server, or one runner,
\* or the handling of its one result, or the one check of that result.
OneParty ==
    \A a \in Audits :
        LET x == Executing(a)
        IN  /\ x.server => x.runners = {} /\ x.results = {} /\ x.checks = {}
            /\ x.runners # {} => x.results = {} /\ x.checks = {}
            /\ x.results # {} => x.checks = {}
            /\ \A r, s \in x.runners : r = s
            /\ \A r, s \in x.results : r = s
            /\ \A k, l \in x.checks : k = l

\* Findings are stored once and only with a finished audit, and a finished
\* audit carries no error of an earlier attempt and no claim a runner could
\* pick up again: whatever failed on the way left nothing half-stored.
DoneIsWhole ==
    \A a \in Audits :
        /\ Len(stored[a]) = IF audit[a].status = "done" THEN 1 ELSE 0
        /\ audit[a].status = "done" => ~ audit[a].error /\ audit[a].claim = "none"

\* What is stored was found in the commit the audit names, and its evidence
\* was checked at that commit or counts as unverified; a pinned audit names
\* the commit it was pinned to.
CheckedAtItsCommit ==
    \A a \in Audits : \A i \in DOMAIN stored[a] :
        /\ stored[a][i].audited = audit[a].commit
        /\ stored[a][i].checked \in {audit[a].commit, NoCommit}
        /\ audit[a].commit \in Checkouts(audit[a])

\* An audit shown as running is being executed by the server, or its result is
\* being checked there, or it has a claim that lets a runner take it again
\* should its holder vanish.
NotStranded ==
    up => \A a \in Audits :
             audit[a].status = "running" =>
                 \/ worker[a].pc = "audit"
                 \/ \E k \in Checks : check[k].job = a
                 \/ audit[a].claim # "none"

\* A finished audit stays as it is until it is deleted: no late result, no
\* restart and no expired claim takes it back or overwrites it.
DoneIsFinal ==
    [][\A a \in Audits :
          audit[a].status = "done" =>
              \/ audit'[a].status = "deleted"
              \/ audit'[a] = audit[a] /\ stored'[a] = stored[a]]_vars

\* An audit settles: it finishes, fails, is deleted, or waits for a runner that
\* no longer exists (every process that could claim it has stopped, and no
\* request, check or task of the server has it in hand).
Settled(a) == audit[a].status \in {"none", "done", "error", "deleted"}
Abandoned(a) ==
    /\ worker[a].pc = "none"
    /\ \A r \in Runners :
          /\ Sees(r, audit[a]) => runner[r].pc = "stopped"
          /\ request[r].job # a
    /\ \A k \in Checks : check[k].job # a
AuditsSettle ==
    \A a \in Audits : (~ Settled(a)) ~> (Settled(a) \/ Abandoned(a))

\* What the service promises of an audit, whoever executes it: see AuditJob.
Job == INSTANCE AuditJob WITH
          status <- [a \in Audits |-> audit[a].status],
          published <- [a \in Audits |->
              [i \in DOMAIN stored[a] |-> stored[a][i].audited]]

\* Every step of the parties is a step of the promised life of each audit.
ImplementsAuditJob == Job!Spec

-----------------------------------------------------------------------------
(***************************************************************************)
(* What the documentation and the tests say, and the code does not do      *)
(***************************************************************************)

\* test_a_claimed_audit_is_not_handed_out_twice: "a claimed audit is not handed
\* out twice".  Two polls that both read the row before either commits its
\* claim both get the audit.
HandedOutOnce ==
    \A r, s \in Runners :
        runner[r].pc = "working" /\ runner[s].pc = "working"
        /\ runner[r].job = runner[s].job => r = s

\* README.md: "the server clones the exact commit the runner audited and checks
\* what it sent before storing it".  It clones the commit that the row names
\* when the check begins, which another result may have replaced.
ChecksTheAuditedCommit ==
    \A a \in Audits : \A i \in DOMAIN stored[a] :
        stored[a][i].checked \in {stored[a][i].audited, NoCommit}

-----------------------------------------------------------------------------
(***************************************************************************)
(* Why the properties hold where Exclusive does                            *)
(*                                                                         *)
(* An audit is handed from one party to the next through its claim alone,  *)
(* so the argument is about what each party may conclude from the row:     *)
(* whoever holds an audit for a runner holds it under a fresh claim, which *)
(* keeps claim_next away from it, and what the server runs itself is never *)
(* claimed at all.                                                         *)
(***************************************************************************)

\* r has the audit: its process works on it, or a request of its is under way.
Holds(r, a) ==
    \/ runner[r].pc = "working" /\ runner[r].job = a
    \/ request[r].kind # "none" /\ request[r].job = a

Checked(a) == \E k \in Checks : check[k].pc # "none" /\ check[k].job = a
ForRunners(row) == \E r \in Runners : Sees(r, row)
AtWork(a) == worker[a].pc \in {"clone", "audit"}

\* Every party works on an audit that is its own to execute, and no party
\* outlives the server process that it is part of.
Ownership ==
    /\ \A o \in Owners : backend[o] \in Choices[o]
    /\ \A a \in Audits : Exists(audit[a]) =>
          /\ audit[a].owner \in Owners
          /\ AtWork(a) => ~ ForRunners(audit[a])
          /\ Checked(a) => ForRunners(audit[a])
          /\ \A r \in Runners : Holds(r, a) => Sees(r, audit[a])
    /\ ~ up => /\ \A a \in Audits : worker[a].pc = "none"
               /\ \A r \in Runners : request[r].kind = "none"
               /\ \A k \in Checks : check[k].pc = "none"

\* One party per audit, also once it is deleted.
Exclusion ==
    /\ \A a \in Audits : AtWork(a) =>
          ~ Checked(a) /\ \A r \in Runners : ~ Holds(r, a)
    /\ \A a \in Audits : Checked(a) => \A r \in Runners : ~ Holds(r, a)
    /\ \A a \in Audits : \A r, s \in Runners : Holds(r, a) /\ Holds(s, a) => r = s
    /\ \A k, l \in Checks :
          check[k].pc # "none" /\ check[l].pc # "none" /\ check[k].job = check[l].job
             => k = l
    /\ \A r \in Runners : runner[r].pc = "working" => request[r].kind = "none"

\* What the row says while a party has the audit for a runner.
Held(row) == row.claim = "fresh" /\ row.status \in {"running", "error"}
HeldClaims ==
    \A r \in Runners, a \in Audits : Exists(audit[a]) =>
        /\ runner[r].pc = "working" /\ runner[r].job = a => Held(audit[a])
        /\ request[r].kind \in {"result", "failure"} /\ request[r].job = a =>
              Held(audit[a])
        /\ request[r].kind = "claim" /\ request[r].job = a => Takeable(audit[a])

\* What it says while a result is being checked: the commit is the result's.
CheckedClaims ==
    \A k \in Checks, a \in Audits :
        Exists(audit[a]) /\ check[k].pc # "none" /\ check[k].job = a =>
            /\ audit[a].claim = "fresh"
            /\ audit[a].status = "running"
            /\ audit[a].commit = check[k].audited
            /\ audit[a].commit \in Checkouts(audit[a])

\* What it says of the audits that runners execute, and of those that the
\* server executes.
RowClaims ==
    \A a \in Audits : Exists(audit[a]) =>
        IF ForRunners(audit[a])
        THEN audit[a].status = "running" => audit[a].claim # "none"
        ELSE /\ audit[a].claim = "none"
             /\ worker[a].pc \in {"queued", "clone"} => audit[a].status = "pending"
             /\ worker[a].pc = "audit" =>
                   /\ audit[a].status = "running"
                   /\ audit[a].commit \in Checkouts(audit[a])
             /\ up /\ audit[a].status = "running" => worker[a].pc = "audit"

\* What each session has seen is what the row holds; what it is going to
\* write follows from that.
Sessions ==
    /\ SessionsCurrent
    /\ \A r \in Runners :
          LET q == request[r]
          IN  /\ q.kind = "claim" => q.want = Claimed(q.seen)
              /\ q.kind = "result" => /\ q.want = Reported(q.seen, q.at)
                                      /\ q.at \in Checkouts(q.seen)
              /\ q.kind = "failure" => q.want = ReportedFailure(q.seen, q.at)

\* Rows that do not exist are blank and in nobody's hands.
Blank ==
    \A a \in Audits :
        /\ audit[a].status = "none" =>
              /\ audit[a] = NoRow
              /\ worker[a].pc = "none"
              /\ ~ Checked(a)
              /\ \A r \in Runners : ~ Holds(r, a)
        /\ audit[a].status = "deleted" => audit[a] = [NoRow EXCEPT !.status = "deleted"]

\* The inductive invariant.
Handover ==
    /\ TypeOK
    /\ Ownership
    /\ Exclusion
    /\ HeldClaims
    /\ CheckedClaims
    /\ RowClaims
    /\ Sessions
    /\ Blank
    /\ DoneIsWhole
    /\ CheckedAtItsCommit

=============================================================================
