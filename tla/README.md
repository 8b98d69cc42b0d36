# A verification development of secaudit

secaudit audits source repositories with a language model and with
deterministic analyses. This directory models the parts of it whose correctness
depends on the order in which things happen, as state machines, and the
analyses whose answers are easy to get wrong, as functions; it checks the models
with TLC on small instances, and proves the main results about both with TLAPS
for every instance.

`PROJECT.json` is the index: components, runs, mutants, the map from
definitions to source lines, findings, hazards and theorems.

## The system

A web service (`web/`, FastAPI over one SQL database) takes audits from a form,
from webhooks and from pull requests, and executes them in background tasks of
its own process. A person's Claude subscription works only on that person's
machine, so an owner may instead run `secaudit-runner.py` there: it claims the
owner's audits over HTTP, executes them, and posts what it found back. A command
line tool (`secaudit.py`) does one audit of a local project and keeps the
project's findings in a file. `analysis/` holds the analyses both use,
`mcp_server/` a client of the API.

| Component | State it keeps | Operations | Interacts with | Hard behaviour | What makes it correct |
|---|---|---|---|---|---|
| Audit lifecycle (`web/main.py`, `web/runnerqueue.py`, `secaudit-runner.py`) | the audits table: status, error, claim, commit, results | queue, execute, claim, post a result, check it, delete, restart | all parties through the row alone | unlocked reads and column-wise commits; claims that expire; restarts; late results | one party per audit; results whole, final and of the right commit; nothing stranded |
| Result modules (`web/main.py`, `record_*`) | the rows stored with an audit | store the findings, then the modules on them | the lifecycle's last step; every analysis | no checkout; a module that fails | nothing counts that the server did not see itself; what is missing is said |
| What-if (`web/whatif.py`, `web/sandbox.py`) | what-if records, one sandbox | request, try, finish | restart closes them out | the sandbox released on every path; a restart in between; measurements that fail | every try ends; promising means fixed and nothing broken |
| Twin (`analysis/twin.py`) | none (pure) | change the findings, compute the paths again | attacker model | a change that opens a path | what it says agrees with the recommended fixes |
| Immune memory (`analysis/immune.py`, `record_immune`) | fixes of findings, rules learnt from them, zombies | find fixed, test a rule, run rules, approve, revoke, delete | result modules, git, people | audits of any commits in open transactions at once; approval, revocation and deletion meanwhile; shallow clones; a module that fails half-way | a fix is the commit that removed the code; rules tell the flaw from its fix; references are to fixed findings; what rules match is reported |
| Differential state (`secaudit.py`) | findings file of a project | classify, suppress, baseline, save | command line only | two processes and one file; a file cut short | suppressions survive; nothing is fixed that was not looked at |
| Accounts, settings (`web/auth.py`, `web/settings.py`) | users, session tokens, encrypted keys | sign in, out, save settings | every request | expiry, revocation, a key for another backend | only invited accounts act; no key reaches another backend |
| Webhooks (`web/webhook.py`) | none | verify, classify, queue | lifecycle | redelivery, an event for a fork | one audit per accepted delivery, of the commit it names |
| Pull-request report (`web/prnotify.py`) | comments on GitHub | find, create or update, set status | after the lifecycle's commit | two audits of one pull request at once | one comment; the status is that of the head |
| Requests, coverage and answers (`analysis/chunking.py`, `audit_repository`) | none (pure), partial results | split, request, combine, send back | backends | budgets, a request that fails, a file that is cut | a risky file that was not read is a blind spot |
| Evidence check (`analysis/evidence.py`) | none (pure) | locate a snippet | lifecycle, checks | windows, elisions, masks | verified means found where a request was shown it |
| Falsifiability (`analysis/falsify.py`) | none (pure) | three attempts to refute, a verdict | result modules, the model's claims | namesakes, depth limits, conflicting evidence | code that runs and carries input is not refuted |
| Parallax (`analysis/parallax.py`) | none (pure) | compare views | result modules | neighbours of an invisible character, limits | bytes hidden in a text are seen, unless a presentation selector stands among them |
| Canaries (`analysis/canary.py`) | none (pure) | plant decoys, look for them | one request, repeated | decoys that move others | decoys stay whole and are found where they are |
| Attacker model (`analysis/attacker.py`) | none (pure) | cheapest paths, gravity in context, fixes | result modules, twin | rerouting, ties, uncertain steps | paths are cheapest; what is called cut is cut |
| Leverage and agent surface (`analysis/leverage.py`) | a budget of calls | score files, ask GitHub, list capabilities | GitHub | calls that fail, a budget that ends | no answer is not an answer |
| Drift, trust (`analysis/drift.py`, `analysis/trust.py`) | none (pure) | compare commits, score | result modules, pull-request report | missing base or module | controls that go are said; what was not measured is unknown |
| Taint (`analysis/taint.py`, `taint_js.py`) | none (pure) | follow input to dangerous calls, in Python and in JavaScript | scan | helpers of helpers, branches and loops in order of the text, limits on what is kept | what is followed is reported if it happens and happens if it is reported, with the exceptions that branches make |
| Dependencies (`analysis/deps.py`) | the components stored with an audit | list what manifests declare, ask OSV and the registries | scan, OSV, registries | batches that fail, limits, properties that refer to others | what is not known is not said, and no affected version is missed |
| Other scanners, reports, backends, git access, MCP server, frontend, migrations | none of their own | | | external effects, pattern tables, formatting | not modelled, see below |

## Modules

| Module | Models | |
|---|---|---|
| `AuditLifecycle` | the audits table, the parties that execute an audit, their sessions | detailed specification |
| `AuditJob` | what the service promises of an audit | abstract specification |
| `MCAuditLifecycle` | instances for TLC | |
| `AuditLifecycleProofs` | type correctness, the inductive invariant and what follows from it, finality and the refinement of `AuditJob` | proofs |
| `FindingsFile` | the command line tool's file of findings and the commands that change it | detailed specification |
| `MCFindingsFile` | instances for TLC | |
| `FindingsFileProofs` | what the file says, with and without overlapping commands | proofs |
| `ImmuneMemory` | what a project's audits remember of its fixes, and the people who decide about it | detailed specification |
| `MCImmuneMemory` | instances for TLC | |
| `ImmuneMemoryProofs` | that fixes are real, rules tell the flaw from the fix, references are to fixes, no fix is missed and no match of a rule is lost | proofs |
| `Service` | reports on pull requests and tries of fixes: the calls to GitHub, the sandbox, restarts | state machine, uses `PullRequest` |
| `MCService` | its deliveries, for TLC | |
| `ServiceProofs` | that a pull request has one comment and no try is forgotten | proofs |
| `Analyses` | one action per analysis: what it is asked, what it answers, and what the answer must be | composes the modules below |
| `FlowsAndPackages` | the analyses together with the two that recurse over nested code and properties; what these two must answer | extends `Analyses` |
| `MCAnalyses` | the cases each is asked about | |
| `AnalysesProofs` | what the answers of five analyses are worth, for every input | proofs |
| `AttackProofs` | that an attacker's paths are cheapest and the recommended fixes cut | proofs |
| `SearchProofs` | that the severities of findings and the simulation of changes agree with the paths | proofs |
| `CoverageProofs` | that what an audit did not see of a risky file is said, that decoys stay whole, and that a call that GitHub does not answer tells nothing | proofs |
| `Falsify`, `Attacker`, `Leverage`, `Parallax`, `Canary`, `Evidence`, `Drift`, `Trust`, `Taint`, `TaintJs`, `Twin`, `Deps` | the file of `analysis/` of that name (`Trust` also `assessment.py`; `TaintJs` is `taint_js.py`) | functions |
| `TaintSteps` | what both of them do with the steps of a flow | functions |
| `Requests` | `chunking.py`, `audit_repository`, and the model's answers in `secaudit.py` | functions |
| `Results` | `store_result` and the `record_*` chain of `web/main.py` | functions |
| `WhatIf` | `whatif.py` and `sandbox.py`; uses `Drift` | functions |
| `PullRequest` | `webhook.py`, `finding_diff`, `prnotify.report`; uses `Trust` | functions |

### AuditLifecycle

`audit` is the table: one record per row with the columns the parties
communicate by (`status`, whether `error` is set, the claim `runner_claimed_at`,
`commit_sha`, `user_id`, `pinned_commit`). `stored` holds, per audit, the
results stored with it: of which commit the findings are (`audited`), and at
which commit the server checked their evidence (`checked`). `worker[a]` is the
background task `execute_audit` of audit `a`, `runner[r]` a runner process,
`request[r]` the server's handling of its HTTP request between its read and its
commit, `check[k]` a background task `verify_runner_result`. `up` says whether
the server process runs, `backend` what each owner has chosen in the settings.

**Sessions.** The ORM's sessions are made with `expire_on_commit=False`: a
session keeps the row it first read, and a commit writes those columns whose
assigned value differs from what the session has seen. `Flush(now, seen, want)`
is that rule, column by column. A handler is two or more steps: it reads (and
keeps `seen`), and later commits a `Flush` of what it assigned over whatever the
row holds by then. A claim assigns the current time, which is new to every
session, so it is always written. After an exception the session is rolled back
and reads the row again, so the failure is written over whatever it holds
(`WorkerCrash`, `CheckFail`). A commit on a row that was deleted meanwhile fails
and leaves nothing (`CommitOrVanish`).

| Action | Code |
|---|---|
| `Queue` | `queue_audit`, from the form, webhooks, pull requests and replays |
| `PutSettings`, `Delete` | `put_settings`, `delete_audit` |
| `WorkerBegin` | `execute_audit`: reads the row and the owner's settings; leaves it queued, fails it, or goes on |
| `WorkerClone`, `WorkerStore`, `WorkerFail`, `WorkerCrash` | its clone, its result with all modules, `CloneError`/`AuditError`, any other exception |
| `ClaimSelect`, `ClaimCommit` | `claim_next` up to and from its commit |
| `ResultRead`, `ResultCommit`, `FailureCommit` | the end of `run_one`, and `runner_result` up to and from its commit |
| `CheckBegin`, `CheckStore`, `CheckFail` | `verify_runner_result` |
| `ClaimTimeout` | 45 minutes pass (`CLAIM_TIMEOUT`) |
| `RunnerDies`, `RunnerCannotConnect` | the runner's process ends; `request()` does not catch a refused connection |
| `ServerStop`, `ServerStart` | the process ends with its tasks and requests; `fail_interrupted_audits` |

**Where the parties can meet.** Nothing but the claim keeps two parties off one
audit, and `claim_next` neither locks the row nor looks at the owner's backend.
Two runner processes of one account, a server-side backend of an owner who also
has a runner, a change of backend while an audit is under way, and a claim that
expires in its holder's hands all put one audit into two parties' hands; then
sessions overwrite each other's columns. What the service promises is therefore
stated where they cannot meet (`Exclusive`): an owner's audits are claimed by
one runner process, are never the server's to run, and no claim is held for 45
minutes. Where they do meet, two runs check what survives (`liveness`) and two
show what does not (`handed_out_once`, `exact_commit`).

**Properties.** `SessionsCurrent` (no commit over a row the session has not
seen), `OneParty`, `DoneIsWhole` (one result, with a finished audit only, which
has no error and no claim), `CheckedAtItsCommit`, `DoneIsFinal`,
`ImplementsAuditJob`, `NotStranded`, `AuditsSettle`. `Handover` is the inductive
invariant.

### AuditJob

The life of an audit without its parties: submitted, started, failed, resumed
after a restart failed it, finished with exactly one result, removed.
`AuditLifecycle` implements it with `status` read off the row and `published`
off the commits of the stored results.

### FindingsFile

`file` and `tmp` are what the state file of a project and its temporary file
hold: a state (a status for every fingerprint, `"unknown"` for those it does not
hold), text that is not JSON (`Torn`), or nothing yet (`Cut`). `cmd[p]` is the
command that process `p` runs. Findings are told apart by fingerprint only:
`classify` treats each on its own.

| Action | Code |
|---|---|
| `Audit` | `audit_repository`: any set of reported findings, and which files the answered requests held |
| `LoadAndClassify` | `run_differential` from `load_state` to the evidence check |
| `Suppress`, `Baseline` | `cmd_suppress`, `cmd_baseline` up to `save_state` |
| `Open`, `Write`, `Replace`, `ReplaceFails` | `save_state`: the temporary file is truncated, written, renamed |
| `Kill` | the process ends anywhere |

The temporary file has one name for all processes. A handle follows the file it
was opened on (`at`, `Follow`): a rename by another process makes it lead to the
state file, a second one to a file without a name. A write over what somebody
else wrote leaves either text or neither.

`log` and `overlapped` are history variables: what the completed commands
reported and accepted, and whether two commands were ever between load and save
at once. `FileTellsHistory` compares the file with `StatusByHistory`, a
definition of the five statuses by the history of audits alone, as README.md's
table of statuses has it. `SuppressedStaysQuiet` is README.md's sentence about
suppressed findings; it holds without overlaps (`SuppressedStaysQuietAlone`).
`OnlyAskedIsAccepted` holds whatever overlaps.

### ImmuneMemory

The repository is part of the state, chosen once: `past[c]` is commit `c` with
its first-parent ancestors, `text[c][g]` the version of the code at place `g`.
A place and the code a finding there cites are one thing, a member of `Flaws`;
its other versions, the `SafeVersions`, are told apart only because a rule may
match them. A clone holds `HistoryDepth` commits of what it was made of
(`Fetched`), and git takes the last of them for parentless (`Edge`). When an
audit checks a given commit out, the clone holds the default branch too
(`Held`), cut off where either clone ends (`Cuts`).

`finding[a][g]` and `rule[r]` are the committed rows; `txn[a]` is what the open
transaction of audit `a` has written and nobody else sees. Reads see the audit's
own writes and what others have committed at that moment (READ COMMITTED); a
second writer of a row waits for the first (`Blocked`), and a write to or a
reference to a row that was deleted fails (`Dangling`, `Referred`).

| Action | Code |
|---|---|
| `Learn` | `store_result` (findings), and `record_immune` up to its flush: `find_fixed` and `validate` |
| `Recall` | the rest of `record_immune`: `fixed_before`, the approved rules, Semgrep and what its matches do |
| `Commit`, `Fail` | the end of `execute_audit`: its commit, or a roll-back |
| `Delete` | `delete_audit`, with the cascades of `models.py` |
| `Approve`, `Revoke` | `approve_immune_rule`, `revoke_immune_rule` |

`Learn` may stop with some findings handled, and `Recall` without a run of
Semgrep: the module's `except` keeps what was written. `FirstWithout` is the
range of commits git lists. Commits that change the code at a place touch its
file; others may touch it or not, so more than one answer is possible.

Two history variables: `asked[a]` are the rules audit `a` read as approved, and
`followed` the findings whose fix was recorded by an audit with the finding's
commit in the history its clone held. A fix recorded otherwise is a guess of
the range `previous..head`: `FixRemovedIt` says of every fix what README.md
says, and the run `fix_removed_it` refutes it; `FixIsReal` says it of the
followed ones, and is proved.

**Properties.** `FixIsReal` (`WasFixedBy`: the code is in every commit from the
finding's to the fix, and not in the fix), `FixesRecorded` (no fix is missed, by
whichever audits ran meanwhile), `RulesCatchTheFlaw`, `OriginsWereFixed`,
`RegressionsReported` (a match of an approved rule leads to a finding, unless the
rule has lost its finding or shares its identifier).

### Service

`audits` is again the audits table, with the columns a report needs; how an
audit comes to its outcome is `AuditLifecycle`'s subject and one step here.
`task[a]` is how far the background task of audit `a` is, `comments` those on
the pull request that bear the marker, `earlier` how many comments of others
come before them, `state` who set the state of each head. `whatifs` and `job`
are the tries of fixes and how far the request or task of each is.

| Action | Code |
|---|---|
| `Deliver` | `github_webhook` and `queue_audit`; what a delivery asks for is `PullRequest`'s `Asked` |
| `Begin`, `End` | `execute_audit` |
| `ListComments`, `WriteComment` | the calls of `upsert_comment`: what is written to was decided by an earlier answer |
| `SetState` | `Writer.status`, and the outcome on the audit |
| `Delete` | `delete_audit` |
| `Request`, `Reply` | `what_if`, which tries a fix itself where there is no sandbox |
| `Try`, `Tried`, `Finish` | `finish_what_if`: it takes the semaphore, tries, writes the record |
| `Stop`, `Start` | the process ends with its tasks and requests; `fail_interrupted_audits` |

Every call goes through, is refused, or goes through with its answer lost.
`OneComment`: a pull request has one comment, however often a delivery comes,
whichever calls fail and whenever the process stops. It has two exceptions that
the code does have, and says so: two reports that list the comments before
either writes (`overlapped`, a history variable), and a pull request with more
than the 300 comments that are looked through (`SeenComments`). `WhatIfsEnd`:
what is said to be running comes to an end.

### Analyses

An analysis is a function of what it is given, so its module has no variables;
`Analyses` gives it a case (`Ask`) and keeps its answer, one action per
analysis. Where the code feeds one answer to the next, so does the action:
requests, their answers, blind spots and coverage (`AuditFiles`); evidence,
rows, modules, trust and the report (`StoreAudit`); paths, fixes and what the
twin says of these fixes (`ModelAttacker`). What a regular expression or a
parser sees in a text is part of the case; what is done with it is the model.
`Taint` and `Deps` are recursive operators, which no module with a proof may
reach: `Analyses` takes their answers as constant operators (`FlowsIn`,
`PackagesIn`), and `FlowsAndPackages` says which they are. What the code
gives every analysis (an index has numbered functions, a text is a list) is a
named assumption on `Cases`, which TLC evaluates on all of them.
The properties compare an answer with a definition that does not compute it the
way the code does:

| Property | An answer of | is compared with |
|---|---|---|
| `NothingLiveIsRefuted` | `Falsify` | which functions really run, from entry points, and what they pass |
| `CheapestPaths` | `Attacker` | what makes costs distances in the graph, what the steps of a path cost, and whom a flaw brings nearer to a jewel |
| `CutsHold` | `Attacker` | distances once the steps of the chosen fixes are gone |
| `SearchesAgree` | `Attacker`, `Twin` | the searches through a finding's steps, the simulation of the same fixes and of confirming every finding |
| `OutsideNeverGuessed` | `Leverage`, `Deps` | what GitHub, OSV and the registries would have said; the versions that manifests mean (`Declared`, `Meaning`) |
| `RiskyUnseenIsSaid` | `Requests`, `Parallax`, `Trust` | what the requests that were answered carried |
| `DecoysStayWhole` | `Canary` | the decoys as they were made, looked up in the planted files |
| `EvidenceIsThere` | `Evidence` | the lines of the file and the manifest of what was sent |
| `BytesAreSeen` | `Parallax` | pairs of what `decode_hidden` counts as bytes, by position |
| `NothingUnseenCounts` | `Results`, `Trust`, `Drift`, `PullRequest` | what the checkout holds and which modules ran |
| `PromisingMeansFixed` | `WhatIf`, `Drift` | what the copy holds before and after the patch |
| `FlowsAreFollowed` | `Taint`, `TaintJs` | an interpreter (`Run`, `Value`) that goes every way through the functions (`Paths`) with input in them, callbacks where they are written |

Their antecedents leave out what the code does not promise, or gets wrong, and
each is named where it is: namesakes and calls at the level of a module in
`NothingLiveIsRefuted`; a patch of which something could not be measured
(`Measured`) in `PromisingMeansFixed`: a part of the scan that fails in the
patched copy only makes its findings look gone; a pair with U+FE0E or U+FE0F in
`BytesAreSeen`; in `FlowsAreFollowed`, code that `Taint` does not take in the order
it runs (`Followed`), flows longer than it keeps (`Short`), and what branches and
loops do to a walk in order of the text, below; Maven groups that are managed under a property in
`PackagesNeverGuessed`. That last limit is also where what is reported need not
exist: `ReportedFlowsAreReal` drops `Short` and is refuted.

`Taint` and `TaintJs` walk a function in order of the text: the lines of an `if`,
then those of its `else`, a loop's once. The modelled programs have ifs, tries and
loops, one in the other, with returns in them, and `Paths` has the ways through
them: either branch, a try that stops at any line and goes on with what handles
that, a loop that turns up to `MaxTurns` times. So the property has a direction for
each of two exceptions, which neither the text of `LIMITS` nor the module's
docstring names:

* what is reported happens, unless a name is given a value in one branch of an `if`
  and read in the other, or given where a return follows in the same branch and read
  after that branch (`OnTheWay`): no way goes by both;
* what happens is reported, unless a branch or a loop gives a name that had a value
  another one and the name is read outside it later in the text, or a loop reads a name before
  it gives it (`NothingPassedBy`): `_analyse` forgets a name that one branch
  overwrites (`tainted.pop`), and goes round no loop twice, so that a flow that is
  there is missed.

Without either exception, and without any conjunct of it, TLC finds a program that
violates the property.

Scores are exact fractions where the code rounds (`Trust`, `Leverage`), costs
tenths (`Attacker`), characters and tokens kinds (`Parallax`, `Evidence`).

## Runs

| Run | Instance | Shows |
|---|---|---|
| `lifecycle` | 2 audits, 2 commits, 3 owners (a runner each for two, the server for one), pinned and unpinned, 2 checks; 295,278 states | the safety properties and the refinement where the parties cannot meet |
| `liveness` | 1 audit, 2 commits, 2 runners of one account, 2 checks; 15,401 states, under `Fairness` | `NotStranded` and `AuditsSettle` where runners race |
| `handed_out_once` | 1 audit, 2 runners | violated: two polls claim one audit |
| `exact_commit` | 1 audit, 2 runners, 2 commits | violated: a result is checked at another result's commit |
| `findings_file` | 2 processes, 1 finding; 854,145 states | what the file says with and without overlaps |
| `suppressed_stays_quiet` | the same | violated: overlapping saves lose a confirmed suppression |
| `regressed_was_fixed` | 1 process, 2 findings in 2 files | violated: what an audit does not look at becomes fixed, then regressed |
| `immune_memory` | 3 audits, 2 at once, every history of 3 commits, one place, two safe versions; 1,689,766 states | the safety properties of fixes, rules and zombies |
| `fix_removed_it` | the same, clones of 2 commits | violated: an audit of another branch names a commit that never had the code |
| `service` | 2 audits, 2 tries, 8 deliveries about 2 heads, 0 or 1 earlier comment, with and without a sandbox; 854,812 states, under `Fairness` | `OneComment` and `WhatIfsEnd` |
| `analyses` | every case of `AllCases`; 334,439 states | the twelve properties above |
| `reported_flows_real` | the cases of `Taint` | violated: a helper that returns its parameter after ten assignments is taken to return input |

**Bounds.** `MaxAudits` audits are ever queued: audits share no state but the
runners and the check slots, so two show one audit's runner being busy with
another. Two commits distinguish "the commit of the row" from "another one".
`Checks` bounds verifications under way at once (the code has no such bound):
two suffice for two runners, which wait for the answer to one result before they
work on the next audit. Each runner dies at most once; a new one is another
member of `Runners`. Restarts are not bounded. `FindingsFile` has no bound but
its sets: one finding suffices where only the processes matter, since every
operation treats each finding on its own; the theorems cover any number.
In `ImmuneMemory` three commits are the fewest with a fix that is neither end of
the range, a fix that is undone, or two branches; three audits the fewest in
which two compare themselves with one at once, or a third meets what the second
learnt. `HistoryDepth` is 3 in the passing run, where no clone is cut (a cut at
2 removes the histories of interest), and 2 in `fix_removed_it`; the theorems
hold for every depth. `Verdicts` holds only `"evidenced"` there, the verdict the
comparison looks at; the theorems hold for the others too. `LoosePatterns`
match one safe version too: a rule learnt from a fix to the other passes its
test and matches code that was never flawed.

In `Service`, two audits are the fewest whose reports meet and two tries the
fewest that wait for the sandbox; `SeenComments` is 300 in the code and 1 here,
and both sides of it are reached. In `Analyses`, programs have three functions,
so that a chain has a middle that may be a namesake; attacks up to two findings
with any divergences and combinations of two shapes, on repositories with three
kinds of little watched files; texts up to four characters, the longest
neighbourhood that is looked at; requests up to three files, budgets that cut
some; decoys up to the number of lines at which one can land in another; code of
up to three functions and calls three deep, chains of up to twelve assignments;
branches of up to two lines and loops of three, or a loop around an if, with every
choice of lines that give, overwrite, add to, read or return a name. Loops turn at
most twice (`MaxTurns`): more turns only matter to flows that come back in a loop,
which the second direction leaves out.
`MaxDivergences` is 3, so that some cases have more.

**Fairness.** Weak fairness for what the process schedules: background tasks and
requests are threads of the server, clones and model requests have timeouts,
runners poll in a loop, time passes, and the service is restarted when it stops
(`docker-compose.yml`, `restart: unless-stopped`). Nothing makes anybody queue,
delete, change a setting, die or stop. In `Service`, a try that could go on
does, and a stopped service is started. Weak fairness of each try suffices
although tries share the sandbox: each that waits can only be overtaken by the
other tries there are. Nothing makes a report or a call to GitHub happen.

## Proofs

From the named assumptions on the constants alone (`BoundAssumption`,
`NoneAssumption`, `TriggerAssumption`, `ServesAssumption`, `ChoicesAssumption`,
`OverrunAssumption`), for every number of audits, owners, runners, commits and
checks:

* `TypeCorrect`: `Spec => []TypeOK`, without `Exclusive`.
* `HandoverHolds`: `Exclusive => (Spec => []Handover)`. None of the properties is
  inductive: that nobody else has an audit follows from what its row says, and
  what its row says follows from who has it. `Handover` states both. Whoever
  holds an audit for a runner holds it under a fresh claim (`HeldClaims`,
  `CheckedClaims`), which keeps `claim_next` away; what the server runs is never
  claimed (`RowClaims`) and belongs to an owner no runner serves (`Ownership`);
  hence one party per audit (`Exclusion`), and what each has seen is what the
  row holds (`Sessions`), so that a column-wise commit writes exactly what was
  assigned (lemma `CommitCurrent`). There is one lemma per action; those that
  end alike share a lemma about the row and the party they leave
  (`HandoverServerRow`, `HandoverRequestRow`, `HandoverCheckRow`).
* `SessionsStayCurrent`, `OnePartyAtATime`, `DoneStaysWhole`,
  `ResultsAtTheirCommit`, `RunningIsNotStranded` follow from it.
* `DoneStaysFinal` and `LifecycleImplementsJob` (`Exclusive => (Spec =>
  ImplementsAuditJob)`): `Handover` fixes what is published of an audit, so what
  is left is which status may follow which (`StepConcerns`).

Of the findings file, from `ContentAssumption` (the contents that are not states
are not states) and `FileOfAssumption`, for every number of processes, findings
and files:

* `TypeCorrect`, and `NothingElseIsAccepted` (`Spec => []OnlyAskedIsAccepted`):
  an accepted mark is in `log.asked` wherever it is, in a command's copy, in the
  temporary file or in the file (`AskedInv`), and no step adds one.
* `FileIsHistory` and `SuppressionsHold`: `AloneInv` says of the one command
  that is between load and save how far it has come (`Saving`): its text is
  computed from what the file still holds, and is in the temporary file once it
  is written. Completing it then moves the file and the history together
  (`AuditMovesHistory`, `MarksMoveHistory`).

Of the immune memory, from `VersionsAssumption`, `PatternsAssumption`,
`NamesAssumption`, `VerdictsAssumption`, `NoFindingAssumption` and
`BoundsAssumption`, for every repository, depth of clones and number of audits:

* `TypeCorrect` and `FixesAreReal`, by `FixInv`: what a transaction holds
  unwritten is real as long as the finding is there (`OpenFixes`), an evidenced
  row is about a commit that has the code (`StoredRows`), and an audit compares
  itself only with one that was done (`Compared`). `FixOfIsReal` is the
  argument about git: if the finding's commit is in the clone's history, the
  cuts lie before it (`CutsAreBefore`), so the range is the history between it
  and head; were the code missing from a commit before the fix, some commit of
  the range up to it would have removed it (`SomeCommitFixed`, by the least such
  commit), and git would have listed that one first.
* `RulesTellFlawFromFix` and `OriginsFixed`, by `MemoryInv`: an open
  transaction's rules refer to findings whose fix it writes (`OpenRules`), its zombies
  refer to findings with a fix, committed or its own (`OpenOrigins`), and the
  committed ones likewise. That needs `FixInv`: only the findings of a done audit
  get a fix, and only a deletion takes one away, which clears what refers to it.

* `FixesAreRecorded`, by `RecordInv`: a transaction that has looked for every fix
  holds one for each evidenced finding that is gone (`OpenRecorded`). That
  `find_fixed` does find one (`FixIsFound`) rests on the same two lemmas about git.
* `RegressionsAreReported`, by `ReportedInv`: only the rules of audits that have
  ended are validated, so what an audit asked is not written again but for its
  approval and its finding (`AskedStored`), and what these rules match is in the
  rows it is about to commit (`OpenReported`).

Of the service, from `SeenAssumption` (`SeenComments` is a number), for every
number of audits, tries and deliveries:

* `CommentsStayOne` (`Spec => []OneComment`), by `ReportInv`: a report between
  its two calls is the only one unless another overlapped it (`WriterAlone`), and
  the comment it has found is then the one there is (`WriterKnows`), whether the
  calls before went through, were refused or lost their answer.
* `FixesAreNotForgotten`: what is said to be running has a request or a task that
  ends it, or the service is stopped, and its start ends it. This is the part of
  `WhatIfsEnd` that is not about progress.

Of the analyses, for every set of cases that `AssessAssumption`,
`PatchAssumption`, `StoreAssumption`, `ViewsAssumption`, `EvidenceAssumption`,
`AttackAssumption`, `LeverageAssumption`, `AuditAssumption` and
`DecoysAssumption` describe, of any size:

* An analysis answers in one step, so the state machine adds only that what is asked
  is a case and an answer what the analysis finds of it (the lemma `InvHolds`, which
  is no result by itself); each property then is a lemma about a function.
* `AssessmentsAreSound` (`NothingLiveIsRefuted`): a search that stops after as
  many rounds as there are functions comes along every run of the code
  (`SearchFollowsPaths`, `RunsAreChains`; each call has its name in the caller),
  so without a chain nothing runs there; and a parameter some caller fills with
  input is said to carry input at every depth (`FedCarriesInput`, by induction
  on the depth that is left).
* `PromisesAreKept` (`PromisingMeansFixed`): a change without drift weakens
  nothing that it does not add again in the same file
  (`NoDriftNothingWeaker`), and `PatchSound` goes through the reasons a verdict
  can have.
* `OnlySeenCounts` (`NothingUnseenCounts`): `SoundRow` is kept by every module
  that touches the rows, in any order of failures (`CheckedIsSound`,
  `UncheckableIsSound`, `WeighedIsSound`, `AttackedIsSound`, `MatchedIsSound`,
  the last by induction on what the rules matched); `LimitsAreMissing` says of
  the last run of each module what it stands for.
* `BytesAreReported` (`BytesAreSeen`): no two selectors are harmless side by
  side, so the run that begins at the first, or earlier, takes the second in
  (`SelectorsTogetherAreCovered`); and what is for bytes only is harmless nowhere
  (`BytesAreCovered`). U+FE0E and U+FE0F are carriers in the model as in
  `decode_hidden`, and the exception for them is in the property.
* `EvidenceStands` (`EvidenceIsThere`): the lines that are not blank keep their
  order (`OptionsInOrder`, about every list that is flattened from one or none of
  each), so a place among them is a place in the file with nothing but blank
  lines between (`LocateIsPlaced`); what a range of the file holds lies where
  the range begins (`CutIsOfTheFile`); and the ranges are those of the parts the
  finding's request had (`SentRangesAreOfItsParts`).
* `PathsAreCheapest` (`CheapestPaths`): what is settled has been reached from what
  was settled before (`Settled`), no step undercuts it (`Tight`), neither one
  between settled places nor one that leads out, and there is one more place with
  every round or no step leads out (`Grows`). `SettleKeeps` is the round: the
  cheapest step out is no cheaper than what is settled, and nothing cheaper leads
  to its end later. There being 21 places, nothing leads out in the end
  (`CheapestIsTight`). Along the tree a path costs what its place costs
  (`PathCosts`), and over a set of steps that has all of a path nothing is dearer
  (`NoDearerByAPath`), so that a place that flaws bring nearer has a flaw on its
  path (`NearerIsReported`). That what findings, files, divergences and
  capabilities add are steps between places, and the structural ones certain, is
  `EdgesAreSteps`.
* `RecommendedFixesCut` (`CutsHold`): after every round, a pair of a profile and
  a jewel is still there or some of the chosen fixes leave it without a path
  (`Held`, kept by `RoundsHold`). The other fixes only take more away, and a path
  over fewer steps is one over more (`NearerOverMore`). That a round chooses
  among the fixes that cut needs that there are finitely many, with numbers to
  compare them by (`FixesAreTried`, `BestFixCuts`).
* `SearchesAreInAgreement` (`SearchesAgree`): costs alone do not decide this, for
  a path is reported only if some step of it is a flaw, and among steps of one cost
  the search could take a flaw before a change and a step that needs none after it.
  So the proof is about which path is found. A search settles places by cost, then
  by name, and comes to each by the best step from what it has settled
  (`CheapestIsOrdered`); the step is the first of those that are alike
  (`FirstOfAlike`). Hence a search over some of the steps, in the same order
  (`Embeds`), finds the same path as one over more if that path needs no other
  step (`SamePath`, by the order in which both come to what they share:
  `KeptComesFirst`, `KeptIsReachedAlike`). It follows that a flaw that is found over
  fewer steps is found over more, if what is added needs a flaw or repeats a step
  that was there before it (`FlawStays`): a path without flaws would have been
  found over fewer, too.
  A change leaves the steps in their order and all that last, that is those of no
  flaw and of no divergence (`Part`; `FixedIsPart`, `ConfirmedIsWhole`, by
  `PartOfLeft` and `PartOfWhole` about every list that is taken out of another); a
  divergence's step without flaw repeats the 18th of those that are always there
  (`RepeatsAreListedLater`). After the chosen fixes, what is left is of none of them
  (`MadeFixesAreGone`), so a certain path would be one without any of the chosen
  fixes' steps, and `Held` says that some of them leave none (`FixedIsCut`).
  Confirming takes no step away and leaves each at its cost
  (`ConfirmedHasItsSteps`, `ConfirmedClosesNone`). What a finding is worth: a path
  through one of its steps goes on from there as a search from there does
  (`PathGoesOn`), so it is one that `ContextualSeverity` weighs; that search leaves out
  steps to what was to be had for as little before, which a step of a finding on a
  cheapest path never is, as it costs something (`HeldForMore`,
  `ThroughIsAsGrave`, `FindingsAreAsGrave`).
* `UnseenIsSaid` (`RiskyUnseenIsSaid`): files are told apart by the key they are
  sorted by, so every file that is asked for has its place in the inventory
  (`SoonerOrders`, `RanksAreAll`, `InventoryHolds`). Whatever the room in a
  request, what is put into one is all lines of its file or is said to be a part
  (`SegmentIsWhole`; `PlanIs`, kept by `PlaceKeeps`), and unless the backend gave
  up a request was answered with findings or its files count as failed
  (`AnswersAreRead`). So the row of a risky file that no answer carried whole
  says so (`RowIsOfParts`), which makes it a blind spot (`RiskyRowIsSpot`); if none
  carried any of it, it is counted, and the score is capped below "high", the
  weights being numbers (`RiskyRowIsNotHigh`, `WeighedIsNumbers`).
* `DecoysAreWhole` (`DecoysStayWhole`): after every decoy, each one there is has
  its lines one after the other in its file and nowhere else (`WholeAt`,
  `IsPlanted`). The place of a new one is the end of the file or above a head with
  its decorators, and a decoy has one head, its decorator right above it and
  another line at its end, so the place is in none of them (`PointIsClear`), blank
  lines that are taken from the end are none of theirs, and what comes after the
  place moves as one (`PutAtEnd`, `PutBetween`, `PutKeepsWhole`). In the end a decoy
  is looked up by its head, which is in the text once (`LocateFinds`).
* `ReviewsAreAsTold` (`GitHubNeverGuessed`, the first part of
  `OutsideNeverGuessed`): a client keeps to its budget and has kept no answer of a
  call that fails (`Keeps`), so what it answers is GitHub's or nothing, and one
  that has not failed had an answer to whatever it was asked (`CallsAreAnswered`).
  Protection is known only of such a client, after three calls
  (`ProtectionIsTold`), though it may be the last that fails; a review is told only
  if both calls were answered (`ReviewIsTold`). It is the same after every commit
  that is asked about (`OneMoreIsTold`, `AllAreTold`), in whatever order the files'
  leverage puts them (`AskedIsList`). Of the files it is assumed only that they and
  the commits are listed (`LeverageAssumption`).

Recursive functions are unfolded by a lemma that proves the function exists, by
induction on a set of numbers (`FlattenUnfolds`, `AfterUnfolds`,
`ParameterUnfolds`, `MatchedUnfolds`, `CheapestUnfolds`, `PathUnfolds`,
`CostUnfolds`, `RoundsUnfold`, `PlanUnfolds`, `AnswersUnfold`, `ScoreUnfolds`,
`PlantingUnfolds`, `AskingUnfolds`;
`TotalIsNumber` for a fold over a set).

Only model-checked: `AuditsSettle`, `WhatIfsEnd` and whatever else needs
fairness; `NotStranded` where runners race; and of `FlowsAndPackages`,
`FlowsAreFollowed` and the part of `OutsideNeverGuessed` about packages
(`PackagesNeverGuessed`), whose operators are recursive and so out of the
provers' reach.

## Not modelled

* Failures of the database other than the loss of a row, and with them the
  commits that are outside the handlers' `try` blocks.
* A request whose answer is lost although its runner lives on (an exception in
  `immune_context` after the claim's commit).
* Of the immune memory: provenance and `matches_history`, which are only
  displayed; the model's context (`immune_context`); findings the evidence check
  degraded; a server without Semgrep, which runs no rules; identifiers of two
  fingerprints that begin with the same eight digits. Merges are seen by their
  first parents, as `rev-list --first-parent` sees them.
* The other scanners (`secrets_scan.py`, `mcp_audit.py`, ...): pure functions whose content is tables of patterns. Of `Taint`, the
  tables of names, JavaScript where its parser is missing and it is matched by
  pattern, and of the statements that branch `match`, `break`, `continue`, `raise`,
  `finally`, the `else` of loops and comprehensions (what a `for` or a `with` gives
  its target is not looked at by the code); of `Twin`, the map of the system it draws; of
  `Deps`, the manifests that are read like one it has (poetry, Cargo, Bundler,
  Composer, Gradle), dependencies that nothing mentions, the CycloneDX export.
* Accounts, sessions and settings (`web/auth.py`, `web/settings.py`).
* Reports, backends, git access, the MCP server, the frontend, migrations:
  formatting and external effects.

Of what the documents say and the code does not do, the runs show six. Others
that the models have and no run is spent on: a restart fails audits that only
wait for a runner (DEPLOY.md says that queued work waits); once the audit whose
finding a rule was learnt from is deleted, what the rule matches is no longer
reported (README.md says that it is); controls removed with a whole file are not
reported by the drift module; a pull request without an audit of its base
reports every finding as new; the value of an arrow function without a body
(`(req, res) => res.send(req.query.x)`) is not looked at, and a sanitized text that is
added to a tainted one clears it (`TaintJs`); a name that one branch of an `if`
overwrites is no longer followed after it, and one that a loop brings back is not
either, which `LIMITS` does not say, while the docstring of `taint.py` (line 18) says that
nothing crosses a function call and code and `LIMITS` follow helpers three deep
(`Taint`); a pair of variation selectors one of which is U+FE0E or U+FE0F carries
bytes to `decode_hidden` ("Variation selectors can carry one byte each",
`parallax.py`, line 186) and is in no run that it is asked about, so that bytes written with
one of them at every second place are not reported (`Parallax`); an npm package whose exact version is
in both manifest and lock keeps the row of the lock, which has no line, so that
nothing is reported of its maintenance, and a Maven version managed for a group
that is written as a property is not found (`Deps`). A Python requirement that
pins hashes on its line (`a==1 --hash=...`) is no exact version for `_EXACT` and
is not asked about, though the advice of `dep.extra_index_url` is to pin them: what
the expression sees is an input of `Deps`. So is what `_is_exact` takes for a
version: an npm range such as `1.x` passes it and counts as exact here too.

## Plan

1. `Accounts`: invitations, tokens, settings and keys, and its proofs.
