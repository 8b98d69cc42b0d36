------------------------------- MODULE Service -------------------------------
(***************************************************************************)
(* What the service does for others besides auditing: it reports on pull   *)
(* requests, and tries fixes.                                              *)
(*                                                                         *)
(* A delivery of GitHub queues an audit.  Once an audit of a pull request  *)
(* is stored, its task reads the comments of the pull request, updates the *)
(* one that bears its marker or adds one, and sets the state of the head.  *)
(* Between these calls other reports make theirs, any of them may fail or  *)
(* go through with its answer lost, and a restart forgets every task.      *)
(*                                                                         *)
(* A fix for a finding of a finished audit is tried within the request, or *)
(* where there is a sandbox by a task of its own, one at a time, while its *)
(* record says that it runs.                                               *)
(***************************************************************************)
EXTENDS Naturals, Sequences, FiniteSets

CONSTANTS
    MaxAudits,       \* bound: how many audits are ever queued
    MaxWhatIfs,      \* bound: how many fixes are ever tried
    Deliveries,      \* what GitHub may deliver, any number of times, in any order
    Heads,           \* the commits that deliveries are about
    SeenComments     \* how many comments of a pull request are looked through

ASSUME SeenAssumption == SeenComments \in Nat

P == INSTANCE PullRequest

Audits == 1..MaxAudits            \* numbered as they are created
WhatIfs == 1..MaxWhatIfs

VARIABLES
    audits,          \* the audits table
    task,            \* audit -> how far its background task is
    comments,        \* the comments with a marker: the audit that each tells of
    earlier,         \* how many comments of others come before them
    state,           \* head -> the audit that set its state
    whatifs,         \* the what_ifs table
    job,             \* what-if -> how far its request or background task is
    sandbox,         \* whether there is one
    up,              \* whether the server runs
    overlapped       \* history: a report read the comments while another was about to write

vars == <<audits, task, comments, earlier, state, whatifs, job, sandbox, up, overlapped>>

NoOne == 0
NoTask == [pc |-> "none", target |-> 0]
NoAudit == [status |-> "none", head |-> "none", pr |-> FALSE, report |-> "none"]
NoWhatIf == [status |-> "none", audit |-> NoOne]
Deleted(row) == [row EXCEPT !.status = "deleted"]

Exists(a) == audits[a].status \notin {"none", "deleted"}

Init ==
    /\ audits = [a \in Audits |-> NoAudit]
    /\ task = [a \in Audits |-> NoTask]
    /\ comments = <<>>
    /\ earlier \in 0..SeenComments
    /\ state = [h \in Heads |-> NoOne]
    /\ whatifs = [w \in WhatIfs |-> NoWhatIf]
    /\ job = [w \in WhatIfs |-> "none"]
    /\ sandbox \in BOOLEAN
    /\ up = TRUE
    /\ overlapped = FALSE

-----------------------------------------------------------------------------
(***************************************************************************)
(* Audits and their reports                                                *)
(***************************************************************************)

GitHub == <<comments, earlier, state, overlapped>>
Fixes == <<whatifs, job, sandbox>>

To(a, pc) == task' = [task EXCEPT ![a] = [pc |-> pc, target |-> 0]]

\* A delivery is answered with an audit queued, unless it asks for none.
Deliver(a) ==
    /\ up /\ audits[a] = NoAudit /\ \A b \in 1..a - 1 : audits[b] # NoAudit
    /\ \E d \in Deliveries :
          /\ P!Asked(d).asks \in {"branch", "pull_request"}
          /\ audits' = [audits EXCEPT ![a] =
                 [status |-> "pending", head |-> P!Asked(d).head, report |-> "none",
                  pr |-> P!Asked(d).asks = "pull_request"]]
    /\ To(a, "queued")
    /\ UNCHANGED <<GitHub, Fixes, up>>

Begin(a) ==
    /\ task[a].pc = "queued"
    /\ IF Exists(a)
       THEN audits' = [audits EXCEPT ![a].status = "running"] /\ To(a, "auditing")
       ELSE UNCHANGED audits /\ To(a, "none")
    /\ UNCHANGED <<GitHub, Fixes, up>>

\* The outcome is committed (AuditLifecycle has all of it).  An audit that was deleted
\* stays so, and none but a pull request's is reported.
End(a) ==
    /\ task[a].pc = "auditing"
    /\ \E outcome \in {"done", "error"} :
          /\ audits' = IF Exists(a) THEN [audits EXCEPT ![a].status = outcome] ELSE audits
          /\ To(a, IF Exists(a) /\ outcome = "done" /\ audits[a].pr THEN "reporting" ELSE "none")
    /\ UNCHANGED <<GitHub, Fixes, up>>

\* The report is recorded on the audit, if there still is one.
Reported(a, how) ==
    /\ audits' = IF Exists(a) THEN [audits EXCEPT ![a].report = how] ELSE audits
    /\ To(a, "none")

\* Mutant: an audit only knows the comment that it wrote itself.
OwnComment(a) ==
    LET own == {i \in DOMAIN comments : comments[i] = a}
    IN IF own = {} THEN 0 ELSE CHOOSE i \in own : \A j \in own : i <= j

\* The first comment with the marker, among those that are looked through.
MarkedComment(a) ==
    LET seen == {i \in DOMAIN comments : earlier + i <= SeenComments}
    IN IF seen = {} THEN 0 ELSE CHOOSE i \in seen : \A j \in seen : i <= j

ListComments(a) ==
    /\ task[a].pc = "reporting"
    /\ \/ /\ task' = [task EXCEPT ![a] = [pc |-> "writing", target |-> MarkedComment(a)]]
          /\ overlapped' = (overlapped \/ \E b \in Audits : task[b].pc = "writing")
          /\ UNCHANGED audits
       \/ Reported(a, "error") /\ UNCHANGED overlapped
    /\ UNCHANGED <<comments, earlier, state, Fixes, up>>

\* The call goes through, or its answer is lost, or it is refused.
WriteComment(a) ==
    /\ task[a].pc = "writing"
    /\ \E how \in {"done", "lost", "refused"} :
          /\ comments' = CASE how = "refused" -> comments
                           [] how # "refused" /\ task[a].target = 0 -> Append(comments, a)
                           [] OTHER -> [comments EXCEPT ![task[a].target] = a]
          /\ IF how = "done" THEN To(a, "stating") /\ UNCHANGED audits ELSE Reported(a, "error")
    /\ UNCHANGED <<earlier, state, overlapped, Fixes, up>>

SetState(a) ==
    /\ task[a].pc = "stating"
    /\ \E how \in {"done", "lost", "refused"} :
          /\ state' = IF how = "refused" THEN state ELSE [state EXCEPT ![audits[a].head] = a]
          /\ Reported(a, IF how = "done" THEN "ok" ELSE "error")
    /\ UNCHANGED <<comments, earlier, overlapped, Fixes, up>>

\* What belongs to an audit goes with it.
Delete(a) ==
    /\ up /\ Exists(a)
    /\ audits' = [audits EXCEPT ![a] = Deleted([NoAudit EXCEPT !.head = audits[a].head])]
    /\ whatifs' = [w \in WhatIfs |-> IF whatifs[w].audit = a THEN Deleted(NoWhatIf) ELSE whatifs[w]]
    /\ UNCHANGED <<task, GitHub, job, sandbox, up>>

-----------------------------------------------------------------------------
(***************************************************************************)
(* Fixes                                                                   *)
(***************************************************************************)

At(w, pc) == job' = [job EXCEPT ![w] = pc]
Record(w, status) == whatifs' = [whatifs EXCEPT ![w].status = status]

\* With a sandbox the request is answered at once, and a task goes on.
Request(w) ==
    /\ up /\ whatifs[w] = NoWhatIf /\ \A v \in 1..w - 1 : whatifs[v] # NoWhatIf
    /\ \E a \in Audits :
          /\ audits[a].status = "done"
          /\ whatifs' = [whatifs EXCEPT ![w] = [status |-> IF sandbox THEN "running" ELSE "none",
                                                audit |-> a]]
    /\ At(w, IF sandbox THEN "waiting" ELSE "answering")
    /\ UNCHANGED <<audits, task, GitHub, sandbox, up>>

\* Without one, it is tried within the request.  What neither the fix nor the scan
\* raises ends the request, and so does an audit that is gone: nothing is recorded.
Reply(w) ==
    /\ job[w] = "answering"
    /\ \E how \in {"result", "known_error", "other_error"} :
          IF how # "other_error" /\ whatifs[w].status # "deleted"
          THEN Record(w, IF how = "result" THEN "ok" ELSE "error")
          ELSE whatifs' = [whatifs EXCEPT ![w] = Deleted(NoWhatIf)]
    /\ At(w, "none")
    /\ UNCHANGED <<audits, task, GitHub, sandbox, up>>

\* One container run at a time.
Try(w) ==
    /\ job[w] = "waiting"
    /\ \A v \in WhatIfs : job[v] # "trying"
    /\ At(w, "trying")
    /\ UNCHANGED <<audits, task, GitHub, whatifs, sandbox, up>>

\* Mutant: only what the fix or the scan raises becomes an error.
OutcomeOfKnown(how) ==
    CASE how = "result" -> "ok" [] how = "known_error" -> "error" [] OTHER -> "running"

\* Whatever is raised becomes an error.
OutcomeOf(how) == IF how = "result" THEN "ok" ELSE "error"

Tried(w) ==
    /\ job[w] = "trying"
    /\ \E how \in {"result", "known_error", "other_error"} : At(w, OutcomeOf(how))
    /\ UNCHANGED <<audits, task, GitHub, whatifs, sandbox, up>>

\* The record is written, if it is still there.
Finish(w) ==
    /\ job[w] \in {"ok", "error", "running"}
    /\ IF whatifs[w].status = "deleted" THEN UNCHANGED whatifs ELSE Record(w, job[w])
    /\ At(w, "none")
    /\ UNCHANGED <<audits, task, GitHub, sandbox, up>>

-----------------------------------------------------------------------------
(***************************************************************************)
(* The process                                                             *)
(***************************************************************************)

\* No task survives, and no request.
Stop ==
    /\ up
    /\ up' = FALSE
    /\ task' = [a \in Audits |-> NoTask]
    /\ job' = [w \in WhatIfs |-> "none"]
    /\ UNCHANGED <<audits, GitHub, whatifs, sandbox>>

\* What was under way is closed as interrupted.
Start ==
    /\ ~up
    /\ up' = TRUE
    /\ audits' = [a \in Audits |->
           IF audits[a].status \in {"pending", "running"} THEN [audits[a] EXCEPT !.status = "error"]
           ELSE audits[a]]
    /\ whatifs' = [w \in WhatIfs |->
           IF whatifs[w].status = "running" THEN [whatifs[w] EXCEPT !.status = "error"]
           ELSE whatifs[w]]
    /\ UNCHANGED <<task, GitHub, job, sandbox>>

Next ==
    \/ \E a \in Audits : \/ Deliver(a) \/ Begin(a) \/ End(a) \/ ListComments(a)
                         \/ WriteComment(a) \/ SetState(a) \/ Delete(a)
    \/ \E w \in WhatIfs : Request(w) \/ Reply(w) \/ Try(w) \/ Tried(w) \/ Finish(w)
    \/ Stop
    \/ Start

\* Tasks go on, and a container manager restarts the process.
Fairness ==
    /\ \A w \in WhatIfs : WF_vars(Try(w) \/ Tried(w) \/ Finish(w))
    /\ WF_vars(Start)

Spec == Init /\ [][Next]_vars /\ Fairness

-----------------------------------------------------------------------------
(***************************************************************************)
(* Properties                                                              *)
(***************************************************************************)

\* However often a delivery comes, a call fails or its answer is lost, and whenever
\* the process stops: a pull request gets one comment (prnotify.py, upsert_comment),
\* unless two reports were at it at once or its comments are more than are looked
\* through.
OneComment ==
    Len(comments) > 1 => overlapped \/ earlier >= SeenComments

\* A fix that is said to be running comes to an end: its task writes one whatever
\* happens, it waits for the sandbox only as long as others use it, and a restart
\* closes what it forgot (finish_what_if, fail_interrupted_audits).
WhatIfsEnd ==
    \A w \in WhatIfs : whatifs[w].status = "running" ~> whatifs[w].status # "running"

=============================================================================
