---------------------------- MODULE ServiceProofs ----------------------------
(***************************************************************************)
(* Proofs about Service: that a pull request gets one comment for every    *)
(* number of audits, deliveries, restarts and lost calls, and that a fix   *)
(* that is said to be running is not forgotten, the part of WhatIfsEnd     *)
(* that is not about progress.                                             *)
(***************************************************************************)
EXTENDS Service, TLAPS

Tasks == {"none", "queued", "auditing", "reporting", "writing", "stating"}

\* What reports work on.
ReportTypes ==
    /\ task \in [Audits -> [pc : Tasks, target : Nat]]
    /\ comments \in Seq(Audits)
    /\ earlier \in 0..SeenComments
    /\ overlapped \in BOOLEAN

\* A report between reading the comments and writing is the only one, as long as none
\* overlapped it.
WriterAlone ==
    overlapped \/ \A a, b \in Audits : task[a].pc = "writing" /\ task[b].pc = "writing" => a = b

\* What it has read is still so: the comment it found is the one there is.
WriterKnows ==
    overlapped \/ earlier >= SeenComments
    \/ \A a \in Audits : task[a].pc = "writing" => task[a].target = Len(comments)

ReportInv == ReportTypes /\ WriterAlone /\ WriterKnows /\ OneComment

-----------------------------------------------------------------------------
(***************************************************************************)
(* One comment                                                             *)
(***************************************************************************)

\* What is found is the first comment, if there is one that is looked at.
LEMMA MarkedIsFirst ==
    ASSUME ReportTypes, NEW a
    PROVE  /\ MarkedComment(a) \in {0, 1}
           /\ earlier < SeenComments /\ Len(comments) <= 1 => MarkedComment(a) = Len(comments)
<1> DEFINE seen == {i \in DOMAIN comments : earlier + i <= SeenComments}
<1>1. /\ Len(comments) \in Nat /\ DOMAIN comments = 1..Len(comments)
      /\ earlier \in Nat /\ SeenComments \in Nat
    BY SeenAssumption DEF ReportTypes
<1>2. MarkedComment(a) = IF seen = {} THEN 0 ELSE CHOOSE i \in seen : \A j \in seen : i <= j
    BY DEF MarkedComment
<1>3. CASE seen = {}
    <2>1. MarkedComment(a) = 0
        BY <1>2, <1>3
    <2>2. Len(comments) = 1 /\ earlier < SeenComments => 1 \in seen
        BY <1>1
    <2> QED
        BY <1>1, <1>3, <2>1, <2>2
<1>4. CASE seen # {}
    <2>1. PICK k \in seen : TRUE
        BY <1>4
    <2>2. 1 \in seen /\ \A j \in seen : 1 <= j
        BY <1>1, <2>1
    <2>3. \A i \in seen : (\A j \in seen : i <= j) => i = 1
        BY <1>1, <2>2
    <2>4. MarkedComment(a) = 1
        BY <1>2, <1>4, <2>2, <2>3
    <2>5. Len(comments) >= 1
        BY <1>1, <2>2
    <2> QED
        BY <1>1, <2>4, <2>5
<1> QED
    BY <1>3, <1>4

\* Nobody reports at first.
LEMMA ReportInit == Init => ReportInv
<1> SUFFICES ASSUME Init PROVE ReportInv
    OBVIOUS
<1>1. task \in [Audits -> [pc : Tasks, target : Nat]] /\ \A a \in Audits : task[a].pc = "none"
    BY DEF Init, NoTask, Tasks
<1>2. comments \in Seq(Audits) /\ Len(comments) = 0
    BY DEF Init
<1>3. ReportTypes
    BY <1>1, <1>2 DEF Init, ReportTypes
<1>4. WriterAlone /\ WriterKnows
    BY <1>1 DEF WriterAlone, WriterKnows
<1>5. OneComment
    BY <1>2 DEF OneComment
<1> QED
    BY <1>3, <1>4, <1>5 DEF ReportInv

\* A task that goes elsewhere than to writing, while the comments stay, changes nothing
\* of the invariant.
LEMMA TaskMoves ==
    ASSUME ReportInv, NEW a \in Audits, NEW pc \in Tasks \ {"writing"}, To(a, pc),
           UNCHANGED <<comments, earlier, overlapped>>
    PROVE  ReportInv'
<1>1. ReportTypes'
    BY DEF ReportInv, ReportTypes, To
<1>2. \A b \in Audits : task'[b].pc = "writing" => task[b].pc = "writing" /\ task'[b] = task[b]
    BY DEF ReportInv, ReportTypes, To
<1> QED
    BY <1>1, <1>2 DEF ReportInv, WriterAlone, WriterKnows, OneComment

\* A report that reads the comments while none is about to write knows what is there.
LEMMA ListKnows ==
    ASSUME ReportInv, NEW a \in Audits, task[a].pc = "reporting",
           task' = [task EXCEPT ![a] = [pc |-> "writing", target |-> MarkedComment(a)]],
           overlapped' = (overlapped \/ \E b \in Audits : task[b].pc = "writing"),
           UNCHANGED <<comments, earlier>>
    PROVE  ReportInv'
<1>1. MarkedComment(a) \in {0, 1}
    BY MarkedIsFirst DEF ReportInv
<1>2. ReportTypes'
    BY <1>1 DEF ReportInv, ReportTypes, Tasks
<1>3. \A b \in Audits \ {a} : task'[b] = task[b]
    BY DEF ReportInv, ReportTypes
<1>4. task'[a] = [pc |-> "writing", target |-> MarkedComment(a)]
    BY DEF ReportInv, ReportTypes
<1>5. overlapped' \/ \A b \in Audits \ {a} : task'[b].pc # "writing"
    BY <1>3
<1>6. WriterAlone'
    BY <1>5 DEF WriterAlone
<1>7. WriterKnows'
    <2> SUFFICES ASSUME ~overlapped', earlier < SeenComments
                 PROVE  MarkedComment(a) = Len(comments)
        BY <1>4, <1>5, SeenAssumption DEF WriterKnows, ReportInv, ReportTypes
    <2>1. ~overlapped
        OBVIOUS
    <2>2. Len(comments) <= 1
        BY <2>1, SeenAssumption DEF ReportInv, ReportTypes, OneComment
    <2> QED
        BY <2>2, MarkedIsFirst DEF ReportInv
<1>8. OneComment'
    BY DEF ReportInv, ReportTypes, OneComment
<1> QED
    BY <1>2, <1>6, <1>7, <1>8 DEF ReportInv

\* What is written is the one comment that there is then, whether or not the report
\* learns of it.
LEMMA WriteKeepsOne ==
    ASSUME ReportInv, NEW a \in Audits, WriteComment(a)
    PROVE  ReportInv'
<1>1. PICK how \in {"done", "lost", "refused"} :
          /\ comments' = CASE how = "refused" -> comments
                           [] how # "refused" /\ task[a].target = 0 -> Append(comments, a)
                           [] OTHER -> [comments EXCEPT ![task[a].target] = a]
          /\ IF how = "done" THEN To(a, "stating") /\ UNCHANGED audits ELSE Reported(a, "error")
    BY DEF WriteComment
<1>2. UNCHANGED <<earlier, overlapped>> /\ task[a].pc = "writing"
    BY DEF WriteComment
<1>3. \E pc \in {"stating", "none"} : task' = [task EXCEPT ![a] = [pc |-> pc, target |-> 0]]
    BY <1>1 DEF Reported, To
<1>4. \A b \in Audits : task'[b].pc = "writing" => b # a /\ task'[b] = task[b]
    BY <1>3 DEF ReportInv, ReportTypes
<1>5. comments \in Seq(Audits) /\ task[a].target \in Nat
    BY DEF ReportInv, ReportTypes
<1>6. \/ comments' = comments
      \/ task[a].target = 0 /\ comments' = Append(comments, a)
      \/ task[a].target # 0 /\ comments' = [comments EXCEPT ![task[a].target] = a]
    BY <1>1
<1>7. comments' \in Seq(Audits)
      /\ Len(comments') = IF comments' # comments /\ task[a].target = 0 THEN Len(comments) + 1
                          ELSE Len(comments)
    BY <1>5, <1>6
<1>8. ReportTypes'
    BY <1>2, <1>3, <1>7 DEF ReportInv, ReportTypes, Tasks
<1>9. WriterAlone'
    BY <1>2, <1>4 DEF ReportInv, WriterAlone
<1>10. overlapped \/ \A b \in Audits : task'[b].pc # "writing"
    BY <1>2, <1>4 DEF ReportInv, WriterAlone
<1>11. WriterKnows'
    BY <1>2, <1>10 DEF WriterKnows
<1>12. OneComment'
    BY <1>2, <1>5, <1>7 DEF ReportInv, OneComment, WriterKnows
<1> QED
    BY <1>8, <1>9, <1>11, <1>12 DEF ReportInv

\* Whatever else happens leaves the comments alone; a restart forgets who reports.
LEMMA ReportStep == ReportInv /\ [Next]_vars => ReportInv'
<1> SUFFICES ASSUME ReportInv, [Next]_vars PROVE ReportInv'
    OBVIOUS
<1>1. CASE UNCHANGED <<task, comments, earlier, overlapped>>
    BY <1>1 DEF ReportInv, ReportTypes, WriterAlone, WriterKnows, OneComment
<1>2. ASSUME NEW a \in Audits, Deliver(a) PROVE ReportInv'
    BY <1>2, TaskMoves DEF Deliver, GitHub, Tasks
<1>3. ASSUME NEW a \in Audits, Begin(a) PROVE ReportInv'
    BY <1>3, TaskMoves DEF Begin, GitHub, Tasks
<1>4. ASSUME NEW a \in Audits, End(a) PROVE ReportInv'
    <2>1. PICK pc \in {"reporting", "none"} : To(a, pc)
        BY <1>4 DEF End
    <2> QED
        BY <1>4, <2>1, TaskMoves DEF End, GitHub, Tasks
<1>5. ASSUME NEW a \in Audits, ListComments(a) PROVE ReportInv'
    <2>1. CASE Reported(a, "error") /\ UNCHANGED overlapped
        BY <1>5, <2>1, TaskMoves DEF ListComments, Reported, Tasks
    <2> QED
        BY <1>5, <2>1, ListKnows DEF ListComments
<1>6. ASSUME NEW a \in Audits, WriteComment(a) PROVE ReportInv'
    BY <1>6, WriteKeepsOne
<1>7. ASSUME NEW a \in Audits, SetState(a) PROVE ReportInv'
    <2>1. To(a, "none")
        BY <1>7 DEF SetState, Reported
    <2> QED
        BY <1>7, <2>1, TaskMoves DEF SetState, Tasks
<1>8. ASSUME NEW a \in Audits, Delete(a) PROVE ReportInv'
    BY <1>1, <1>8 DEF Delete, GitHub
<1>9. CASE \E w \in WhatIfs : Request(w) \/ Reply(w) \/ Try(w) \/ Tried(w) \/ Finish(w)
    BY <1>1, <1>9 DEF Request, Reply, Try, Tried, Finish, GitHub
<1>10. CASE Stop
    <2>1. task' = [a \in Audits |-> NoTask] /\ UNCHANGED <<comments, earlier, overlapped>>
        BY <1>10 DEF Stop, GitHub
    <2>2. ReportTypes' /\ \A a \in Audits : task'[a].pc = "none"
        BY <2>1 DEF ReportInv, ReportTypes, NoTask, Tasks
    <2> QED
        BY <2>1, <2>2 DEF ReportInv, WriterAlone, WriterKnows, OneComment
<1>11. CASE Start
    BY <1>1, <1>11 DEF Start, GitHub
<1>12. CASE UNCHANGED vars
    BY <1>1, <1>12 DEF vars
<1> QED
    BY <1>2, <1>3, <1>4, <1>5, <1>6, <1>7, <1>8, <1>9, <1>10, <1>11, <1>12 DEF Next

\* A pull request gets one comment, unless two reports were at it at once or its comments
\* are more than are looked through (prnotify.py, upsert_comment).
THEOREM CommentsStayOne == Spec => []OneComment
<1>1. ReportInv => OneComment
    BY DEF ReportInv
<1> QED
    BY <1>1, ReportInit, ReportStep, PTL DEF Spec

-----------------------------------------------------------------------------
(***************************************************************************)
(* Fixes that are said to be running                                       *)
(***************************************************************************)

Statuses == {"none", "running", "ok", "error", "deleted"}
Jobs == {"none", "answering", "waiting", "trying", "ok", "error"}

\* What the tries of fixes work on.  One that is answered within its request is not said
\* to be running.
FixTypes ==
    /\ whatifs \in [WhatIfs -> [status : Statuses, audit : Audits \cup {NoOne}]]
    /\ job \in [WhatIfs -> Jobs]
    /\ up \in BOOLEAN
    /\ \A w \in WhatIfs : job[w] = "answering" => whatifs[w].status # "running"

\* A fix that is said to be running has a task that will write how it ended, unless the
\* server is down, whose next start closes it (finish_what_if, fail_interrupted_audits).
NotForgotten ==
    \A w \in WhatIfs : whatifs[w].status = "running" =>
        ~up \/ job[w] \in {"waiting", "trying", "ok", "error"}

FixInv == FixTypes /\ NotForgotten

\* Nothing is tried at first.
LEMMA FixInit == Init => FixInv
BY DEF Init, NoWhatIf, NoOne, FixInv, FixTypes, NotForgotten, Statuses, Jobs

\* Every step keeps a task for what it leaves running, or closes it.
LEMMA FixStep == FixInv /\ [Next]_vars => FixInv'
<1> SUFFICES ASSUME FixInv, [Next]_vars PROVE FixInv'
    OBVIOUS
<1> USE DEF FixInv, FixTypes, NotForgotten
<1>1. CASE UNCHANGED <<whatifs, job, up>>
    BY <1>1
<1>2. ASSUME NEW a \in Audits, Delete(a) PROVE FixInv'
    BY <1>2 DEF Delete, Deleted, NoWhatIf, NoOne, Statuses
<1>3. ASSUME NEW a \in Audits, \/ Deliver(a) \/ Begin(a) \/ End(a) \/ ListComments(a)
                               \/ WriteComment(a) \/ SetState(a)
      PROVE  FixInv'
    BY <1>1, <1>3 DEF Deliver, Begin, End, ListComments, WriteComment, SetState, Fixes
<1>4. ASSUME NEW w \in WhatIfs, Request(w) PROVE FixInv'
    <2>1. PICK a \in Audits : whatifs' = [whatifs EXCEPT
              ![w] = [status |-> IF sandbox THEN "running" ELSE "none", audit |-> a]]
        BY <1>4 DEF Request
    <2>2. CASE sandbox
        BY <1>4, <2>1, <2>2 DEF Request, At, Statuses, Jobs
    <2>3. CASE ~sandbox
        BY <1>4, <2>1, <2>3 DEF Request, At, Statuses, Jobs
    <2> QED
        BY <2>2, <2>3
<1>5. ASSUME NEW w \in WhatIfs, Reply(w) PROVE FixInv'
    <2>1. PICK row \in [status : {"ok", "error", "deleted"}, audit : Audits \cup {NoOne}] :
              whatifs' = [whatifs EXCEPT ![w] = row]
        <3>1. PICK how \in {"result", "known_error", "other_error"} :
                  IF how # "other_error" /\ whatifs[w].status # "deleted"
                  THEN Record(w, IF how = "result" THEN "ok" ELSE "error")
                  ELSE whatifs' = [whatifs EXCEPT ![w] = Deleted(NoWhatIf)]
            BY <1>5 DEF Reply
        <3>2. Deleted(NoWhatIf) \in [status : {"ok", "error", "deleted"}, audit : Audits \cup {NoOne}]
            BY DEF Deleted, NoWhatIf
        <3>3. CASE how # "other_error" /\ whatifs[w].status # "deleted"
            <4> DEFINE status == IF how = "result" THEN "ok" ELSE "error"
            <4>1. whatifs' = [whatifs EXCEPT ![w] = [status |-> status, audit |-> whatifs[w].audit]]
                BY <3>1, <3>3 DEF Record
            <4>2. [status |-> status, audit |-> whatifs[w].audit]
                      \in [status : {"ok", "error", "deleted"}, audit : Audits \cup {NoOne}]
                OBVIOUS
            <4> HIDE DEF status
            <4> QED
                BY <4>1, <4>2
        <3> QED
            BY <3>1, <3>2, <3>3
    <2> QED
        BY <1>5, <2>1 DEF Reply, At, Statuses, Jobs
<1>6. ASSUME NEW w \in WhatIfs, Try(w) PROVE FixInv'
    BY <1>6 DEF Try, At, Jobs
<1>7. ASSUME NEW w \in WhatIfs, Tried(w) PROVE FixInv'
    <2>1. PICK outcome \in {"ok", "error"} : At(w, outcome)
        BY <1>7 DEF Tried, OutcomeOf
    <2> QED
        BY <1>7, <2>1 DEF Tried, At, Jobs
<1>8. ASSUME NEW w \in WhatIfs, Finish(w) PROVE FixInv'
    <2>1. job[w] \in {"ok", "error"} /\ job' = [job EXCEPT ![w] = "none"] /\ up' = up
        BY <1>8 DEF Finish, At, Jobs
    <2>2. CASE whatifs[w].status = "deleted"
        BY <1>8, <2>1, <2>2 DEF Finish, Jobs
    <2>3. CASE whatifs[w].status # "deleted"
        BY <1>8, <2>1, <2>3 DEF Finish, Record, Statuses, Jobs
    <2> QED
        BY <2>2, <2>3
<1>9. CASE Stop
    BY <1>9 DEF Stop, Jobs
<1>10. CASE Start
    BY <1>10 DEF Start, Statuses
<1>11. CASE UNCHANGED vars
    BY <1>1, <1>11 DEF vars
<1> QED
    BY <1>2, <1>3, <1>4, <1>5, <1>6, <1>7, <1>8, <1>9, <1>10, <1>11 DEF Next

\* A fix that is said to be running is not forgotten.
THEOREM FixesAreNotForgotten == Spec => []NotForgotten
<1>1. FixInv => NotForgotten
    BY DEF FixInv
<1> QED
    BY <1>1, FixInit, FixStep, PTL DEF Spec

=============================================================================
