------------------------- MODULE FindingsFileProofs -------------------------
(***************************************************************************)
(* Proofs about FindingsFile: type correctness, what the file says as long *)
(* as commands save one at a time, and what it says however they overlap.  *)
(***************************************************************************)
EXTENDS FindingsFile, TLAPS

-----------------------------------------------------------------------------
(***************************************************************************)
(* Type correctness                                                        *)
(***************************************************************************)

\* Loading gives a state whatever the file holds (load_state).
LEMMA LoadType == Load \in Saved
BY DEF Load, Nothing, Saved, Status

\* classify gives every finding a status.
LEMMA ClassifyType ==
    ASSUME NEW raw, NEW saved \in Saved
    PROVE  Classify(raw, saved) \in Saved
<1> SUFFICES ASSUME NEW f \in Findings
             PROVE  /\ Reported[saved[f]] \in Status
                    /\ Unreported[saved[f]] \in Status
    BY DEF Classify, Saved
<1>1. saved[f] \in Status
    BY DEF Saved
<1>2. CASE saved[f] = "unknown"
    BY <1>2 DEF Reported, Unreported, Status
<1>3. CASE saved[f] = "new"
    BY <1>3 DEF Reported, Unreported, Status
<1>4. CASE saved[f] = "persisting"
    BY <1>4 DEF Reported, Unreported, Status
<1>5. CASE saved[f] = "regressed"
    BY <1>5 DEF Reported, Unreported, Status
<1>6. CASE saved[f] = "fixed"
    BY <1>6 DEF Reported, Unreported, Status
<1>7. CASE saved[f] = "accepted"
    BY <1>7 DEF Reported, Unreported, Status
<1> QED
    BY <1>1, <1>2, <1>3, <1>4, <1>5, <1>6, <1>7 DEF Status

\* Marking leaves every finding with a status (cmd_suppress, cmd_baseline).
LEMMA AcceptType ==
    ASSUME NEW marks, NEW saved \in Saved
    PROVE  Accept(marks, saved) \in Saved
BY DEF Accept, Saved, Status

\* No findings are a state.
LEMMA NothingType == Nothing \in Saved
BY DEF Nothing, Saved, Status

\* An idle process carries nothing.
LEMMA IdleType == Idle \in Command
BY NothingType DEF Idle, Command

\* Every step of every command preserves the types.
LEMMA TypeStep == TypeOK /\ [Next]_vars => TypeOK'
<1> SUFFICES ASSUME TypeOK, [Next]_vars PROVE TypeOK'
    OBVIOUS
<1> USE DEF TypeOK
<1>1. ASSUME NEW p \in Processes, NEW looked \in SUBSET Files,
             NEW raw \in SUBSET Findings, Audit(p, looked, raw)
      PROVE  TypeOK'
    <2>1. [Idle EXCEPT !.pc = "audited", !.audit = TRUE, !.raw = raw, !.looked = looked]
             \in Command
        BY NothingType DEF Idle, Command
    <2>2. cmd' \in [Processes -> Command]
        BY <1>1, <2>1 DEF Audit
    <2> QED
        BY <1>1, <2>2 DEF Audit
<1>2. ASSUME NEW p \in Processes, LoadAndClassify(p) PROVE TypeOK'
    <2>1. Classify(cmd[p].raw, Load) \in Saved
        BY LoadType, ClassifyType
    <2>2. log.accepted \in SUBSET Findings
        BY DEF Log
    <2>3. cmd' = [cmd EXCEPT ![p] = [cmd[p] EXCEPT !.pc = "loaded",
                     !.want = Classify(cmd[p].raw, Load), !.quiet = log.accepted]]
        BY <1>2 DEF LoadAndClassify
    <2>4. [cmd[p] EXCEPT !.pc = "loaded", !.want = Classify(cmd[p].raw, Load),
                         !.quiet = log.accepted] \in Command
        <3> DEFINE c == cmd[p]
                   w == Classify(cmd[p].raw, Load)
        <3>1. c \in Command
            OBVIOUS
        <3> HIDE DEF c, w
        <3> QED
            BY <2>1, <2>2, <3>1 DEF Command, c, w
    <2>5. overlapped' \in BOOLEAN
        BY <1>2 DEF LoadAndClassify, Loads
    <2> QED
        BY <1>2, <2>3, <2>4, <2>5 DEF LoadAndClassify
<1>3. ASSUME NEW p \in Processes, NEW marks \in SUBSET Findings, Marking(p, marks)
      PROVE  TypeOK'
    <2>1. Accept(marks, Load) \in Saved
        BY LoadType, AcceptType
    <2>2. [Idle EXCEPT !.pc = "loaded", !.marks = marks, !.want = Accept(marks, Load)]
             \in Command
        BY <2>1 DEF Idle, Command
    <2>3. cmd' \in [Processes -> Command]
        BY <1>3, <2>2 DEF Marking
    <2>4. log' \in Log
        BY <1>3 DEF Marking, Log
    <2>5. overlapped' \in BOOLEAN
        BY <1>3 DEF Marking, Loads
    <2> QED
        BY <1>3, <2>3, <2>4, <2>5 DEF Marking
<1>4. ASSUME NEW p \in Processes, Open(p) PROVE TypeOK'
    <2>1. cmd' \in [Processes -> Command]
        BY <1>4 DEF Open, Command
    <2> QED
        BY <1>4, <2>1 DEF Open
<1>5. ASSUME NEW p \in Processes, Write(p) PROVE TypeOK'
    <2>1. cmd' \in [Processes -> Command]
        BY <1>5 DEF Write, Command
    <2>2. cmd[p].want \in Saved
        BY DEF Command
    <2> QED
        BY <1>5, <2>1, <2>2 DEF Write, Put, Outcomes
<1>6. ASSUME NEW p \in Processes, Replace(p) PROVE TypeOK'
    <2>1. ASSUME NEW q \in Processes
          PROVE  [cmd[q] EXCEPT !.at = Follow(cmd[q].at)] \in Command
        <3>1. cmd[q] \in Command
            OBVIOUS
        <3>2. Follow(cmd[q].at) \in {"closed", "tmp", "file", "gone"}
            BY <3>1 DEF Follow, Command
        <3> QED
            BY <3>1, <3>2 DEF Command
    <2>2. cmd' \in [Processes -> Command]
        BY <1>6, <2>1, IdleType DEF Replace
    <2>3. cmd[p] \in Command
        OBVIOUS
    <2>4. log' \in Log
        BY <1>6, <2>3 DEF Replace, Logged, Command, Log
    <2> QED
        BY <1>6, <2>2, <2>4 DEF Replace
<1>7. ASSUME NEW p \in Processes, ReplaceFails(p) PROVE TypeOK'
    BY <1>7, IdleType DEF ReplaceFails
<1>8. ASSUME NEW p \in Processes, Kill(p) PROVE TypeOK'
    BY <1>8, IdleType DEF Kill, Put
<1>9. CASE UNCHANGED vars
    BY <1>9 DEF vars
<1>10. ASSUME NEW p \in Processes, NEW f \in Findings, Suppress(p, f) PROVE TypeOK'
    BY <1>3, <1>10 DEF Suppress
<1>11. ASSUME NEW p \in Processes, Baseline(p) PROVE TypeOK'
    BY <1>3, <1>11 DEF Baseline
<1> QED
    BY <1>1, <1>2, <1>4, <1>5, <1>6, <1>7, <1>8, <1>9, <1>10, <1>11 DEF Next

\* The initial state has the types.
LEMMA TypeInit == Init => TypeOK
<1> SUFFICES ASSUME Init PROVE TypeOK
    OBVIOUS
<1>1. cmd \in [Processes -> Command]
    BY IdleType DEF Init
<1>2. log \in Log
    BY DEF Init, Log
<1> QED
    BY <1>1, <1>2, NothingType DEF Init, TypeOK

\* The variables keep their types, however commands overlap.
THEOREM TypeCorrect == Spec => []TypeOK
BY TypeInit, TypeStep, PTL DEF Spec

-----------------------------------------------------------------------------
(***************************************************************************)
(* One save at a time                                                      *)
(*                                                                         *)
(* What a command saves is computed from the file it read.  As long as no  *)
(* other is between its load and its end, the file does not change under   *)
(* it, the temporary file holds its own text once it has written it, and   *)
(* completing it moves the file and the history together.                  *)
(***************************************************************************)

\* What c saves, from the state s.
Computed(c, s) == IF c.audit THEN Classify(c.raw, s) ELSE Accept(c.marks, s)

\* How far a command that saves alone has come with its save.
Saving(c) ==
    /\ c.pc = "idle" => c = Idle
    /\ c.pc = "audited" => c.audit /\ c.want = Nothing /\ c.quiet = {}
    /\ c.pc \in {"loaded", "opened", "written"} =>
          /\ c.want = Computed(c, file)
          /\ c.quiet \subseteq log.accepted
    /\ c.pc = "opened" => c.at = "tmp" /\ tmp = Cut
    /\ c.pc = "written" => tmp = c.want
    /\ c.pc # "opened" => c.at = "closed"

History == [f \in Findings |-> StatusByHistory(f)]

AloneInv ==
    ~ overlapped =>
        /\ file = History
        /\ \A p, q \in Processes : Busy(p) /\ Busy(q) => p = q
        /\ \A p \in Processes : Saving(cmd[p])

\* The history gives every finding a status.
LEMMA HistoryType == History \in Saved
BY DEF History, StatusByHistory, Saved, Status

\* Completing an audit moves the history as classify moves the statuses.
LEMMA AuditMovesHistory ==
    ASSUME NEW c, c.audit, log \in Log, log' = Logged(c), c.raw \subseteq Findings
    PROVE  History' = Classify(c.raw, History)
<1> SUFFICES ASSUME NEW f \in Findings
             PROVE  StatusByHistory(f)' = Classify(c.raw, History)[f]
    BY DEF History, Classify
<1>1. /\ log'.last = c.raw
      /\ log'.previous = log.last
      /\ log'.earlier = log.earlier \cup log.last
      /\ log'.accepted = log.accepted
    BY DEF Logged, Log
<1>2. History[f] = StatusByHistory(f)
    BY DEF History
<1>3. CASE f \in c.raw
    <2>1. Classify(c.raw, History)[f] = Reported[StatusByHistory(f)]
        BY <1>2, <1>3 DEF Classify
    <2> QED
        BY <1>1, <1>3, <2>1 DEF StatusByHistory, Reported
<1>4. CASE f \notin c.raw
    <2>1. Classify(c.raw, History)[f] = Unreported[StatusByHistory(f)]
        BY <1>2, <1>4 DEF Classify
    <2> QED
        BY <1>1, <1>4, <2>1 DEF StatusByHistory, Unreported
<1> QED
    BY <1>3, <1>4

\* Completing a suppression accepts in the history what it accepts in the file.
LEMMA MarksMoveHistory ==
    ASSUME NEW c, ~ c.audit, log \in Log, log' = Logged(c)
    PROVE  History' = Accept(c.marks, History)
<1> SUFFICES ASSUME NEW f \in Findings
             PROVE  StatusByHistory(f)' = Accept(c.marks, History)[f]
    BY DEF History, Accept
<1>1. /\ log'.last = log.last
      /\ log'.previous = log.previous
      /\ log'.earlier = log.earlier
      /\ log'.accepted = log.accepted \cup c.marks
    BY DEF Logged, Log
<1> QED
    BY <1>1 DEF StatusByHistory, Accept, History

\* Where an idle command is.
LEMMA IdleAt == Idle.pc = "idle" /\ Idle.at = "closed"
BY DEF Idle

\* Nothing that happens to the files is a concern of a command that is not
\* between its load and its end.
LEMMA NotBusySaves ==
    ASSUME TypeOK, NEW q \in Processes, ~ Busy(q), Saving(cmd[q]), cmd'[q] = cmd[q]
    PROVE  Saving(cmd[q])' /\ ~ Busy(q)'
BY DEF Busy, Saving, TypeOK, Command

\* A step of one command, while no other is busy, that leaves the file and the
\* history where they were or moves them together, preserves the invariant.
LEMMA StepAlone ==
    ASSUME TypeOK, AloneInv, ~ overlapped, NEW p \in Processes,
           \A q \in Processes \ {p} : ~ Busy(q),
           NEW c, cmd' = [cmd EXCEPT ![p] = c], Saving(c)', file' = History'
    PROVE  AloneInv'
<1>1. \A q \in Processes : cmd'[q] = IF q = p THEN c ELSE cmd[q]
    BY DEF TypeOK
<1>2. \A q \in Processes : Saving(cmd[q])' /\ (q # p => ~ Busy(q)')
    <2> TAKE q \in Processes
    <2>1. CASE q = p
        BY <1>1, <2>1
    <2>2. CASE q # p
        BY <1>1, <2>2, NotBusySaves DEF AloneInv
    <2> QED
        BY <2>1, <2>2
<1> QED
    BY <1>2 DEF AloneInv

\* Loading, alone or at least last (LoadAndClassify, Suppress, Baseline).
LEMMA LoadAlone ==
    ASSUME TypeOK, AloneInv, NEW p \in Processes, Loads(p), NEW c,
           cmd' = [cmd EXCEPT ![p] = c],
           ~ overlapped => Saving(c)', file' = file, History' = History
    PROVE  AloneInv'
<1> SUFFICES ASSUME ~ overlapped' PROVE AloneInv'
    BY DEF AloneInv
<1>1. ~ overlapped /\ \A q \in Processes \ {p} : ~ Busy(q)
    BY DEF Loads, TypeOK
<1> QED
    BY <1>1, StepAlone DEF AloneInv

\* Going on after the load, alone, without completing.
LEMMA ContinueAlone ==
    ASSUME TypeOK, AloneInv, ~ overlapped, NEW p \in Processes, Busy(p),
           NEW c, cmd' = [cmd EXCEPT ![p] = c], Saving(c)', file' = file, log' = log
    PROVE  AloneInv'
<1>1. \A q \in Processes \ {p} : ~ Busy(q)
    BY DEF AloneInv
<1>2. file' = History'
    BY DEF AloneInv, History, StatusByHistory
<1> QED
    BY <1>1, <1>2, StepAlone

\* What a command does before it has loaded or by ending there concerns nobody.
LEMMA ApartFromFile ==
    ASSUME TypeOK, AloneInv, NEW p \in Processes, ~ Busy(p), NEW c,
           cmd' = [cmd EXCEPT ![p] = c], Saving(c)', c.pc \in {"idle", "audited"},
           UNCHANGED <<file, tmp, log, overlapped>>
    PROVE  AloneInv'
<1> SUFFICES ASSUME ~ overlapped PROVE AloneInv'
    BY DEF AloneInv
<1>1. \A q \in Processes : cmd'[q] = IF q = p THEN c ELSE cmd[q]
    BY DEF TypeOK
<1>2. \A q \in Processes : Saving(cmd[q])' /\ (Busy(q)' => Busy(q))
    <2> TAKE q \in Processes
    <2>1. CASE q = p
        BY <1>1, <2>1 DEF Busy
    <2>2. CASE q # p
        <3>1. cmd'[q] = cmd[q]
            BY <1>1, <2>2
        <3>2. Saving(cmd[q])
            BY DEF AloneInv
        <3> QED
            BY <3>1, <3>2 DEF Saving, Computed, Classify, Accept, Busy
    <2> QED
        BY <2>1, <2>2
<1>3. file' = History'
    BY DEF AloneInv, History, StatusByHistory
<1> QED
    BY <1>2, <1>3 DEF AloneInv

\* Every step preserves the invariant.
LEMMA AloneStep == TypeOK /\ AloneInv /\ [Next]_vars => AloneInv'
<1> SUFFICES ASSUME TypeOK, AloneInv, [Next]_vars PROVE AloneInv'
    OBVIOUS
<1>1. ASSUME NEW p \in Processes, NEW looked \in SUBSET Files,
             NEW raw \in SUBSET Findings, Audit(p, looked, raw)
      PROVE  AloneInv'
    <2> PICK c : c = [Idle EXCEPT !.pc = "audited", !.audit = TRUE, !.raw = raw,
                                 !.looked = looked]
        OBVIOUS
    <2>1. Saving(c)'
        BY DEF Saving, Idle
    <2>3. cmd' = [cmd EXCEPT ![p] = c]
        BY <1>1 DEF Audit
    <2>4. ~ Busy(p) /\ c.pc = "audited"
        BY <1>1 DEF Audit, Busy, Idle
    <2> QED
        BY <1>1, <2>1, <2>3, <2>4, ApartFromFile DEF Audit
<1>2. ASSUME NEW p \in Processes, NEW marks \in SUBSET Findings, Marking(p, marks)
      PROVE  AloneInv'
    <2> PICK c : c = [Idle EXCEPT !.pc = "loaded", !.marks = marks,
                                 !.want = Accept(marks, Load)]
        OBVIOUS
    <2> SUFFICES ASSUME ~ overlapped' PROVE AloneInv'
        BY DEF AloneInv
    <2>1. Load = file
        BY <1>2, HistoryType DEF Load, AloneInv, Marking, Loads, TypeOK
    <2>2. c.pc = "loaded" /\ ~ c.audit /\ c.marks = marks /\ c.quiet = {}
              /\ c.want = Accept(marks, Load) /\ c.at = "closed"
        BY DEF Idle
    <2>3. Saving(c)'
        BY <1>2, <2>1, <2>2 DEF Saving, Computed, Accept, Marking
    <2>4. History' = History
        BY <1>2 DEF Marking, History, StatusByHistory, TypeOK, Log
    <2>5. cmd' = [cmd EXCEPT ![p] = c]
        BY <1>2 DEF Marking
    <2> QED
        BY <1>2, <2>3, <2>4, <2>5, LoadAlone DEF Marking
<1>3. CASE UNCHANGED vars
    BY <1>3 DEF vars, AloneInv, Saving, History, StatusByHistory, Busy, Computed, Classify,
                Accept
<1>4. CASE overlapped
    <2>1. overlapped'
        BY <1>4 DEF Next, Audit, LoadAndClassify, Loads, Suppress, Baseline, Marking,
                    Open, Write, Replace, ReplaceFails, Kill, vars
    <2> QED
        BY <2>1 DEF AloneInv
<1>5. ASSUME ~ overlapped, NEW p \in Processes, LoadAndClassify(p) PROVE AloneInv'
    <2> PICK c : c = [cmd[p] EXCEPT !.pc = "loaded",
                        !.want = Classify(cmd[p].raw, Load), !.quiet = log.accepted]
        OBVIOUS
    <2>1. Load = file
        BY <1>5, HistoryType DEF Load, AloneInv
    <2>2. cmd[p].pc = "audited" /\ Saving(cmd[p]) /\ cmd[p] \in Command
        BY <1>5 DEF LoadAndClassify, AloneInv, TypeOK
    <2>3. c.pc = "loaded" /\ c.audit /\ c.raw = cmd[p].raw /\ c.at = "closed"
              /\ c.quiet = log.accepted /\ c.want = Classify(cmd[p].raw, Load)
        BY <2>2 DEF Saving, Command
    <2>4. Saving(c)'
        BY <1>5, <2>1, <2>3 DEF Saving, Computed, Classify, LoadAndClassify
    <2>5. cmd' = [cmd EXCEPT ![p] = c]
        BY <1>5 DEF LoadAndClassify
    <2>6. History' = History
        BY <1>5 DEF LoadAndClassify, History, StatusByHistory
    <2> QED
        BY <1>5, <2>4, <2>5, <2>6, LoadAlone DEF LoadAndClassify
<1>6. ASSUME ~ overlapped, NEW p \in Processes, Open(p) PROVE AloneInv'
    <2> PICK c : c = [cmd[p] EXCEPT !.pc = "opened", !.at = "tmp"]
        OBVIOUS
    <2>1. cmd[p].pc = "loaded" /\ Saving(cmd[p]) /\ cmd[p] \in Command
        BY <1>6 DEF Open, AloneInv, TypeOK
    <2>2. c.pc = "opened" /\ c.at = "tmp" /\ c.audit = cmd[p].audit /\ c.raw = cmd[p].raw
              /\ c.marks = cmd[p].marks /\ c.want = cmd[p].want /\ c.quiet = cmd[p].quiet
        BY <2>1 DEF Command
    <2>3. Saving(c)'
        BY <1>6, <2>1, <2>2 DEF Saving, Computed, Classify, Accept, Open
    <2>4. cmd' = [cmd EXCEPT ![p] = c]
        BY <1>6 DEF Open
    <2> QED
        BY <1>6, <2>1, <2>3, <2>4, ContinueAlone DEF Open, Busy
<1>7. ASSUME ~ overlapped, NEW p \in Processes, Write(p) PROVE AloneInv'
    <2> PICK c : c = [cmd[p] EXCEPT !.pc = "written", !.at = "closed"]
        OBVIOUS
    <2>1. cmd[p].pc = "opened" /\ Saving(cmd[p]) /\ cmd[p] \in Command
        BY <1>7 DEF Write, AloneInv, TypeOK
    <2>2. c.pc = "written" /\ c.at = "closed" /\ c.audit = cmd[p].audit /\ c.raw = cmd[p].raw
              /\ c.marks = cmd[p].marks /\ c.want = cmd[p].want /\ c.quiet = cmd[p].quiet
        BY <2>1 DEF Command
    <2>3. tmp' = cmd[p].want /\ file' = file
        BY <1>7, <2>1 DEF Write, Put, Outcomes, Saving
    <2>4. Saving(c)'
        BY <1>7, <2>1, <2>2, <2>3 DEF Saving, Computed, Classify, Accept, Write
    <2>5. cmd' = [cmd EXCEPT ![p] = c]
        BY <1>7 DEF Write
    <2> QED
        BY <1>7, <2>1, <2>3, <2>4, <2>5, ContinueAlone DEF Write, Busy
<1>8. ASSUME ~ overlapped, NEW p \in Processes, Replace(p) PROVE AloneInv'
    <2>1. cmd[p].pc = "written" /\ Saving(cmd[p]) /\ cmd[p] \in Command
        BY <1>8 DEF Replace, AloneInv, TypeOK
    <2>2. file' = Computed(cmd[p], History)
        BY <1>8, <2>1 DEF Replace, Saving, AloneInv
    <2>3. log' = Logged(cmd[p]) /\ log \in Log
        BY <1>8 DEF Replace, TypeOK
    <2>4. file' = History'
        <3>1. CASE cmd[p].audit
            <4>1. cmd[p].raw \subseteq Findings
                BY <2>1 DEF Command
            <4> QED
                BY <2>2, <2>3, <3>1, <4>1, AuditMovesHistory DEF Computed
        <3>2. CASE ~ cmd[p].audit
            BY <2>2, <2>3, <3>2, MarksMoveHistory DEF Computed
        <3> QED
            BY <3>1, <3>2
    <2>5. \A q \in Processes \ {p} : ~ Busy(q)
        BY <1>8 DEF Replace, AloneInv, Busy
    <2>6. cmd' = [cmd EXCEPT ![p] = Idle]
        <3>1. ASSUME NEW q \in Processes, q # p
              PROVE  [cmd[q] EXCEPT !.at = Follow(cmd[q].at)] = cmd[q]
            <4>1. cmd[q] \in Command /\ Saving(cmd[q]) /\ ~ Busy(q)
                BY <1>8, <2>5, <3>1 DEF TypeOK, AloneInv
            <4>2. cmd[q].at = "closed"
                BY <4>1, IdleAt DEF Saving, Busy, Command
            <4> QED
                BY <4>1, <4>2 DEF Follow, Command
        <3> QED
            BY <1>8, <3>1 DEF Replace, TypeOK
    <2>7. PICK c : c = Idle
        OBVIOUS
    <2>8. Saving(c)'
        BY <2>7 DEF Saving, Idle
    <2> QED
        BY <1>8, <2>4, <2>5, <2>6, <2>7, <2>8, StepAlone
<1>9. ASSUME ~ overlapped, NEW p \in Processes, ReplaceFails(p) PROVE AloneInv'
    <2>1. PICK c : c = Idle
        OBVIOUS
    <2>2. Saving(c)'
        BY <2>1 DEF Saving, Idle
    <2> QED
        BY <1>9, <2>1, <2>2, ContinueAlone DEF ReplaceFails, Busy
<1>10. ASSUME ~ overlapped, NEW p \in Processes, Kill(p) PROVE AloneInv'
    <2>1. Saving(cmd[p]) /\ cmd[p] \in Command
        BY <1>10 DEF AloneInv, TypeOK
    <2>2. file' = file
        BY <1>10, <2>1 DEF Kill, Put, Saving
    <2>3. PICK c : c = Idle
        OBVIOUS
    <2>4. Saving(c)'
        BY <2>3 DEF Saving, Idle
    <2>5. CASE Busy(p)
        BY <1>10, <2>2, <2>3, <2>4, <2>5, ContinueAlone DEF Kill
    <2>6. CASE ~ Busy(p)
        <3>1. tmp' = tmp
            BY <1>10, <2>1, <2>6 DEF Kill, Put, Saving, Busy
        <3> QED
            BY <1>10, <2>2, <2>3, <2>4, <2>6, <3>1, IdleAt, ApartFromFile DEF Kill
    <2> QED
        BY <2>5, <2>6
<1> QED
    <2>1. ASSUME NEW p \in Processes, NEW f \in Findings, Suppress(p, f) PROVE AloneInv'
        BY <1>2, <2>1 DEF Suppress
    <2>2. ASSUME NEW p \in Processes, Baseline(p) PROVE AloneInv'
        BY <1>2, <2>2 DEF Baseline
    <2> QED
        BY <1>1, <1>3, <1>4, <1>5, <1>6, <1>7, <1>8, <1>9, <1>10, <2>1, <2>2 DEF Next

\* AloneInv is an invariant of the specification.
LEMMA AloneHolds == Spec => [](TypeOK /\ AloneInv)
<1>1. Init => TypeOK
    BY TypeInit
<1>2. Init => AloneInv
    <2> SUFFICES ASSUME Init PROVE AloneInv
        OBVIOUS
    <2>1. file = History
        BY DEF Init, History, Nothing, StatusByHistory
    <2>2. \A p \in Processes : cmd[p] = Idle
        BY DEF Init
    <2>3. \A p \in Processes : Saving(cmd[p]) /\ cmd[p].pc = "idle"
        BY <2>2, IdleAt DEF Saving
    <2> QED
        BY <2>1, <2>3 DEF AloneInv, Busy
<1> QED
    BY <1>1, <1>2, TypeStep, AloneStep, PTL DEF Spec

\* One save at a time, killed anywhere: the file is whole and gives every
\* finding the status that the history of completed commands defines.
THEOREM FileIsHistory == Spec => []FileTellsHistory
<1>1. AloneInv => FileTellsHistory
    BY DEF AloneInv, FileTellsHistory, History
<1> QED
    BY <1>1, AloneHolds, PTL

\* One save at a time: what was suppressed when an audit read the file is
\* neither new nor regressed in what it reports.
THEOREM SuppressionsHold == Spec => []SuppressedStaysQuietAlone
<1>1. TypeOK /\ AloneInv => SuppressedStaysQuietAlone
    <2> SUFFICES ASSUME TypeOK, AloneInv, ~ overlapped, NEW p \in Processes,
                        NEW f \in Findings, cmd[p].audit, f \in cmd[p].quiet
                 PROVE  cmd[p].want[f] \notin {"new", "regressed"}
        BY DEF SuppressedStaysQuietAlone, SuppressedStaysQuiet, Surfaces
    <2>1. Saving(cmd[p]) /\ cmd[p] \in Command
        BY DEF AloneInv, TypeOK
    <2>2. cmd[p].pc \in {"loaded", "opened", "written"}
        BY <2>1 DEF Saving, Command, Idle
    <2>3. cmd[p].want = Classify(cmd[p].raw, file) /\ f \in log.accepted
        BY <2>1, <2>2 DEF Saving, Computed
    <2>4. file[f] = "accepted"
        BY <2>3 DEF AloneInv, History, StatusByHistory
    <2> QED
        BY <2>3, <2>4 DEF Classify, Reported, Unreported
<1> QED
    BY <1>1, AloneHolds, PTL

-----------------------------------------------------------------------------
(***************************************************************************)
(* Overlapping commands                                                    *)
(***************************************************************************)

\* What a file or a command may hold accepts only what was asked for.
Faithful(content) ==
    content \in Saved => \A f \in Findings : content[f] = "accepted" => f \in log.asked

\* A mark is asked for before it is computed, computed before it is written,
\* and written before it is in the file: nothing on that way adds one.
AskedInv ==
    /\ Faithful(file)
    /\ Faithful(tmp)
    /\ \A p \in Processes : Faithful(cmd[p].want)

\* What is loaded accepts only what was asked for.
LEMMA LoadFaithful == ASSUME AskedInv PROVE Faithful(Load)
BY DEF AskedInv, Faithful, Load, Nothing

\* classify accepts nothing that was not accepted.
LEMMA ClassifyFaithful ==
    ASSUME NEW raw, NEW saved \in Saved, Faithful(saved)
    PROVE  Faithful(Classify(raw, saved))
<1> SUFFICES ASSUME NEW f \in Findings, Classify(raw, saved)[f] = "accepted"
             PROVE  saved[f] = "accepted"
    BY DEF Faithful
<1>1. saved[f] \in Status
    BY DEF Saved
<1>2. Reported[saved[f]] = "accepted" \/ Unreported[saved[f]] = "accepted"
    BY DEF Classify
<1> QED
    BY <1>1, <1>2 DEF Reported, Unreported, Status

\* No step forgets what was asked for.
LEMMA AskedGrows ==
    TypeOK /\ [Next]_vars => log.asked \subseteq log'.asked
<1> SUFFICES ASSUME TypeOK, [Next]_vars PROVE log.asked \subseteq log'.asked
    OBVIOUS
<1>1. log \in Log
    BY DEF TypeOK
<1>2. CASE log' = log
    BY <1>2
<1>3. ASSUME NEW p \in Processes, NEW marks, Marking(p, marks)
      PROVE  log.asked \subseteq log'.asked
    BY <1>1, <1>3 DEF Marking, Log
<1>4. ASSUME NEW p \in Processes, Replace(p) PROVE log.asked \subseteq log'.asked
    BY <1>1, <1>4 DEF Replace, Logged, Log
<1> QED
    BY <1>2, <1>3, <1>4 DEF Next, Audit, LoadAndClassify, Suppress, Baseline, Open, Write,
                            ReplaceFails, Kill, vars

\* A step puts into the files and the commands what they held before, the text
\* of a command, nothing, or what a command computes from the file; hence every
\* step preserves the invariant.
LEMMA AskedStep == TypeOK /\ AskedInv /\ [Next]_vars => AskedInv'
<1> SUFFICES ASSUME TypeOK, AskedInv, [Next]_vars PROVE AskedInv'
    OBVIOUS
<1> DEFINE Good(content) ==
        content \in Saved => \A f \in Findings : content[f] = "accepted" => f \in log'.asked
<1>1. log.asked \subseteq log'.asked
    BY AskedGrows
<1>2. Good(file) /\ Good(tmp) /\ \A p \in Processes : Good(cmd[p].want)
    BY <1>1 DEF AskedInv, Faithful
<1>3. Good(Torn) /\ Good(Cut) /\ Good(Missing) /\ Good(Nothing)
    BY ContentAssumption DEF Nothing
<1> SUFFICES Good(file') /\ Good(tmp') /\ \A q \in Processes : Good(cmd'[q].want)
    BY DEF AskedInv, Faithful
<1> HIDE DEF Good
<1>4. ASSUME NEW p \in Processes, NEW looked \in SUBSET Files,
             NEW raw \in SUBSET Findings, Audit(p, looked, raw)
      PROVE  Good(file') /\ Good(tmp') /\ \A q \in Processes : Good(cmd'[q].want)
    <2>1. \A q \in Processes : cmd'[q].want \in {Nothing, cmd[q].want}
        BY <1>4 DEF Audit, Idle, TypeOK
    <2> QED
        BY <1>2, <1>3, <1>4, <2>1 DEF Audit
<1>5. ASSUME NEW p \in Processes, LoadAndClassify(p)
      PROVE  Good(file') /\ Good(tmp') /\ \A q \in Processes : Good(cmd'[q].want)
    <2>1. Faithful(Classify(cmd[p].raw, Load))
        BY LoadType, LoadFaithful, ClassifyFaithful
    <2>2. Good(Classify(cmd[p].raw, Load))
        BY <1>1, <2>1 DEF Faithful, Good
    <2>3. \A q \in Processes : cmd'[q].want \in {Classify(cmd[p].raw, Load), cmd[q].want}
        BY <1>5 DEF LoadAndClassify, TypeOK, Command
    <2> QED
        BY <1>2, <1>5, <2>2, <2>3 DEF LoadAndClassify
<1>6. ASSUME NEW p \in Processes, NEW marks \in SUBSET Findings, Marking(p, marks)
      PROVE  Good(file') /\ Good(tmp') /\ \A q \in Processes : Good(cmd'[q].want)
    <2>1. log'.asked = log.asked \cup marks
        BY <1>6 DEF Marking, TypeOK, Log
    <2>2. Good(Accept(marks, Load))
        BY <2>1, LoadType, LoadFaithful DEF Good, Accept, Faithful
    <2>3. \A q \in Processes : cmd'[q].want \in {Accept(marks, Load), cmd[q].want}
        BY <1>6 DEF Marking, Idle, TypeOK
    <2> QED
        BY <1>2, <1>6, <2>2, <2>3 DEF Marking
<1>7. ASSUME NEW p \in Processes, Open(p)
      PROVE  Good(file') /\ Good(tmp') /\ \A q \in Processes : Good(cmd'[q].want)
    <2>1. \A q \in Processes : cmd'[q].want = cmd[q].want
        BY <1>7 DEF Open, TypeOK, Command
    <2> QED
        BY <1>2, <1>3, <1>7, <2>1 DEF Open
<1>8. ASSUME NEW p \in Processes, Write(p)
      PROVE  Good(file') /\ Good(tmp') /\ \A q \in Processes : Good(cmd'[q].want)
    <2>1. \A q \in Processes : cmd'[q].want = cmd[q].want
        BY <1>8 DEF Write, TypeOK, Command
    <2>2. file' \in {file, cmd[p].want, Torn} /\ tmp' \in {tmp, cmd[p].want, Torn}
        BY <1>8 DEF Write, Put, Outcomes
    <2> QED
        BY <1>2, <1>3, <2>1, <2>2
<1>9. ASSUME NEW p \in Processes, Replace(p)
      PROVE  Good(file') /\ Good(tmp') /\ \A q \in Processes : Good(cmd'[q].want)
    <2>1. \A q \in Processes : cmd'[q].want \in {Nothing, cmd[q].want}
        BY <1>9 DEF Replace, Idle, TypeOK, Command
    <2> QED
        BY <1>2, <1>3, <1>9, <2>1 DEF Replace
<1>10. ASSUME NEW p \in Processes, ReplaceFails(p)
      PROVE  Good(file') /\ Good(tmp') /\ \A q \in Processes : Good(cmd'[q].want)
    <2>1. \A q \in Processes : cmd'[q].want \in {Nothing, cmd[q].want}
        BY <1>10 DEF ReplaceFails, Idle, TypeOK
    <2> QED
        BY <1>2, <1>3, <1>10, <2>1 DEF ReplaceFails
<1>11. ASSUME NEW p \in Processes, Kill(p)
      PROVE  Good(file') /\ Good(tmp') /\ \A q \in Processes : Good(cmd'[q].want)
    <2>1. \A q \in Processes : cmd'[q].want \in {Nothing, cmd[q].want}
        BY <1>11 DEF Kill, Idle, TypeOK
    <2>2. file' \in {file, Torn} /\ tmp' \in {tmp, Torn}
        BY <1>11 DEF Kill, Put
    <2> QED
        BY <1>2, <1>3, <2>1, <2>2
<1>12. CASE UNCHANGED vars
    BY <1>2, <1>12 DEF vars
<1>13. ASSUME NEW p \in Processes, NEW f \in Findings, Suppress(p, f)
       PROVE  Good(file') /\ Good(tmp') /\ \A q \in Processes : Good(cmd'[q].want)
    BY <1>6, <1>13 DEF Suppress
<1>14. ASSUME NEW p \in Processes, Baseline(p)
       PROVE  Good(file') /\ Good(tmp') /\ \A q \in Processes : Good(cmd'[q].want)
    BY <1>6, <1>14 DEF Baseline
<1> QED
    BY <1>4, <1>5, <1>7, <1>8, <1>9, <1>10, <1>11, <1>12, <1>13, <1>14 DEF Next

\* However commands overlap and wherever they are killed, the file accepts only
\* what a command was asked to accept.
THEOREM NothingElseIsAccepted == Spec => []OnlyAskedIsAccepted
<1>1. Init => AskedInv
    BY ContentAssumption DEF Init, AskedInv, Faithful, Nothing, Idle
<1>2. TypeOK /\ AskedInv => OnlyAskedIsAccepted
    BY LoadType, LoadFaithful DEF OnlyAskedIsAccepted, Faithful
<1> QED
    BY <1>1, <1>2, TypeInit, TypeStep, AskedStep, PTL DEF Spec

=============================================================================
