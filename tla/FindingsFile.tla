---------------------------- MODULE FindingsFile ----------------------------
(***************************************************************************)
(* The command line tool's memory of a project: a file of findings, each   *)
(* with its status, that differential audits classify against and that     *)
(* suppress and baseline mark.                                             *)
(*                                                                         *)
(* Every command loads the whole file, changes its copy and saves the      *)
(* whole copy: it writes a temporary file, the same for every process, and *)
(* renames it over the old one.  Nothing is locked, a file that cannot be  *)
(* parsed reads as no findings, and a command may be killed at any step.   *)
(***************************************************************************)
CONSTANTS
    Findings,     \* fingerprints
    Files,        \* files of the project
    FileOf,       \* FileOf[f]: the file that finding f names
    Processes,    \* processes that may run secaudit.py on the project
    Torn,         \* the content of a file that is not valid JSON
    Cut,          \* the content of a file that has just been truncated
    Missing       \* the temporary file when there is none

Status == {"unknown", "new", "persisting", "regressed", "fixed", "accepted"}
\* A saved state; "unknown" is the status of the findings it does not hold.
Saved == [Findings -> Status]
Nothing == [f \in Findings |-> "unknown"]

ASSUME FileOfAssumption == FileOf \in [Findings -> Files]
ASSUME ContentAssumption ==
    /\ Torn \notin Saved /\ Cut \notin Saved /\ Missing \notin Saved
    /\ Torn # Cut /\ Torn # Missing /\ Cut # Missing

VARIABLES
    file,         \* what the state file holds
    tmp,          \* what the temporary file holds
    cmd,          \* process -> the command it runs
    log,          \* history: what the completed commands did
    overlapped    \* history: whether two commands were ever busy with it at once

vars == <<file, tmp, cmd, log, overlapped>>

\* A command between its start and its end.  pc is where it has got to, want
\* what it saves, at the file that its open handle leads to.  Of an audit, raw
\* is what the backend reported, looked the files that answered requests held,
\* quiet what had been suppressed when it read the file; of the others, marks
\* is what they accept.
Command ==
    [pc : {"idle", "audited", "loaded", "opened", "written"},
     audit : BOOLEAN,
     raw : SUBSET Findings, looked : SUBSET Files, quiet : SUBSET Findings,
     marks : SUBSET Findings,
     want : Saved, at : {"closed", "tmp", "file", "gone"}]

Idle == [pc |-> "idle", audit |-> FALSE, raw |-> {}, looked |-> {}, quiet |-> {},
         marks |-> {}, want |-> Nothing, at |-> "closed"]

\* last and previous are the reports of the last two completed audits, earlier
\* those of all but the last; gone is what the last audit that looked at the
\* finding's file did not report; accepted is what a completed command marked,
\* and asked what any command, completed or not, was to mark.
Log == [last : SUBSET Findings, previous : SUBSET Findings,
        earlier : SUBSET Findings, gone : SUBSET Findings,
        accepted : SUBSET Findings, asked : SUBSET Findings]

TypeOK ==
    /\ file \in Saved \cup {Torn, Cut}
    /\ tmp \in Saved \cup {Torn, Cut, Missing}
    /\ cmd \in [Processes -> Command]
    /\ log \in Log
    /\ overlapped \in BOOLEAN

\* No state file is the same to load_state as one without findings.
Init ==
    /\ file = Nothing
    /\ tmp = Missing
    /\ cmd = [p \in Processes |-> Idle]
    /\ log = [last |-> {}, previous |-> {}, earlier |-> {}, gone |-> {},
              accepted |-> {}, asked |-> {}]
    /\ overlapped = FALSE

-----------------------------------------------------------------------------
(***************************************************************************)
(* What the commands compute                                               *)
(***************************************************************************)

Load == IF file \in Saved THEN file ELSE Nothing

\* Mutant: a suppressed finding that an audit does not report is fixed.
UnreportedFixes == [unknown |-> "unknown", new |-> "fixed", persisting |-> "fixed",
                    regressed |-> "fixed", fixed |-> "fixed", accepted |-> "fixed"]

\* The status of a finding the audit reported, by its saved status, and of one
\* that it did not report.
Reported == [unknown |-> "new", new |-> "persisting", persisting |-> "persisting",
             regressed |-> "persisting", fixed |-> "regressed",
             accepted |-> "accepted"]
Unreported == [unknown |-> "unknown", new |-> "fixed", persisting |-> "fixed",
               regressed |-> "fixed", fixed |-> "fixed", accepted |-> "accepted"]

\* Mutant: a fixed finding that is back is one that persists.
ClassifyWithoutRegressed(raw, saved) ==
    [f \in Findings |->
        IF f \in raw
        THEN [Reported EXCEPT !.fixed = "persisting"][saved[f]]
        ELSE Unreported[saved[f]]]

Classify(raw, saved) ==
    [f \in Findings |-> IF f \in raw THEN Reported[saved[f]] ELSE Unreported[saved[f]]]

\* Mutant: marking does not look at which finding it marks.
AcceptAll(marks, saved) ==
    [f \in Findings |-> IF saved[f] = "unknown" THEN "unknown" ELSE "accepted"]

Accept(marks, saved) ==
    [f \in Findings |-> IF f \in marks THEN "accepted" ELSE saved[f]]

-----------------------------------------------------------------------------
(***************************************************************************)
(* Commands                                                                *)
(***************************************************************************)

\* Between a command's load and its end the file should not change under it.
Busy(p) == cmd[p].pc \in {"loaded", "opened", "written"}

Loads(p) == overlapped' = (overlapped \/ \E q \in Processes \ {p} : Busy(q))

\* The requests of a differential audit have been answered.  Without a file to
\* send there is no request, and the audit reports nothing; when no request is
\* answered it exits and has changed nothing.
Audit(p, looked, raw) ==
    /\ cmd[p].pc = "idle"
    /\ looked = {} => raw = {}
    /\ cmd' = [cmd EXCEPT ![p] = [Idle EXCEPT !.pc = "audited", !.audit = TRUE,
                                              !.raw = raw, !.looked = looked]]
    /\ UNCHANGED <<file, tmp, log, overlapped>>

\* The state is read after the requests, and classified; the evidence check
\* that follows leaves every status alone.
LoadAndClassify(p) ==
    /\ cmd[p].pc = "audited"
    /\ cmd' = [cmd EXCEPT ![p].pc = "loaded",
                          ![p].want = Classify(cmd[p].raw, Load),
                          ![p].quiet = log.accepted]
    /\ Loads(p)
    /\ UNCHANGED <<file, tmp, log>>

Marking(p, marks) ==
    /\ cmd[p].pc = "idle"
    /\ Loads(p)
    /\ cmd' = [cmd EXCEPT ![p] = [Idle EXCEPT !.pc = "loaded", !.marks = marks,
                                              !.want = Accept(marks, Load)]]
    /\ log' = [log EXCEPT !.asked = log.asked \cup marks]
    /\ UNCHANGED <<file, tmp>>

\* Of a finding that is not in the state, suppress says so and saves nothing.
Suppress(p, f) == Load[f] # "unknown" /\ Marking(p, {f})

Baseline(p) ==
    Marking(p, {f \in Findings : Load[f] \notin {"unknown", "accepted", "fixed"}})

-----------------------------------------------------------------------------
(***************************************************************************)
(* Saving                                                                  *)
(***************************************************************************)

\* The temporary file is created or truncated, whoever else has it open.
Open(p) ==
    /\ cmd[p].pc = "loaded"
    /\ tmp' = Cut
    /\ cmd' = [cmd EXCEPT ![p].pc = "opened", ![p].at = "tmp"]
    /\ UNCHANGED <<file, log, overlapped>>

\* What p may leave in a file it has open: its own text, if the file is still
\* empty, and otherwise its text over what somebody else wrote there.
Outcomes(p, content) ==
    IF content = Cut THEN {cmd[p].want} ELSE {cmd[p].want, Torn}

\* p's handle leads to whatever became of the file it opened.
Put(p, intoTmp, intoFile) ==
    /\ IF cmd[p].at = "tmp" THEN tmp' \in intoTmp ELSE UNCHANGED tmp
    /\ IF cmd[p].at = "file" THEN file' \in intoFile ELSE UNCHANGED file

Write(p) ==
    /\ cmd[p].pc = "opened"
    /\ Put(p, Outcomes(p, tmp), Outcomes(p, file))
    /\ cmd' = [cmd EXCEPT ![p].pc = "written", ![p].at = "closed"]
    /\ UNCHANGED <<log, overlapped>>

\* Handles follow the file that is renamed; the replaced one has no name left.
Follow(at) == CASE at = "tmp" -> "file" [] at = "file" -> "gone" [] OTHER -> at

Logged(c) ==
    IF c.audit
    THEN [log EXCEPT !.last = c.raw, !.previous = log.last,
                     !.earlier = log.earlier \cup log.last,
                     !.gone = (log.gone \cup {f \in Findings : FileOf[f] \in c.looked})
                                 \ c.raw]
    ELSE [log EXCEPT !.accepted = log.accepted \cup c.marks]

\* Mutant: a rename without a temporary file succeeds.
ReplaceAnyway(p) ==
    /\ cmd[p].pc = "written"
    /\ file' = tmp
    /\ tmp' = Missing
    /\ log' = Logged(cmd[p])
    /\ cmd' = [cmd EXCEPT ![p] = Idle]
    /\ UNCHANGED overlapped

\* The rename, after which the command reports what it did and ends.
Replace(p) ==
    /\ cmd[p].pc = "written"
    /\ tmp # Missing
    /\ file' = tmp
    /\ tmp' = Missing
    /\ log' = Logged(cmd[p])
    /\ cmd' = [q \in Processes |->
                 IF q = p THEN Idle ELSE [cmd[q] EXCEPT !.at = Follow(cmd[q].at)]]
    /\ UNCHANGED overlapped

\* Another process has renamed the temporary file: the command fails.
ReplaceFails(p) ==
    /\ cmd[p].pc = "written"
    /\ tmp = Missing
    /\ cmd' = [cmd EXCEPT ![p] = Idle]
    /\ UNCHANGED <<file, tmp, log, overlapped>>

\* Killed anywhere; while it writes, part of the text may have been written.
Kill(p) ==
    /\ cmd[p].pc # "idle"
    /\ Put(p, {tmp, Torn}, {file, Torn})
    /\ cmd' = [cmd EXCEPT ![p] = Idle]
    /\ UNCHANGED <<log, overlapped>>

Next ==
    \E p \in Processes :
        \/ \E looked \in SUBSET Files, raw \in SUBSET Findings : Audit(p, looked, raw)
        \/ LoadAndClassify(p)
        \/ \E f \in Findings : Suppress(p, f)
        \/ Baseline(p)
        \/ Open(p) \/ Write(p) \/ Replace(p) \/ ReplaceFails(p)
        \/ Kill(p)

Spec == Init /\ [][Next]_vars

-----------------------------------------------------------------------------
(***************************************************************************)
(* Properties                                                              *)
(***************************************************************************)

\* The status of f as the history of completed commands defines it: README's
\* table of finding statuses.
StatusByHistory(f) ==
    CASE f \in log.accepted -> "accepted"
      [] f \notin log.accepted /\ f \notin log.last ->
            IF f \in log.earlier THEN "fixed" ELSE "unknown"
      [] f \notin log.accepted /\ f \in log.last ->
            IF f \notin log.earlier THEN "new"
            ELSE IF f \in log.previous THEN "persisting" ELSE "regressed"

\* As long as no two commands were between load and save at once, the file is
\* whole and says of every finding what the history of the completed commands
\* says, wherever a command was killed (save_state's write-then-rename,
\* classify's table) and whatever was suppressed while an audit's requests ran.
FileTellsHistory ==
    ~ overlapped => file = [f \in Findings |-> StatusByHistory(f)]

Surfaces(p) ==
    {f \in Findings : cmd[p].audit /\ cmd[p].want[f] \in {"new", "regressed"}}

\* README.md: suppressed findings never surface as new or regressed, here of
\* audits that read the file after the suppression was confirmed.
SuppressedStaysQuiet ==
    \A p \in Processes : Surfaces(p) \cap cmd[p].quiet = {}

\* The same, as long as no two commands were between load and save at once.
SuppressedStaysQuietAlone == ~ overlapped => SuppressedStaysQuiet

\* Whatever overlaps and whoever is killed, the file accepts only what a
\* command was asked to accept: lost updates and mixed-up writes of save_state
\* lose suppressions, and never make one.
OnlyAskedIsAccepted ==
    \A f \in Findings : Load[f] = "accepted" => f \in log.asked

\* README.md: a regressed finding was fixed and is back, that is, an audit that
\* looked at its file since it was last reported did not report it.
RegressedWasFixed ==
    \A p \in Processes, f \in Findings :
        cmd[p].audit /\ cmd[p].want[f] = "regressed" => f \in log.gone

=============================================================================
