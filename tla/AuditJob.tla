------------------------------ MODULE AuditJob ------------------------------
(***************************************************************************)
(* What the service promises of an audit, without the parties that execute *)
(* it: it is submitted, runs, and finishes or fails; a finished audit has  *)
(* exactly one result and never changes again; an audit that was failed by *)
(* a restart may still be brought back by the runner that was at work on   *)
(* it.  An audit may be removed at any time.                               *)
(***************************************************************************)
EXTENDS Naturals, Sequences

CONSTANTS Audits, Commits

VARIABLES
    status,     \* id -> the status the API shows
    published   \* id -> the commits whose findings the API shows, in order

vars == <<status, published>>

TypeOK ==
    /\ status \in [Audits -> {"none", "pending", "running", "done", "error", "deleted"}]
    /\ published \in [Audits -> Seq(Commits)]

Init ==
    /\ status = [a \in Audits |-> "none"]
    /\ published = [a \in Audits |-> <<>>]

Moves(a, from, to) ==
    /\ status[a] \in from
    /\ status' = [status EXCEPT ![a] = to]

Submit(a) == Moves(a, {"none"}, "pending") /\ UNCHANGED published
Start(a) == Moves(a, {"pending"}, "running") /\ UNCHANGED published
Fail(a) == Moves(a, {"pending", "running"}, "error") /\ UNCHANGED published
Resume(a) == Moves(a, {"error"}, "running") /\ UNCHANGED published

\* The one step that publishes.
Finish(a) ==
    /\ Moves(a, {"running"}, "done")
    /\ \E c \in Commits : published' = [published EXCEPT ![a] = <<c>>]

Remove(a) ==
    /\ Moves(a, {"pending", "running", "done", "error"}, "deleted")
    /\ published' = [published EXCEPT ![a] = <<>>]

\* A restart fails whatever was not finished, and nothing else.
Interrupt ==
    /\ status' = [a \in Audits |->
          IF status[a] \in {"pending", "running"} THEN "error" ELSE status[a]]
    /\ UNCHANGED published

Next ==
    \/ \E a \in Audits : \/ Submit(a) \/ Start(a) \/ Fail(a) \/ Resume(a)
                         \/ Finish(a) \/ Remove(a)
    \/ Interrupt

Spec == Init /\ [][Next]_vars

=============================================================================
