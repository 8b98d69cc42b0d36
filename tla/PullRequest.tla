----------------------------- MODULE PullRequest -----------------------------
(***************************************************************************)
(* What a delivery of GitHub asks for, and what an audit says of a pull    *)
(* request.                                                                *)
(***************************************************************************)
EXTENDS Integers, Sequences, FiniteSets, SequencesExt

T == INSTANCE Trust

-----------------------------------------------------------------------------
(***************************************************************************)
(* Deliveries                                                              *)
(***************************************************************************)

Nothing == [asks |-> "nothing"]

\* A push asks for an audit of its branch, unless it deletes it.
ParsePush(p) ==
    IF ~p.branch \/ p.deleted THEN Nothing ELSE [asks |-> "branch", head |-> p.head]

\* A pull request asks for an audit of exactly its head, compared with its base.
ParsePullRequest(p) ==
    IF p.action \notin {"opened", "synchronize", "reopened", "ready_for_review"} \/ ~p.shas
    THEN Nothing
    ELSE [asks |-> "pull_request", head |-> p.head, base |-> p.base, repo |-> p.valid_repo]

\* What is done for a delivery: nothing is read of one that is not signed, and
\* nothing cloned of one whose repository's owner is not allowed.
Asked(d) ==
    LET p == IF d.event = "push" THEN ParsePush(d.payload) ELSE ParsePullRequest(d.payload)
    IN IF ~d.signed THEN [asks |-> "unauthorized"]
       ELSE IF d.event \notin {"push", "pull_request"} THEN Nothing
       ELSE IF ~d.payload.decodes \/ (p # Nothing /\ ~d.payload.url) THEN [asks |-> "refused"]
       ELSE IF p # Nothing /\ ~d.payload.owner THEN Nothing ELSE p

-----------------------------------------------------------------------------
(***************************************************************************)
(* The report                                                              *)
(***************************************************************************)

\* Of rows that share a fingerprint, the last stands for it.
Prints(rows) == {rows[i].print : i \in DOMAIN rows}
RowOf(rows, p) ==
    rows[CHOOSE i \in DOMAIN rows : /\ rows[i].print = p
                                    /\ \A j \in DOMAIN rows : rows[j].print = p => j <= i]

\* What came, went, stayed and came back against an earlier audit.
FindingDiff(previous, current, fixed) ==
    LET Back(p) == p \in fixed \/ RowOf(current, p).zombie
        added == Prints(current) \ Prints(previous)
    IN [persisting |-> Prints(current) \cap Prints(previous),
        reintroduced |-> {p \in added : Back(p)}, new |-> {p \in added : ~Back(p)},
        fixed |-> Prints(previous) \ Prints(current)]

\* The state that a commit gets, and the counts of the comment.
Report(current, diff, weakened) ==
    LET new == {p \in diff.new : T!Positive(RowOf(current, p))}
        blocking == {p \in new : RowOf(current, p).severity = "high"}
    IN [state |-> IF blocking # {} \/ weakened # <<>> THEN "failure" ELSE "success",
        new |-> Cardinality(new), fixed |-> Cardinality(diff.fixed),
        persisting |-> Cardinality(diff.persisting),
        reintroduced |-> Cardinality(diff.reintroduced), weakened |-> Len(weakened)]

=============================================================================
