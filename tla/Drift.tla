-------------------------------- MODULE Drift --------------------------------
(***************************************************************************)
(* What a change does to the controls of a repository, by patterns on its  *)
(* diff.                                                                   *)
(*                                                                         *)
(* A diff is one block after another, each of a file, which it may delete, *)
(* with its changed lines.  A line is added or removed, and shows what the *)
(* rules look for: a weakening, or a control.                              *)
(***************************************************************************)
EXTENDS Integers, Sequences, FiniteSets, SequencesExt

\* The rules, in the order in which they are tried: the side of a line on which
\* what the rule's pattern matches is weaker.
Rules == <<[rule |-> "auth_check_removed", side |-> "-"], [rule |-> "allow_any", side |-> "+"],
           [rule |-> "cors_any_origin", side |-> "+"], [rule |-> "tls_verification_off", side |-> "+"],
           [rule |-> "debug_on", side |-> "+"], [rule |-> "cookie_flags_off", side |-> "+"],
           [rule |-> "csrf_off", side |-> "+"], [rule |-> "workflow_permissions_widened", side |-> "+"],
           [rule |-> "pull_request_target", side |-> "+"], [rule |-> "file_mode_open", side |-> "+"],
           [rule |-> "validation_removed", side |-> "-"],
           [rule |-> "secret_scanning_bypass", side |-> "+"]>>

\* What is on the added lines of a file; nothing is of one that is deleted.
AddedTo(diff, file) ==
    {l.text : l \in {m \in UNION {Range(b.lines) : b \in {c \in Range(diff) : c.file = file
                                                                           /\ ~c.deleted}} :
                        m.side = "+"}}

\* The rules that a line of a file breaks.  A control that was removed and comes
\* back on an added line of the same file was moved.
Breaks(diff, file, l) ==
    {i \in DOMAIN Rules : /\ Rules[i].side = l.side /\ Rules[i].rule \in l.shows
                          /\ l.side = "-" => l.text \notin AddedTo(diff, file)}

\* One item for a line, of the first rule.  The lines of a file that is deleted are
\* not looked at.
DriftOf(diff) ==
    LET First(rules) == CHOOSE i \in rules : \A j \in rules : i <= j
        Item(b, rules) == IF rules = {} THEN <<>>
                          ELSE <<[file |-> b.file, rule |-> Rules[First(rules)].rule]>>
        Items(b) == [i \in DOMAIN b.lines |-> Item(b, Breaks(diff, b.file, b.lines[i]))]
    IN FlattenSeq([i \in DOMAIN diff |-> IF diff[i].deleted THEN <<>>
                                          ELSE FlattenSeq(Items(diff[i]))])

\* The files of a tier up to this one are critical.
CriticalTier == 4

\* Nothing is compared without a commit to compare with that is in the history.
Compare(base, diff) ==
    IF ~base.known \/ ~base.fetched THEN [compared |-> FALSE, items |-> <<>>, critical |-> {}]
    ELSE [compared |-> TRUE, items |-> DriftOf(diff),
          critical |-> {b.file : b \in {c \in Range(diff) : c.tier <= CriticalTier}}]

=============================================================================
