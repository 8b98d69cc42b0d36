--------------------------- MODULE MCFindingsFile ---------------------------
(***************************************************************************)
(* Small instances of FindingsFile.                                        *)
(***************************************************************************)
EXTENDS FindingsFile, TLC

CONSTANTS f1, f2,          \* findings
          x, y,            \* files: f1 is in x, f2 in y
          p1, p2           \* processes

FindingIn == [f \in Findings |-> IF f = f1 THEN x ELSE y]

ProcessSymmetry == Permutations(Processes)

=============================================================================
