--------------------------- MODULE MCImmuneMemory ---------------------------
(***************************************************************************)
(* Small instances of ImmuneMemory.                                        *)
(***************************************************************************)
EXTENDS ImmuneMemory

CONSTANT f                 \* a flaw

\* Proposals match the flaw and one of the safe versions: they pass the test of a
\* fix to the other one, and match code that was never flawed.
LoosePatterns == {{<<f, "flawed">>, <<f, "safe">>}}

=============================================================================
