------------------------------ MODULE MCRunner ------------------------------
(* Instances of Runner for TLC. *)
EXTENDS Runner, TLC

CONSTANTS k1, k2
MCKids == {k1, k2}
\* Descendants differ by name only: the next-state relation never compares
\* them, and no liveness property is checked under the symmetry.
Symmetry == Permutations(MCKids)
=============================================================================
