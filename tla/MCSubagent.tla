----------------------------- MODULE MCSubagent -----------------------------
(* The root's run, two child sessions and up to three activations.         *)
EXTENDS Subagent, TLC
CONSTANTS c1, c2
MCChildren == {c1, c2}
MCOneChild == {c1}
Symmetry == Permutations(MCChildren)
=============================================================================
