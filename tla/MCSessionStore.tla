--------------------------- MODULE MCSessionStore ---------------------------
(* Two turns of one session, each with one run.                           *)
EXTENDS SessionStore, TLC
CONSTANTS t1, t2
MCTurnIds == {t1, t2}
Symmetry == Permutations(MCTurnIds)
\* Bound: a behaviour has its edit or its crash (MCStores has both, over one turn).
EditOrCrash == edits + crashes <= 1
=============================================================================
