--------------------------- MODULE MCModelGateway ---------------------------
(* A run, and the run of a subagent on a branch.                           *)
EXTENDS ModelGateway
MCTaskOf == [c \in Callers |-> IF c = "child" THEN "branch" ELSE "root"]
=============================================================================
