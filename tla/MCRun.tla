-------------------------------- MODULE MCRun ---------------------------------
(* A small instance of Run: two inputs, and a history with room for a reply, *)
(* its two calls and one input more or less.                                 *)
EXTENDS Run
===============================================================================
