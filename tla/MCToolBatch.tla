----------------------------- MODULE MCToolBatch -----------------------------
(* Small instances of ToolBatch: every way an exclusive, a parallel and a    *)
(* rejected call can matter to one another.                                  *)
EXTENDS ToolBatch

\* Three calls: a full parallel group, an exclusive call that separates two
\* parallel ones, a rejected call that does not, and only rejections before one.
MCKinds ==
    { <<"parallel", "parallel", "parallel">>,
      <<"parallel", "exclusive", "parallel">>,
      <<"parallel", "unoffered", "parallel">>,
      <<"gated", "invalid", "exclusive">> }

=============================================================================
