--------------------------- MODULE MCToolBatchStale ---------------------------
(* A history variable on top of ToolBatch: `stale` remembers the approved    *)
(* calls that had to wait for another call's checkpoint between the policy's *)
(* decision and the body.                                                    *)
EXTENDS ToolBatch

MCStaleKinds == { <<"parallel", "parallel">> }

VARIABLE stale


StaleInit == Init /\ stale = {}
StaleNext ==
    /\ Next
    /\ stale' = {i \in Calls : pc'[i] = "check" /\ (i \in stale \/ holder' # NoCall)}
                  \union (stale \intersect {i \in Calls : pc'[i] = "body"})
StaleSpec == StaleInit /\ [][StaleNext]_<<vars, stale>>

\* "A slow checkpoint must not leave a stale policy decision" (the comment above
\* the policy loop of run_one): no body is entered on a decision that is older
\* than a checkpoint commit the call had to wait for.
PolicyFresh == \A i \in Calls : pc[i] = "body" => i \notin stale
=============================================================================
