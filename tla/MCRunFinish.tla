---------------------------- MODULE MCRunFinish ----------------------------
(* Small instances of RunFinish: every run of these plays one word of its    *)
(* own and one that all share.                                              *)
EXTENDS RunFinish, TLC

CONSTANTS r1, r2, r3, shared, own1, own2

MCRuns == {r1, r2}
MCWords == {shared, own1, own2}
MCTouched == (r1 :> {shared, own1}) @@ (r2 :> {shared, own2})

(* A third run whose attempts Replay refuses. *)
MCThreeRuns == {r1, r2, r3}
MCThreeTouched == MCTouched @@ (r3 :> {shared})
=============================================================================
