---------------------------- MODULE MCCheckpoints ---------------------------
(* Values for the constants of Checkpoints.                                *)
EXTENDS Checkpoints, TLC

CONSTANTS w1, w2, m1, m2

MCWorkers == {w1, w2}
MCOneWorker == {w1}
MCTwoModels == <<m1, m2>>
MCNoSource == {}
MCPartlyGenerated == Stages \cup {m1}
MCSymmetry == Permutations(MCWorkers)
=============================================================================
