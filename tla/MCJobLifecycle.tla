--------------------------- MODULE MCJobLifecycle ---------------------------
(* Values for the constants of JobLifecycle.                               *)
EXTENDS JobLifecycle, TLC

CONSTANTS ingest, generate, w1, w2

MCIngestion == {ingest}
MCGeneration == {generate}
MCNone == {}
MCWorkers == {w1, w2}
MCOneWorker == {w1}
MCAllFaults == LossyFaults \cup CoveredFaults
MCSymmetry == Permutations(MCWorkers)
=============================================================================
