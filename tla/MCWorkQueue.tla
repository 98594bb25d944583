----------------------------- MODULE MCWorkQueue -----------------------------
(* WorkQueue with three client tasks and a heap that has room for three    *)
(* items; the constants are in MCWorkQueue.cfg.  No symmetry: the run      *)
(* checks liveness.                                                        *)
EXTENDS WorkQueue
=============================================================================
