----------------------------- MODULE MCMemPool -----------------------------
(* MemPool for TLC: the constants are in MCMemPool.cfg, and the calls of   *)
(* the tasks are symmetric.                                                *)
EXTENDS MemPool, TLC

Symmetry == Permutations(Tasks)

=============================================================================
