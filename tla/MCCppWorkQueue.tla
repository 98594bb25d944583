--------------------------- MODULE MCCppWorkQueue ---------------------------
(* CppWorkQueue for TLC: the constants are in the cfg files.  No symmetry: *)
(* the run checks liveness.                                                *)
EXTENDS CppWorkQueue
=============================================================================
