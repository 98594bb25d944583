---------------------------- MODULE MCBoundedQueue ----------------------------
(***************************************************************************)
(* Instances of BoundedQueue for TLC.  No symmetry: the run checks         *)
(* liveness.                                                               *)
(***************************************************************************)
EXTENDS BoundedQueue

=============================================================================
