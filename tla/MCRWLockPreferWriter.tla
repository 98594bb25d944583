------------------------ MODULE MCRWLockPreferWriter ------------------------
(***************************************************************************)
(* Instances of RWLockPreferWriter for TLC.  No symmetry: the runs check     *)
(* liveness.                                                               *)
(***************************************************************************)
EXTENDS RWLockPreferWriter

=============================================================================
