------------------------ MODULE MCRWLockPreferReader ------------------------
(***************************************************************************)
(* Instances of RWLockPreferReader for TLC.  No symmetry: the runs check     *)
(* liveness.                                                               *)
(***************************************************************************)
EXTENDS RWLockPreferReader

=============================================================================
