---------------------------- MODULE MCDeferredWork ----------------------------
(* The instance of DeferredWork that TLC checks. *)
EXTENDS DeferredWork
=============================================================================
