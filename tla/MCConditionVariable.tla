------------------------- MODULE MCConditionVariable -------------------------
(***************************************************************************)
(* Instances of ConditionVariable for TLC.  No symmetry: one of them       *)
(* checks liveness.                                                        *)
(***************************************************************************)
EXTENDS ConditionVariable

=============================================================================
