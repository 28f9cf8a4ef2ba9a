------------------------- MODULE MCScaleSetAcquire -------------------------
(***************************************************************************)
(* Instances of ScaleSetAcquire for TLC.                                   *)
(***************************************************************************)
EXTENDS ScaleSetAcquire, TLC

\* Process ids are compared, never ordered.
PidSymmetry == Permutations(Pids)

MCLanesOf == [h \in Holders |-> {"scaleset"}]

=============================================================================
