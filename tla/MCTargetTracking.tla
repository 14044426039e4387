-------------------------- MODULE MCTargetTracking --------------------------
(* Targets for TLC.                                                        *)
EXTENDS TargetTracking, TLC

Symmetry == Permutations(Ids)
=============================================================================
