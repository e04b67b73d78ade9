---------------------------- MODULE MCScanStore -----------------------------
(***************************************************************************)
(* ScanStore for TLC: one control, and a target that has no part in it.    *)
(***************************************************************************)
EXTENDS ScanStore, TLC

CONSTANTS c1, t1

TargetOfControl == c1 :> t1
ScanSymmetry == Permutations(Scans)
=============================================================================
