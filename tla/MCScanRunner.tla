---------------------------- MODULE MCScanRunner ----------------------------
(***************************************************************************)
(* ScanRunner for TLC: two targets that may list the same asset compete for *)
(* one thread.  The first has a pager and asks about the items of a page,   *)
(* the second asks twice in a row and before its first checkpoint.          *)
(***************************************************************************)
EXTENDS ScanRunner

CONSTANTS t1, t2

MCStride == [t \in Targets |-> IF t = t1 THEN 1 ELSE 2]
=============================================================================
