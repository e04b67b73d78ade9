----------------------------- MODULE MCScanJobs -----------------------------
(***************************************************************************)
(* ScanJobs for TLC.  Worker processes are interchangeable, and so are API  *)
(* requests in progress and scans that do not exist yet.                   *)
(***************************************************************************)
EXTENDS ScanJobs, TLC

WorkerSymmetry == Permutations(Workers)
RequestSymmetry == Permutations(Clients) \cup Permutations(Scans)
=============================================================================
