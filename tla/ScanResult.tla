----------------------------- MODULE ScanResult -----------------------------
(***************************************************************************)
(* What run_scan makes of the errors of its targets: the status of each     *)
(* target and the status of the scan.  Shared by the runner, which builds   *)
(* the result, and by the store, which persists it.                        *)
(***************************************************************************)

TargetStatuses == {"succeeded", "failed", "skipped"}

\* Bug: observations that could not be normalized are taken for absent ones.
TargetStatusParseSkipped(errors) ==
  CASE errors = {} -> "succeeded"
    [] errors # {} /\ errors \subseteq {"service_disabled", "parse_error"} -> "skipped"
    [] OTHER -> "failed"

\* Of the error categories of a target only service_disabled is told apart.
TargetStatus(errors) ==
  CASE errors = {} -> "succeeded"
    [] errors = {"service_disabled"} -> "skipped"
    [] OTHER -> "failed"

Some(target, status) == \E t \in DOMAIN target : target[t] = status

\* `cancelled' is the token without the deadline.
FinalStatus(target, cancelled) ==
  IF cancelled THEN "cancelled"
  ELSE IF Some(target, "succeeded") /\ Some(target, "failed")
  THEN "partially_completed"
  ELSE IF Some(target, "failed") THEN "failed" ELSE "completed"
=============================================================================
