------------------------------ MODULE Findings ------------------------------
(***************************************************************************)
(* What a finding promises its readers: scans open it, resolve it and       *)
(* reopen it, people decide about it, and no scan touches a decision.       *)
(* A control is one policy about one asset; it has at most one finding.     *)
(***************************************************************************)
CONSTANTS
  Controls,   \* policy and asset: what a fingerprint names
  Decisions   \* statuses only a person sets

VARIABLES
  status,   \* status of every control's finding
  by        \* who gave it that status

vars == <<status, by>>

Init == /\ status = [c \in Controls |-> "absent"]
        /\ by = [c \in Controls |-> "nobody"]

\* What a scan may turn a status into.
Moves(old) == CASE old \in {"absent", "resolved"} -> {"open"}
                [] old = "open"                   -> {"resolved"}
                [] OTHER                          -> {}

\* A scan changes any number of findings, and answers for each change.
Scan ==
  /\ status' \in [Controls -> {"absent", "open", "resolved"} \cup Decisions]
  /\ by' \in [Controls -> {"nobody", "scan", "person"}]
  /\ \A c \in Controls :
       \/ status'[c] = status[c] /\ by'[c] = by[c]
       \/ status'[c] \in Moves(status[c]) /\ by'[c] = "scan"

\* A person may set any status there is, on a finding there is.
Decide(c, to) == /\ status[c] # "absent"
                 /\ status' = [status EXCEPT ![c] = to]
                 /\ by' = [by EXCEPT ![c] = "person"]

Next == \/ Scan
        \/ \E c \in Controls, to \in {"open", "resolved"} \cup Decisions :
             Decide(c, to)

Spec == Init /\ [][Next]_vars
=============================================================================
