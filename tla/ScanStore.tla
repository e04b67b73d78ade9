----------------------------- MODULE ScanStore ------------------------------
(***************************************************************************)
(* Findings of one connection: how the results of its scans, possibly of    *)
(* several scans at a time and of several attempts at one, are merged into  *)
(* the findings table, while people change statuses.                       *)
(*                                                                         *)
(* persist_scan is one action.  Its transaction updates the rows of all     *)
(* policies before it touches a finding, so two of them never overlap from  *)
(* there on, and it touches the finding of a control in one statement.      *)
(* change_finding_status is two: it reads the row, and the ORM writes it at *)
(* the commit if the status asked for differs from the status read.        *)
(***************************************************************************)
EXTENDS ScanResult, FiniteSets

CONSTANTS
  Controls,   \* policy and asset: what a fingerprint names
  Targets,    \* scan targets: a collector in a scope
  TargetOf,   \* the target that collects the asset of a control
  Scans,      \* scans of the connection
  People,     \* status changes that can be in progress at once
  Decisions,  \* statuses only a person sets
  NoScan      \* before the first scan

ASSUME ScanStoreAssumption ==
  /\ Decisions \cap {"absent", "open", "resolved"} = {}
  /\ TargetOf \in [Controls -> Targets]
  /\ NoScan \notin Scans

VARIABLES
  result,   \* what a worker holds of a scan between run_scan and the commit
  finding,  \* the findings table
  person,   \* a status change between its read and its commit
  audit,    \* newest finding_status_changes row of a control
  witness   \* history: last pass or fail a scan that counts has persisted

vars == <<result, finding, person, audit, witness>>

\* "unknown" is any of insufficient_data, not_applicable and error, "none" a
\* control that was not evaluated.
Verdicts == {"pass", "fail", "unknown", "none"}
Statuses == {"open", "resolved"} \cup Decisions

NoResult == [status |-> "none", target |-> [t \in Targets |-> "failed"],
             verdict |-> [c \in Controls |-> "none"]]
NoFinding == [status |-> "absent", first |-> NoScan, last |-> NoScan,
              by |-> "nobody"]
NoChange == [from |-> "absent", to |-> "absent"]
Nobody == [control |-> "none", read |-> "absent", to |-> "absent"]

TypeOK ==
  /\ result \in [Scans -> [status : {"none", "completed", "cancelled", "failed",
                                     "partially_completed"},
                           target : [Targets -> TargetStatuses],
                           verdict : [Controls -> Verdicts]]]
  /\ finding \in [Controls -> [status : Statuses \cup {"absent"},
                               first : Scans \cup {NoScan},
                               last : Scans \cup {NoScan},
                               by : {"nobody", "scan", "person"}]]
  /\ person \in [People -> [control : Controls \cup {"none"},
                            read : Statuses \cup {"absent"},
                            to : Statuses \cup {"absent"}]]
  /\ audit \in [Controls -> [from : Statuses \cup {"absent"},
                             to : Statuses \cup {"absent"}]]
  /\ witness \in [Controls -> {"none", "pass", "fail"}]

Init ==
  /\ result = [s \in Scans |-> NoResult]
  /\ finding = [c \in Controls |-> NoFinding]
  /\ person = [p \in People |-> Nobody]
  /\ audit = [c \in Controls |-> NoChange]
  /\ witness = [c \in Controls |-> "none"]
-----------------------------------------------------------------------------
(***************************************************************************)
(* Results.                                                                *)
(***************************************************************************)
\* Only assets of targets that succeeded are evaluated.
Evaluated(target) == {c \in Controls : target[TargetOf[c]] = "succeeded"}

\* Bug: the findings of a cancelled scan are kept.
FailuresKept(r) == {c \in Controls : r.verdict[c] = "fail"}

\* The findings of a result; a cancelled scan has none, but keeps its
\* evaluations.
Failures(r) == IF r.status = "cancelled" THEN {}
               ELSE {c \in Controls : r.verdict[c] = "fail"}

Succeeded(r) == r.status \in {"completed", "partially_completed"}

\* run_scan ends, whatever it has seen of the cloud.  A scan whose job is
\* retried runs again.
Collect(s, target, verdict, cancelled) ==
  /\ result[s] = NoResult
  /\ \A c \in Controls \ Evaluated(target) : verdict[c] = "none"
  /\ result' = [result EXCEPT ![s] =
       [status |-> FinalStatus(target, cancelled), target |-> target,
        verdict |-> verdict]]
  /\ UNCHANGED <<finding, person, audit, witness>>

\* The worker stops, or its transaction fails, before the commit.
Lose(s) ==
  /\ result[s] # NoResult
  /\ result' = [result EXCEPT ![s] = NoResult]
  /\ UNCHANGED <<finding, person, audit, witness>>
-----------------------------------------------------------------------------
(***************************************************************************)
(* persist_scan.                                                           *)
(***************************************************************************)
\* Bug: a finding that is seen again is open again, decided or not.
SeenOverDecision(f, s) ==
  IF f.status = "absent"
  THEN [status |-> "open", first |-> s, last |-> s, by |-> "scan"]
  ELSE [f EXCEPT !.last = s, !.status = "open",
                 !.by = IF f.status = "open" THEN @ ELSE "scan"]

\* Bug: a finding that reappears starts its history anew.
SeenAfresh(f, s) ==
  IF f.status \in {"absent", "resolved"}
  THEN [status |-> "open", first |-> s, last |-> s, by |-> "scan"]
  ELSE [f EXCEPT !.last = s]

\* Bug: the result of the evaluation is stored as the status.
SeenAsVerdict(f, s) ==
  IF f.status = "absent"
  THEN [status |-> "open", first |-> s, last |-> s, by |-> "scan"]
  ELSE [f EXCEPT !.last = s, !.status = IF @ = "resolved" THEN "fail" ELSE @]

\* INSERT ... ON CONFLICT (organization_id, fingerprint) DO UPDATE
Seen(f, s) ==
  CASE f.status = "absent" ->
         [status |-> "open", first |-> s, last |-> s, by |-> "scan"]
    [] f.status = "resolved" ->
         [f EXCEPT !.last = s, !.status = "open", !.by = "scan"]
    [] OTHER -> [f EXCEPT !.last = s]

\* Bug: what a failed target does not report counts as passed.
ResolvesUnreported(r, c) ==
  Succeeded(r) /\ (r.verdict[c] = "pass" \/ r.target[TargetOf[c]] = "failed")

\* The UPDATE of a passed control is reached.
Resolves(r, c) == /\ Succeeded(r)
                  /\ r.verdict[c] = "pass"
                  /\ r.target[TargetOf[c]] = "succeeded"

\* UPDATE findings SET status = 'resolved' ... WHERE status = 'open'
Gone(f) == IF f.status = "open"
           THEN [f EXCEPT !.status = "resolved", !.by = "scan"] ELSE f

Persist(s) ==
  LET r == result[s]
  IN  /\ r # NoResult
      /\ finding' = [c \in Controls |->
           CASE c \in Failures(r) -> Seen(finding[c], s)
             [] c \notin Failures(r) /\ Resolves(r, c) -> Gone(finding[c])
             [] OTHER -> finding[c]]
      /\ witness' = [c \in Controls |->
           IF Succeeded(r) /\ r.verdict[c] \in {"pass", "fail"}
           THEN r.verdict[c] ELSE witness[c]]
      /\ result' = [result EXCEPT ![s] = NoResult]
      /\ UNCHANGED <<person, audit>>
-----------------------------------------------------------------------------
(***************************************************************************)
(* change_finding_status.                                                  *)
(***************************************************************************)
ReadFinding(p, c, to) ==
  /\ person[p] = Nobody
  /\ finding[c].status # "absent"
  /\ person' = [person EXCEPT ![p] = [control |-> c, to |-> to,
                                      read |-> finding[c].status]]
  /\ UNCHANGED <<result, finding, audit, witness>>

\* Bug: the change is recorded only if it was made from an open finding.
RecordedFromOpen(c, read, to) ==
  IF read = "open" THEN [audit EXCEPT ![c] = [from |-> read, to |-> to]]
                   ELSE audit

Recorded(c, read, to) == [audit EXCEPT ![c] = [from |-> read, to |-> to]]

WriteFinding(p) ==
  LET c == person[p].control
      to == person[p].to
  IN  /\ person[p] # Nobody
      /\ finding' = IF to = person[p].read THEN finding
                    ELSE [finding EXCEPT ![c].status = to, ![c].by = "person"]
      /\ audit' = Recorded(c, person[p].read, to)
      /\ person' = [person EXCEPT ![p] = Nobody]
      /\ UNCHANGED <<result, witness>>
-----------------------------------------------------------------------------
Next ==
  \/ \E s \in Scans, target \in [Targets -> TargetStatuses],
        verdict \in [Controls -> Verdicts], cancelled \in BOOLEAN :
       Collect(s, target, verdict, cancelled)
  \/ \E s \in Scans : Lose(s) \/ Persist(s)
  \/ \E p \in People, c \in Controls, to \in Statuses : ReadFinding(p, c, to)
  \/ \E p \in People : WriteFinding(p)

Spec == Init /\ [][Next]_vars
-----------------------------------------------------------------------------
(***************************************************************************)
(* Properties.                                                             *)
(***************************************************************************)
\* persist_scan and change_finding_status together keep what a finding
\* promises: only scans open and reopen it, and no scan touches a decision.
F == INSTANCE Findings WITH status <- [c \in Controls |-> finding[c].status],
                            by <- [c \in Controls |-> finding[c].by]
Lifecycle == F!Spec

\* The statuses reconcile_findings of engine/reconciliation.py would give.
Reconciled(c, r) ==
  LET old == finding[c].status
  IN  CASE c \in Failures(r) ->
             IF old \in {"absent", "resolved"} THEN "open" ELSE old
        [] c \notin Failures(r) /\ old # "absent" /\ Succeeded(r)
             /\ r.verdict[c] = "pass" /\ old \notin Decisions -> "resolved"
        [] OTHER -> old

\* The statements of persist_scan do to the table what the reference function
\* the tests check, reconcile_findings, does to a list, although it resolves a
\* finding without asking for the target of the evaluation.
PersistReconciles ==
  [][ \A s \in Scans : Persist(s) =>
        \A c \in Controls :
          finding'[c].status = Reconciled(c, result[s]) ]_vars

\* A status that a scan set last is what the last scan that counted and
\* evaluated the control saw, in the order of the commits, whatever attempts,
\* cancelled scans, failed targets and undecided evaluations came between.
\* That a scan lists the asset no more is no evidence to the code, although it
\* is to the documentation: see AbsenceResolves.
ScanStatusFollowsEvidence ==
  \A c \in Controls : finding[c].by = "scan" =>
    finding[c].status = IF witness[c] = "fail" THEN "open" ELSE "resolved"

\* A finding keeps the scan it was first seen by, through resolution,
\* reappearance, decisions and repeated attempts.
FirstSeenFixed ==
  [][ \A c \in Controls : finding[c].status # "absent" =>
        finding'[c].first = finding[c].first /\ finding'[c].status # "absent" ]_vars

\* Each time a finding takes or loses a decision, the newest row of its
\* trail names the status it has from then on.
DecisionsAudited ==
  [][ \A c \in Controls :
        /\ finding'[c].status # finding[c].status
        /\ {finding[c].status, finding'[c].status} \cap Decisions # {}
        => audit'[c].to = finding'[c].status ]_vars

\* A scan that was cancelled or had no target succeed changes no finding.
UnsuccessfulScanIsSilent ==
  [][ \A s \in Scans :
        Persist(s) /\ (\/ result[s].status = "cancelled"
                       \/ ~Some(result[s].target, "succeeded"))
          => finding' = finding ]_vars

(***************************************************************************)
(* What the documentation says and the code does not do.                   *)
(***************************************************************************)
\* data-flows.md and domain-model.md: an open finding is resolved by a scan
\* whose target succeeded and does not list the asset any more.
AbsenceResolves ==
  [][ \A s \in Scans, c \in Controls :
        /\ Persist(s) /\ Succeeded(result[s])
        /\ result[s].target[TargetOf[c]] = "succeeded"
        /\ result[s].verdict[c] = "none"
        /\ finding[c].status = "open"
        => finding'[c].status = "resolved" ]_vars

\* acceptance-criteria.md, AC-FIND-7: every transition is recorded with the
\* status it leads from and the one it leads to; here those by a person.
TransitionsAudited ==
  [][ \A p \in People, c \in Controls :
        WriteFinding(p) /\ finding'[c].status # finding[c].status
          => audit'[c] = [from |-> finding[c].status,
                          to |-> finding'[c].status] ]_vars
=============================================================================
