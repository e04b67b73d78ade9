-------------------------- MODULE ScanStoreProofs ---------------------------
(***************************************************************************)
(* Theorems about ScanStore, for any number of controls, targets, scans and *)
(* people: it implements Findings, what scans leave in the table is what    *)
(* they saw, and no step of a scan or a person tampers with the history.    *)
(***************************************************************************)
EXTENDS ScanStore, TLAPS

ResultRecord == [status : {"none", "completed", "cancelled", "failed",
                           "partially_completed"},
                 target : [Targets -> TargetStatuses],
                 verdict : [Controls -> Verdicts]]
FindingRow == [status : Statuses \cup {"absent"}, first : Scans \cup {NoScan},
               last : Scans \cup {NoScan}, by : {"nobody", "scan", "person"}]
ChangeRequest == [control : Controls \cup {"none"},
                  read : Statuses \cup {"absent"}, to : Statuses \cup {"absent"}]
ChangeRow == [from : Statuses \cup {"absent"}, to : Statuses \cup {"absent"}]

Typed ==
  /\ result \in [Scans -> ResultRecord]
  /\ finding \in [Controls -> FindingRow]
  /\ person \in [People -> ChangeRequest]
  /\ audit \in [Controls -> ChangeRow]
  /\ witness \in [Controls -> {"none", "pass", "fail"}]

\* Naming the sets of records changes nothing.
LEMMA TypedIsTypeOK == TypeOK <=> Typed
  BY DEF TypeOK, Typed, ResultRecord, FindingRow, ChangeRequest, ChangeRow

\* A result in memory: a decided control's target succeeded, and a scan that
\* failed had no such target.
ResultSound ==
  \A s \in Scans :
    /\ \A c \in Controls : result[s].verdict[c] # "none" =>
         /\ result[s].target[TargetOf[c]] = "succeeded"
         /\ result[s].status # "none"
    /\ result[s].status = "failed" => ~Some(result[s].target, "succeeded")

\* A status change in progress is about a finding there is.
RequestSound ==
  \A p \in People : person[p] # Nobody =>
    /\ person[p].control \in Controls
    /\ finding[person[p].control].status # "absent"
    /\ person[p].to \in Statuses

IInv == Typed /\ ResultSound /\ RequestSound /\ ScanStatusFollowsEvidence
-----------------------------------------------------------------------------
\* What the statements of persist_scan return is a findings row.
LEMMA RowTypes ==
  ASSUME NEW f \in FindingRow, NEW s \in Scans
  PROVE  /\ Seen(f, s) \in FindingRow
         /\ Gone(f) \in FindingRow
         /\ Seen(f, s).status # "absent"
         /\ f.status # "absent" => Gone(f).status # "absent"
  <1>1. CASE f.status = "absent"
    <2>1. Seen(f, s) = [status |-> "open", first |-> s, last |-> s, by |-> "scan"]
      BY <1>1 DEF Seen
    <2>2. Gone(f) = f
      BY <1>1 DEF Gone
    <2> QED BY <1>1, <2>1, <2>2 DEF FindingRow, Statuses
  <1>2. CASE f.status = "resolved"
    <2>1. Seen(f, s) = [f EXCEPT !.last = s, !.status = "open", !.by = "scan"]
      BY <1>2 DEF Seen
    <2>2. Gone(f) = f
      BY <1>2 DEF Gone
    <2> QED BY <1>2, <2>1, <2>2 DEF FindingRow, Statuses
  <1>3. CASE f.status \notin {"absent", "resolved"}
    <2>1. Seen(f, s) = [f EXCEPT !.last = s]
      BY <1>3 DEF Seen
    <2>2. Gone(f) \in {f, [f EXCEPT !.status = "resolved", !.by = "scan"]}
      BY DEF Gone
    <2>3. /\ [f EXCEPT !.last = s] \in FindingRow
          /\ [f EXCEPT !.last = s].status = f.status
          /\ [f EXCEPT !.status = "resolved", !.by = "scan"] \in FindingRow
          /\ [f EXCEPT !.status = "resolved", !.by = "scan"].status = "resolved"
      BY DEF FindingRow, Statuses
    <2> QED BY <1>3, <2>1, <2>2, <2>3
  <1> QED BY <1>1, <1>2, <1>3

\* The status persist_scan leaves a finding with, case by case.
LEMMA RowStatus ==
  ASSUME NEW f \in FindingRow, NEW s \in Scans
  PROVE  /\ Seen(f, s).status \in {"open", f.status}
         /\ f.status \in {"absent", "resolved"} => Seen(f, s).status = "open"
         /\ Seen(f, s).status = f.status \/ f.status \in {"absent", "resolved"}
         /\ Seen(f, s).by = "scan" => Seen(f, s).status = "open"
                                      \/ (f.by = "scan" /\ Seen(f, s).status = f.status)
         /\ Gone(f).status = f.status \/ (f.status = "open" /\ Gone(f).status = "resolved")
         /\ Gone(f).by = "scan" => Gone(f).status # "open"
         /\ Seen(f, s).by = IF f.status \in {"absent", "resolved"} THEN "scan" ELSE f.by
         /\ Gone(f).by = IF f.status = "open" THEN "scan" ELSE f.by
         /\ f.status = "open" => Gone(f).status = "resolved"
  BY DEF Seen, Gone, FindingRow
-----------------------------------------------------------------------------
\* The empty table satisfies the invariant.
LEMMA InitialStore == Init => IInv
  <1> SUFFICES ASSUME Init PROVE IInv
    OBVIOUS
  <1>1. NoResult \in ResultRecord
    BY DEF NoResult, ResultRecord, TargetStatuses, Verdicts
  <1>2. NoFinding \in FindingRow
    BY DEF NoFinding, FindingRow
  <1>3. /\ Nobody \in ChangeRequest
        /\ NoChange \in ChangeRow
    BY DEF Nobody, NoChange, ChangeRequest, ChangeRow
  <1>4. Typed
    BY <1>1, <1>2, <1>3 DEF Init, Typed
  <1>5. ResultSound
    BY ScanStoreAssumption DEF Init, ResultSound, NoResult
  <1>6. RequestSound
    BY DEF Init, RequestSound
  <1>7. ScanStatusFollowsEvidence
    BY DEF Init, ScanStatusFollowsEvidence, NoFinding
  <1> QED BY <1>4, <1>5, <1>6, <1>7 DEF IInv

\* The status of a scan is one of four, and it failed only without success.
LEMMA StatusOfScan ==
  ASSUME NEW target, NEW cancelled \in BOOLEAN
  PROVE  /\ FinalStatus(target, cancelled) \in
              {"completed", "cancelled", "failed", "partially_completed"}
         /\ FinalStatus(target, cancelled) = "failed" => ~Some(target, "succeeded")
  <1>1. CASE cancelled
    BY <1>1 DEF FinalStatus
  <1>2. CASE ~cancelled
    BY <1>2 DEF FinalStatus
  <1> QED BY <1>1, <1>2

\* A result that run_scan returns is sound.
LEMMA CollectKeeps ==
  ASSUME IInv,
         NEW s \in Scans, NEW target \in [Targets -> TargetStatuses],
         NEW verdict \in [Controls -> Verdicts], NEW cancelled \in BOOLEAN,
         Collect(s, target, verdict, cancelled)
  PROVE  IInv'
  <1> DEFINE new == [status |-> FinalStatus(target, cancelled),
                     target |-> target, verdict |-> verdict]
  <1>1. /\ result' = [result EXCEPT ![s] = new]
        /\ UNCHANGED <<finding, person, audit, witness>>
        /\ \A c \in Controls \ Evaluated(target) : verdict[c] = "none"
    BY DEF Collect
  <1>2. new \in ResultRecord
    BY StatusOfScan DEF ResultRecord
  <1>3. result \in [Scans -> ResultRecord]
    BY DEF IInv, Typed
  <1>4. Typed'
    <2>1. result' \in [Scans -> ResultRecord]
      BY <1>1, <1>2, <1>3
    <2> QED BY <1>1, <2>1 DEF IInv, Typed
  <1>5. ResultSound'
    <2> SUFFICES ASSUME NEW r \in Scans
                 PROVE  /\ \A c \in Controls : result'[r].verdict[c] # "none" =>
                             /\ result'[r].target[TargetOf[c]] = "succeeded"
                             /\ result'[r].status # "none"
                        /\ result'[r].status = "failed"
                             => ~Some(result'[r].target, "succeeded")
      BY DEF ResultSound
    <2>1. CASE r = s
      <3>1. result'[r] = new
        BY <1>1, <1>3, <2>1
      <3> QED BY <1>1, <3>1, StatusOfScan DEF Evaluated
    <2>2. CASE r # s
      <3>1. result'[r] = result[r]
        BY <1>1, <1>3, <2>2
      <3> QED BY <3>1 DEF IInv, ResultSound
    <2> QED BY <2>1, <2>2
  <1>6. RequestSound'
    BY <1>1 DEF IInv, RequestSound
  <1>7. ScanStatusFollowsEvidence'
    BY <1>1 DEF IInv, ScanStatusFollowsEvidence
  <1> QED BY <1>4, <1>5, <1>6, <1>7 DEF IInv

\* Forgetting a result leaves the other results sound.
LEMMA ForgetKeeps ==
  ASSUME Typed, ResultSound, NEW s \in Scans,
         result' = [result EXCEPT ![s] = NoResult]
  PROVE  /\ result' \in [Scans -> ResultRecord]
         /\ ResultSound'
  <1>1. result \in [Scans -> ResultRecord]
    BY DEF Typed
  <1>2. NoResult \in ResultRecord
    BY DEF NoResult, ResultRecord, TargetStatuses, Verdicts
  <1>3. ASSUME NEW r \in Scans
        PROVE  /\ \A c \in Controls : result'[r].verdict[c] # "none" =>
                    /\ result'[r].target[TargetOf[c]] = "succeeded"
                    /\ result'[r].status # "none"
               /\ result'[r].status = "failed"
                    => ~Some(result'[r].target, "succeeded")
    <2>1. CASE r = s
      <3>1. result'[r] = NoResult
        BY <1>1, <2>1
      <3> QED BY <3>1 DEF NoResult
    <2>2. CASE r # s
      <3>1. result'[r] = result[r]
        BY <1>1, <2>2
      <3> QED BY <3>1 DEF ResultSound
    <2> QED BY <2>1, <2>2
  <1> QED BY <1>1, <1>2, <1>3 DEF ResultSound

\* What persist_scan does to the finding of a control.
Merged(r, s, c) ==
  CASE c \in Failures(r) -> Seen(finding[c], s)
    [] c \notin Failures(r) /\ Resolves(r, c) -> Gone(finding[c])
    [] OTHER -> finding[c]

\* persist_scan leaves each finding as it was, sees it after a failed
\* evaluation that counts, or resolves it after a passed one.
LEMMA MergedRow ==
  ASSUME IInv, NEW s \in Scans, Persist(s), NEW c \in Controls
  PROVE  /\ finding[c] \in FindingRow
         /\ finding'[c] \in FindingRow
         /\ \/ /\ finding'[c] = Seen(finding[c], s)
               /\ witness'[c] = "fail"
            \/ /\ finding'[c] = Gone(finding[c])
               /\ witness'[c] = "pass"
            \/ /\ finding'[c] = finding[c]
               /\ witness'[c] = witness[c]
  <1> DEFINE r == result[s]
  <1>1. /\ finding'[c] = Merged(r, s, c)
        /\ witness'[c] = IF Succeeded(r) /\ r.verdict[c] \in {"pass", "fail"}
                         THEN r.verdict[c] ELSE witness[c]
    BY DEF Persist, Merged
  <1>2. /\ finding[c] \in FindingRow
        /\ r \in ResultRecord
        /\ r # NoResult
    BY DEF IInv, Typed, Persist
  <1>3. /\ Seen(finding[c], s) \in FindingRow
        /\ Gone(finding[c]) \in FindingRow
    BY <1>2, RowTypes
  <1>4. /\ r.verdict[c] # "none" => r.target[TargetOf[c]] = "succeeded"
        /\ r.status = "failed" => ~Some(r.target, "succeeded")
    BY DEF IInv, ResultSound
  <1>5. TargetOf[c] \in Targets /\ DOMAIN r.target = Targets
    BY <1>2, ScanStoreAssumption DEF ResultRecord
  <1>6. r.verdict[c] # "none" => r.status # "failed"
    BY <1>4, <1>5 DEF Some
  <1>7. r.verdict[c] # "none" => Succeeded(r) \/ r.status \in {"none", "cancelled"}
    BY <1>2, <1>6 DEF ResultRecord, Succeeded
  <1>8. r.verdict[c] # "none" => Succeeded(r) \/ r.status = "cancelled"
    BY <1>7 DEF IInv, ResultSound
  <1>9. CASE c \in Failures(r)
    <2>1. r.verdict[c] = "fail" /\ Succeeded(r)
      BY <1>8, <1>9 DEF Failures
    <2>2. finding'[c] = Seen(finding[c], s)
      BY <1>1, <1>9 DEF Merged
    <2> QED BY <1>1, <1>2, <1>3, <2>1, <2>2
  <1>10. CASE c \notin Failures(r) /\ Resolves(r, c)
    <2>1. r.verdict[c] = "pass" /\ Succeeded(r)
      BY <1>10 DEF Resolves
    <2>2. finding'[c] = Gone(finding[c])
      BY <1>1, <1>10 DEF Merged
    <2> QED BY <1>1, <1>2, <1>3, <2>1, <2>2
  <1>11. CASE c \notin Failures(r) /\ ~Resolves(r, c)
    <2>1. finding'[c] = finding[c]
      BY <1>1, <1>11 DEF Merged
    <2>2. ~(Succeeded(r) /\ r.verdict[c] \in {"pass", "fail"})
      BY <1>4, <1>11 DEF Failures, Resolves, Succeeded
    <2> QED BY <1>1, <1>2, <2>1, <2>2
  <1> QED BY <1>9, <1>10, <1>11

\* A committed result leaves every finding as its last counting scan saw it.
LEMMA PersistKeeps ==
  ASSUME IInv, NEW s \in Scans, Persist(s)
  PROVE  IInv'
  <1>1. /\ result' = [result EXCEPT ![s] = NoResult]
        /\ UNCHANGED <<person, audit>>
    BY DEF Persist
  <1>2. result' \in [Scans -> ResultRecord] /\ ResultSound'
    BY <1>1, ForgetKeeps DEF IInv
  <1>3. finding' \in [Controls -> FindingRow]
    <2>1. finding' = [c \in Controls |-> Merged(result[s], s, c)]
      BY DEF Persist, Merged
    <2> QED BY <2>1, MergedRow
  <1>4. witness' \in [Controls -> {"none", "pass", "fail"}]
    BY DEF Persist, IInv, Typed
  <1>5. Typed'
    BY <1>1, <1>2, <1>3, <1>4 DEF IInv, Typed
  <1>6. ASSUME NEW c \in Controls, finding[c].status # "absent"
        PROVE  finding'[c].status # "absent"
    BY <1>6, MergedRow, RowTypes
  <1>7. RequestSound'
    BY <1>1, <1>6 DEF IInv, RequestSound
  <1>8. ASSUME NEW c \in Controls, finding'[c].by = "scan"
        PROVE  finding'[c].status =
                 IF witness'[c] = "fail" THEN "open" ELSE "resolved"
    <2>1. finding[c].by = "scan" => finding[c].status =
            IF witness[c] = "fail" THEN "open" ELSE "resolved"
      BY DEF IInv, ScanStatusFollowsEvidence
    <2>2. finding[c] \in FindingRow
      BY MergedRow
    <2>3. CASE finding'[c] = Seen(finding[c], s) /\ witness'[c] = "fail"
      BY <1>8, <2>1, <2>2, <2>3, RowStatus
    <2>4. CASE finding'[c] = Gone(finding[c]) /\ witness'[c] = "pass"
      <3>1. CASE finding[c].status = "open"
        <4>1. finding'[c].status = "resolved"
          BY <2>2, <2>4, <3>1 DEF Gone, FindingRow
        <4> QED BY <2>4, <4>1
      <3>2. CASE finding[c].status # "open"
        <4>1. finding'[c] = finding[c]
          BY <2>4, <3>2 DEF Gone
        <4> QED BY <1>8, <2>1, <2>4, <3>2, <4>1
      <3> QED BY <3>1, <3>2
    <2>5. CASE finding'[c] = finding[c] /\ witness'[c] = witness[c]
      BY <1>8, <2>1, <2>5
    <2> QED BY <2>3, <2>4, <2>5, MergedRow
  <1>9. ScanStatusFollowsEvidence'
    BY <1>8 DEF ScanStatusFollowsEvidence
  <1> QED BY <1>2, <1>5, <1>7, <1>9 DEF IInv

\* Losing a result touches no finding.
LEMMA LoseKeeps ==
  ASSUME IInv, NEW s \in Scans, Lose(s)
  PROVE  IInv'
  <1>1. /\ result' = [result EXCEPT ![s] = NoResult]
        /\ UNCHANGED <<finding, person, audit, witness>>
    BY DEF Lose
  <1>2. result' \in [Scans -> ResultRecord] /\ ResultSound'
    BY <1>1, ForgetKeeps DEF IInv
  <1>3. Typed'
    BY <1>1, <1>2 DEF IInv, Typed
  <1>4. RequestSound' /\ ScanStatusFollowsEvidence'
    BY <1>1 DEF IInv, RequestSound, ScanStatusFollowsEvidence
  <1> QED BY <1>2, <1>3, <1>4 DEF IInv

\* A person who has read a finding asks for a status there is.
LEMMA ReadKeeps ==
  ASSUME IInv, NEW p \in People, NEW c \in Controls, NEW to \in Statuses,
         ReadFinding(p, c, to)
  PROVE  IInv'
  <1> DEFINE asked == [control |-> c, to |-> to, read |-> finding[c].status]
  <1>1. /\ person' = [person EXCEPT ![p] = asked]
        /\ finding[c].status # "absent"
        /\ UNCHANGED <<result, finding, audit, witness>>
    BY DEF ReadFinding
  <1>2. asked \in ChangeRequest
    BY DEF IInv, Typed, FindingRow, ChangeRequest
  <1>3. person \in [People -> ChangeRequest]
    BY DEF IInv, Typed
  <1>4. person' \in [People -> ChangeRequest]
    BY <1>1, <1>2, <1>3
  <1>5. Typed'
    BY <1>1, <1>4 DEF IInv, Typed
  <1>6. RequestSound'
    <2> SUFFICES ASSUME NEW q \in People, person'[q] # Nobody
                 PROVE  /\ person'[q].control \in Controls
                        /\ finding[person'[q].control].status # "absent"
                        /\ person'[q].to \in Statuses
      BY <1>1 DEF RequestSound
    <2>1. CASE q = p
      BY <1>1, <1>3, <2>1
    <2>2. CASE q # p
      <3>1. person'[q] = person[q]
        BY <1>1, <1>3, <2>2
      <3> QED BY <3>1 DEF IInv, RequestSound
    <2> QED BY <2>1, <2>2
  <1>7. ResultSound' /\ ScanStatusFollowsEvidence'
    BY <1>1 DEF IInv, ResultSound, ScanStatusFollowsEvidence
  <1> QED BY <1>5, <1>6, <1>7 DEF IInv

\* What a person's write makes of a row.
LEMMA DecidedRow ==
  ASSUME NEW r \in FindingRow, NEW to \in Statuses
  PROVE  /\ [r EXCEPT !.status = to, !.by = "person"] \in FindingRow
         /\ [r EXCEPT !.status = to, !.by = "person"].status = to
         /\ [r EXCEPT !.status = to, !.by = "person"].by = "person"
         /\ [r EXCEPT !.status = to, !.by = "person"].first = r.first
  <1>1. ASSUME NEW st \in Statuses \cup {"absent"}
        PROVE  /\ [r EXCEPT !.status = st, !.by = "person"] \in FindingRow
               /\ [r EXCEPT !.status = st, !.by = "person"].status = st
               /\ [r EXCEPT !.status = st, !.by = "person"].by = "person"
               /\ [r EXCEPT !.status = st, !.by = "person"].first = r.first
    BY DEF FindingRow
  <1>2. to \in Statuses \cup {"absent"}
    OBVIOUS
  <1> QED BY <1>1, <1>2

\* A person's write is no scan's status.
LEMMA WriteKeeps ==
  ASSUME IInv, NEW p \in People, WriteFinding(p)
  PROVE  IInv'
  <1> DEFINE c == person[p].control
             to == person[p].to
             row == [finding[c] EXCEPT !.status = to, !.by = "person"]
  <1>1. /\ person[p] # Nobody
        /\ audit' = [audit EXCEPT ![c] = [from |-> person[p].read, to |-> to]]
        /\ person' = [person EXCEPT ![p] = Nobody]
        /\ UNCHANGED <<result, witness>>
    BY DEF WriteFinding, Recorded
  <1>2. c \in Controls /\ to \in Statuses /\ finding[c].status # "absent"
    BY <1>1 DEF IInv, RequestSound
  <1>3. /\ finding \in [Controls -> FindingRow]
        /\ person \in [People -> ChangeRequest]
        /\ audit \in [Controls -> ChangeRow]
    BY DEF IInv, Typed
  <1>4. /\ row \in FindingRow
        /\ row.status = to
        /\ row.by = "person"
    <2>1. finding[c] \in FindingRow
      BY <1>2, <1>3
    <2> QED BY <1>2, <2>1, DecidedRow
  <1>5. finding' = finding \/ finding' = [finding EXCEPT ![c] = row]
    BY <1>3, <1>2 DEF WriteFinding
  <1>6. finding' \in [Controls -> FindingRow]
    BY <1>2, <1>3, <1>4, <1>5
  <1>7. /\ Nobody \in ChangeRequest
        /\ [from |-> person[p].read, to |-> to] \in ChangeRow
    BY <1>2, <1>3 DEF Nobody, ChangeRequest, ChangeRow
  <1>8. /\ person' \in [People -> ChangeRequest]
        /\ audit' \in [Controls -> ChangeRow]
    BY <1>1, <1>3, <1>7
  <1>9. Typed'
    BY <1>1, <1>6, <1>8 DEF IInv, Typed
  <1>10. ASSUME NEW d \in Controls
         PROVE  \/ finding'[d] = finding[d]
                \/ /\ finding'[d].by = "person"
                   /\ finding'[d].status = to
    <2>1. CASE d = c
      <3>1. finding'[c] = finding[c] \/ finding'[c] = row
        BY <1>2, <1>3, <1>5
      <3> QED BY <1>4, <2>1, <3>1
    <2>2. CASE d # c
      BY <1>2, <1>3, <1>5, <2>2
    <2> QED BY <2>1, <2>2
  <1>11. "absent" \notin Statuses
    BY ScanStoreAssumption DEF Statuses
  <1>12. RequestSound'
    <2> SUFFICES ASSUME NEW q \in People, person'[q] # Nobody
                 PROVE  /\ person'[q].control \in Controls
                        /\ finding'[person'[q].control].status # "absent"
                        /\ person'[q].to \in Statuses
      BY DEF RequestSound
    <2>1. q # p /\ person'[q] = person[q]
      BY <1>1, <1>3
    <2> QED BY <1>2, <1>10, <1>11, <2>1 DEF IInv, RequestSound
  <1>13. ResultSound'
    BY <1>1 DEF IInv, ResultSound
  <1>14. ScanStatusFollowsEvidence'
    BY <1>1, <1>10 DEF IInv, ScanStatusFollowsEvidence
  <1> QED BY <1>9, <1>12, <1>13, <1>14 DEF IInv
-----------------------------------------------------------------------------
\* Every step keeps the invariant.
LEMMA InductiveStore == Spec => []IInv
  <1>1. Init => IInv
    BY InitialStore
  <1>2. IInv /\ [Next]_vars => IInv'
    <2> SUFFICES ASSUME IInv, [Next]_vars PROVE IInv'
      OBVIOUS
    <2>1. ASSUME NEW s \in Scans, NEW target \in [Targets -> TargetStatuses],
                 NEW verdict \in [Controls -> Verdicts], NEW cancelled \in BOOLEAN,
                 Collect(s, target, verdict, cancelled)
          PROVE  IInv'
      BY <2>1, CollectKeeps
    <2>2. ASSUME NEW s \in Scans, Lose(s) PROVE IInv'
      BY <2>2, LoseKeeps
    <2>3. ASSUME NEW s \in Scans, Persist(s) PROVE IInv'
      BY <2>3, PersistKeeps
    <2>4. ASSUME NEW p \in People, NEW c \in Controls, NEW to \in Statuses,
                 ReadFinding(p, c, to)
          PROVE  IInv'
      BY <2>4, ReadKeeps
    <2>5. ASSUME NEW p \in People, WriteFinding(p) PROVE IInv'
      BY <2>5, WriteKeeps
    <2>6. CASE UNCHANGED vars
      BY <2>6 DEF vars, IInv, Typed, ResultSound, RequestSound,
                  ScanStatusFollowsEvidence
    <2> QED BY <2>1, <2>2, <2>3, <2>4, <2>5, <2>6 DEF Next
  <1> QED BY <1>1, <1>2, PTL DEF Spec

\* Whatever the sizes, every variable keeps its type.
THEOREM StoreTypes == Spec => []TypeOK
  <1>1. IInv => TypeOK
    BY TypedIsTypeOK DEF IInv
  <1> QED BY <1>1, InductiveStore, PTL

\* A status that persist_scan set is what the last scan that counted saw, for
\* any number of scans in memory at a time and any order of their commits.
THEOREM EvidenceFollowed == Spec => []ScanStatusFollowsEvidence
  <1>1. IInv => ScanStatusFollowsEvidence
    BY DEF IInv
  <1> QED BY <1>1, InductiveStore, PTL
-----------------------------------------------------------------------------
\* persist_scan does to a finding what Findings allows a scan.
LEMMA PersistIsScan ==
  ASSUME IInv, NEW s \in Scans, Persist(s)
  PROVE  F!Scan
  <1>1. ASSUME NEW c \in Controls
        PROVE  /\ finding'[c].status \in {"absent", "open", "resolved"} \cup Decisions
               /\ finding'[c].by \in {"nobody", "scan", "person"}
               /\ \/ finding'[c].status = finding[c].status
                     /\ finding'[c].by = finding[c].by
                  \/ finding'[c].status \in F!Moves(finding[c].status)
                     /\ finding'[c].by = "scan"
    <2>1. finding[c] \in FindingRow /\ finding'[c] \in FindingRow
      BY MergedRow
    <2>2. /\ finding'[c].status \in {"absent", "open", "resolved"} \cup Decisions
          /\ finding'[c].by \in {"nobody", "scan", "person"}
      BY <2>1 DEF FindingRow, Statuses
    <2>3. \/ finding'[c].status = finding[c].status
             /\ finding'[c].by = finding[c].by
          \/ /\ finding[c].status \in {"absent", "resolved"}
             /\ finding'[c].status = "open" /\ finding'[c].by = "scan"
          \/ /\ finding[c].status = "open"
             /\ finding'[c].status = "resolved" /\ finding'[c].by = "scan"
      BY <2>1, MergedRow, RowStatus
    <2> QED BY <2>2, <2>3 DEF F!Moves
  <1> QED BY <1>1 DEF F!Scan

\* A write of a person is a decision, or nothing if the status read was the
\* status asked for.
LEMMA WriteIsDecide ==
  ASSUME IInv, NEW p \in People, WriteFinding(p)
  PROVE  \/ \E c \in Controls, to \in {"open", "resolved"} \cup Decisions :
              F!Decide(c, to)
         \/ UNCHANGED finding
  <1> DEFINE c == person[p].control
             to == person[p].to
             row == [finding[c] EXCEPT !.status = to, !.by = "person"]
  <1>1. /\ c \in Controls
        /\ to \in {"open", "resolved"} \cup Decisions
        /\ finding[c].status # "absent"
    BY DEF IInv, RequestSound, WriteFinding, Statuses
  <1>2. finding \in [Controls -> FindingRow]
    BY DEF IInv, Typed
  <1>3. finding' = finding \/ finding' = [finding EXCEPT ![c] = row]
    BY <1>1, <1>2 DEF WriteFinding
  <1>4. row.status = to /\ row.by = "person"
    <2>1. finding[c] \in FindingRow /\ to \in Statuses
      BY <1>1, <1>2 DEF Statuses
    <2> QED BY <2>1, DecidedRow
  <1>5. ASSUME finding' = [finding EXCEPT ![c] = row]
        PROVE  F!Decide(c, to)
    <2>1. [d \in Controls |-> finding'[d].status]
            = [[d \in Controls |-> finding[d].status] EXCEPT ![c] = to]
      BY <1>1, <1>2, <1>4, <1>5
    <2>2. [d \in Controls |-> finding'[d].by]
            = [[d \in Controls |-> finding[d].by] EXCEPT ![c] = "person"]
      BY <1>1, <1>2, <1>4, <1>5
    <2> QED BY <1>1, <2>1, <2>2 DEF F!Decide
  <1> QED BY <1>1, <1>3, <1>5 DEF F!Decide

\* The findings table keeps the promises of Findings: only scans open and
\* reopen a finding, and a decision is changed by nobody but a person.
THEOREM StoreImplementsFindings == Spec => Lifecycle
  <1>1. Init => F!Init
    BY DEF Init, F!Init, NoFinding
  <1>2. IInv /\ [Next]_vars => [F!Next]_F!vars
    <2> SUFFICES ASSUME IInv, [Next]_vars
                 PROVE  F!Next \/ UNCHANGED finding
      BY DEF F!vars
    <2>1. ASSUME NEW s \in Scans, Persist(s) PROVE F!Next
      BY <2>1, PersistIsScan DEF F!Next
    <2>2. ASSUME NEW p \in People, WriteFinding(p)
          PROVE  F!Next \/ UNCHANGED finding
      BY <2>2, WriteIsDecide DEF F!Next
    <2> QED BY <2>1, <2>2 DEF Next, vars, Collect, Lose, ReadFinding
  <1> QED BY <1>1, <1>2, InductiveStore, PTL DEF Spec, Lifecycle, F!Spec
-----------------------------------------------------------------------------
(***************************************************************************)
(* The steps: what no scan and no person may do to a finding and its trail. *)
(***************************************************************************)
\* The rows that a step does not write are the rows of Collect, Lose and
\* ReadFinding; Persist and WriteFinding are the only steps that write.
LEMMA Writers ==
  ASSUME [Next]_vars
  PROVE  \/ UNCHANGED <<finding, audit>>
         \/ \E s \in Scans : Persist(s)
         \/ \E p \in People : WriteFinding(p)
  BY DEF Next, vars, Collect, Lose, ReadFinding

\* A written row is the old one with another status.
LEMMA WrittenRow ==
  ASSUME IInv, NEW p \in People, WriteFinding(p), NEW c \in Controls
  PROVE  /\ finding'[c].first = finding[c].first
         /\ finding'[c].status # finding[c].status
              => /\ c = person[p].control
                 /\ finding'[c].status = person[p].to
         /\ finding[c].status # "absent" => finding'[c].status # "absent"
  <1> DEFINE d == person[p].control
             to == person[p].to
             row == [finding[d] EXCEPT !.status = to, !.by = "person"]
  <1>1. d \in Controls /\ to \in Statuses
    BY DEF IInv, RequestSound, WriteFinding
  <1>2. finding \in [Controls -> FindingRow]
    BY DEF IInv, Typed
  <1>3. finding' = finding \/ finding' = [finding EXCEPT ![d] = row]
    BY <1>1, <1>2 DEF WriteFinding
  <1>4. row.status = to /\ row.first = finding[d].first
    <2>1. finding[d] \in FindingRow
      BY <1>1, <1>2
    <2> QED BY <1>1, <2>1, DecidedRow
  <1>5. to # "absent"
    BY <1>1, ScanStoreAssumption DEF Statuses
  <1>6. CASE finding' = finding
    BY <1>6
  <1>7. CASE finding' = [finding EXCEPT ![d] = row]
    <2>1. CASE c = d
      <3>1. finding'[c] = row
        BY <1>1, <1>2, <1>7, <2>1
      <3> QED BY <1>4, <1>5, <2>1, <3>1
    <2>2. CASE c # d
      <3>1. finding'[c] = finding[c]
        BY <1>2, <1>7, <2>2
      <3> QED BY <3>1
    <2> QED BY <2>1, <2>2
  <1> QED BY <1>3, <1>6, <1>7

\* What persist_scan keeps of a finding there is: its first scan.
LEMMA MergedFirst ==
  ASSUME NEW f \in FindingRow, NEW s \in Scans, f.status # "absent"
  PROVE  Seen(f, s).first = f.first /\ Gone(f).first = f.first
  <1>1. Seen(f, s).first = f.first
    <2>1. CASE f.status = "resolved"
      <3>1. Seen(f, s) = [f EXCEPT !.last = s, !.status = "open", !.by = "scan"]
        BY <2>1 DEF Seen
      <3> QED BY <3>1 DEF FindingRow
    <2>2. CASE f.status # "resolved"
      <3>1. Seen(f, s) = [f EXCEPT !.last = s]
        BY <2>2 DEF Seen
      <3> QED BY <3>1 DEF FindingRow
    <2> QED BY <2>1, <2>2
  <1>2. Gone(f).first = f.first
    BY DEF Gone, FindingRow
  <1> QED BY <1>1, <1>2
-----------------------------------------------------------------------------
\* However often a finding is resolved, reopened and decided about, and however
\* many attempts persist its scans, it is never deleted and keeps the scan
\* that saw it first.
THEOREM FirstSeenKept == Spec => FirstSeenFixed
  <1>1. IInv /\ [Next]_vars =>
          [ \A c \in Controls : finding[c].status # "absent" =>
              finding'[c].first = finding[c].first
              /\ finding'[c].status # "absent" ]_vars
    <2> SUFFICES ASSUME IInv, [Next]_vars, NEW c \in Controls,
                        finding[c].status # "absent"
                 PROVE  finding'[c].first = finding[c].first
                        /\ finding'[c].status # "absent"
      OBVIOUS
    <2>1. CASE UNCHANGED <<finding, audit>>
      BY <2>1
    <2>2. ASSUME NEW s \in Scans, Persist(s)
          PROVE  finding'[c].first = finding[c].first
                 /\ finding'[c].status # "absent"
      <3>1. finding[c] \in FindingRow
        BY <2>2, MergedRow
      <3> QED BY <2>2, <3>1, MergedRow, MergedFirst, RowTypes
    <2>3. ASSUME NEW p \in People, WriteFinding(p)
          PROVE  finding'[c].first = finding[c].first
                 /\ finding'[c].status # "absent"
      BY <2>3, WrittenRow
    <2> QED BY <2>1, <2>2, <2>3, Writers
  <1> QED BY <1>1, InductiveStore, PTL DEF Spec, FirstSeenFixed

\* No decision is made or undone without the row of the trail that names it:
\* a scan neither makes nor undoes one, and a person's change is recorded.
THEOREM DecisionsRecorded == Spec => DecisionsAudited
  <1>1. IInv /\ [Next]_vars =>
          [ \A c \in Controls :
              /\ finding'[c].status # finding[c].status
              /\ {finding[c].status, finding'[c].status} \cap Decisions # {}
              => audit'[c].to = finding'[c].status ]_vars
    <2> SUFFICES ASSUME IInv, [Next]_vars, NEW c \in Controls,
                        finding'[c].status # finding[c].status,
                        {finding[c].status, finding'[c].status} \cap Decisions # {}
                 PROVE  audit'[c].to = finding'[c].status
      OBVIOUS
    <2>1. ASSUME NEW s \in Scans, Persist(s) PROVE FALSE
      <3>1. finding[c] \in FindingRow /\ finding'[c] \in FindingRow
        BY <2>1, MergedRow
      <3>2. /\ finding[c].status \in {"absent", "open", "resolved"}
            /\ finding'[c].status \in {"absent", "open", "resolved"}
        BY <2>1, <3>1, MergedRow, RowStatus
      <3> QED BY <3>2, ScanStoreAssumption
    <2>2. ASSUME NEW p \in People, WriteFinding(p)
          PROVE  audit'[c].to = finding'[c].status
      <3>1. c = person[p].control /\ finding'[c].status = person[p].to
        BY <2>2, WrittenRow
      <3>2. audit \in [Controls -> ChangeRow]
        BY DEF IInv, Typed
      <3>3. audit'[c] = [from |-> person[p].read, to |-> person[p].to]
        BY <2>2, <3>1, <3>2 DEF WriteFinding, Recorded
      <3> QED BY <3>1, <3>3
    <2> QED BY <2>1, <2>2, Writers
  <1> QED BY <1>1, InductiveStore, PTL DEF Spec, DecisionsAudited

\* persist_scan does what the reference function reconcile_findings says, in
\* every state the store can reach.
THEOREM PersistAgrees == Spec => PersistReconciles
  <1>1. IInv /\ [Next]_vars =>
          [ \A s \in Scans : Persist(s) =>
              \A c \in Controls :
                finding'[c].status = Reconciled(c, result[s]) ]_vars
    <2> SUFFICES ASSUME IInv, NEW s \in Scans, Persist(s), NEW c \in Controls
                 PROVE  finding'[c].status = Reconciled(c, result[s])
      OBVIOUS
    <2> DEFINE r == result[s]
               f == finding[c]
    <2>1. /\ f \in FindingRow
          /\ f.status \in {"absent", "open", "resolved"} \cup Decisions
      BY MergedRow DEF FindingRow, Statuses
    <2>2. finding'[c] = Merged(r, s, c)
      BY DEF Persist, Merged
    <2>3. r.verdict[c] # "none" => r.target[TargetOf[c]] = "succeeded"
      BY DEF IInv, ResultSound
    <2>4. CASE c \in Failures(r)
      <3>1. finding'[c] = Seen(f, s)
        BY <2>2, <2>4 DEF Merged
      <3>2. Reconciled(c, r) =
              IF f.status \in {"absent", "resolved"} THEN "open" ELSE f.status
        BY <2>4 DEF Reconciled
      <3> QED BY <2>1, <3>1, <3>2, RowStatus
    <2>5. CASE c \notin Failures(r) /\ Resolves(r, c)
      <3>1. finding'[c] = Gone(f)
        BY <2>2, <2>5 DEF Merged
      <3>2. Succeeded(r) /\ r.verdict[c] = "pass"
        BY <2>5 DEF Resolves
      <3>3. Reconciled(c, r) =
              IF f.status # "absent" /\ f.status \notin Decisions
              THEN "resolved" ELSE f.status
        BY <2>5, <3>2 DEF Reconciled
      <3>4. Gone(f).status = IF f.status = "open" THEN "resolved" ELSE f.status
        BY <2>1, RowStatus DEF Gone
      <3> QED BY <2>1, <3>1, <3>3, <3>4, ScanStoreAssumption
    <2>6. CASE c \notin Failures(r) /\ ~Resolves(r, c)
      <3>1. finding'[c] = f
        BY <2>2, <2>6 DEF Merged
      <3>2. ~(Succeeded(r) /\ r.verdict[c] = "pass")
        BY <2>3, <2>6 DEF Resolves
      <3>3. Reconciled(c, r) = f.status
        BY <2>6, <3>2 DEF Reconciled
      <3> QED BY <3>1, <3>3
    <2> QED BY <2>4, <2>5, <2>6
  <1> QED BY <1>1, InductiveStore, PTL DEF Spec, PersistReconciles

\* A scan that was cancelled, or none of whose targets succeeded, leaves the
\* whole findings table as it was.
THEOREM UnsuccessfulIsSilent == Spec => UnsuccessfulScanIsSilent
  <1>1. IInv /\ [Next]_vars =>
          [ \A s \in Scans :
              Persist(s) /\ (\/ result[s].status = "cancelled"
                             \/ ~Some(result[s].target, "succeeded"))
                => finding' = finding ]_vars
    <2> SUFFICES ASSUME IInv, NEW s \in Scans, Persist(s),
                        \/ result[s].status = "cancelled"
                        \/ ~Some(result[s].target, "succeeded")
                 PROVE  finding' = finding
      OBVIOUS
    <2> DEFINE r == result[s]
    <2>1. finding' = [c \in Controls |-> Merged(r, s, c)]
      BY DEF Persist, Merged
    <2>2. ASSUME NEW c \in Controls
          PROVE  c \notin Failures(r) /\ ~Resolves(r, c)
      <3>1. CASE r.status = "cancelled"
        BY <3>1 DEF Failures, Resolves, Succeeded
      <3>2. CASE ~Some(r.target, "succeeded")
        <4>1. TargetOf[c] \in DOMAIN r.target
          BY ScanStoreAssumption DEF IInv, Typed, ResultRecord
        <4>2. r.verdict[c] = "none"
          BY <3>2, <4>1 DEF Some, IInv, ResultSound
        <4> QED BY <4>2 DEF Failures, Resolves
      <3> QED BY <3>1, <3>2
    <2>3. finding' = [c \in Controls |-> finding[c]]
      BY <2>1, <2>2 DEF Merged
    <2> QED BY <2>3 DEF IInv, Typed
  <1> QED BY <1>1, InductiveStore, PTL DEF Spec, UnsuccessfulScanIsSilent
=============================================================================
