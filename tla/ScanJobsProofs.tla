--------------------------- MODULE ScanJobsProofs ---------------------------
(***************************************************************************)
(* Theorems about ScanJobs, for every number of workers, requests, scans    *)
(* and keys, every lease longer than a heartbeat period and any number of   *)
(* crashes and heartbeat deaths.                                           *)
(***************************************************************************)
EXTENDS ScanJobs, TLAPS

(***************************************************************************)
(* Records the actions build have the types TypeOK gives them.             *)
(***************************************************************************)
ScanRow == [status : ScanStatuses, key : Keys \cup {NoKey}, cancel : BOOLEAN,
            asked : Keys \cup {NoKey}, saved : BOOLEAN]
JobRow == [status : JobStatuses, attempts : Nat, due : BOOLEAN,
           left : 0..LeaseTime, created : Nat]
WorkerRecord == [pc : {"off", "idle"} \cup Beating \cup Finishing,
                 job : Jobs \cup {NoJob}, beat : {"off", "on", "lost"},
                 since : 0..BeatTime, cancel : BOOLEAN,
                 seen : {"none"} \cup ScanStatuses \cup JobStatuses,
                 tries : Nat, err : BOOLEAN]
RequestRecord == [op : {"none", "start", "cancel"}, scan : Scans \cup {NoJob},
             key : Keys \cup {NoKey}, seen : {"none"} \cup ScanStatuses]

\* The rows and records the actions start from are of their types.
LEMMA InitialRecords ==
  /\ NoScan \in ScanRow
  /\ \A k \in Keys \cup {NoKey} : NewScan(k) \in ScanRow
  /\ NoJobRow \in JobRow
  /\ \A n \in Nat : NewJob(n) \in JobRow
  /\ Idle \in WorkerRecord
  /\ Off \in WorkerRecord
  /\ NoRequest \in RequestRecord
  <1>1. NoScan \in ScanRow /\ \A k \in Keys \cup {NoKey} : NewScan(k) \in ScanRow
    BY DEF NoScan, NewScan, ScanRow, ScanStatuses
  <1>2. NoJobRow \in JobRow /\ \A n \in Nat : NewJob(n) \in JobRow
    BY ScanJobsAssumption DEF NoJobRow, NewJob, JobRow, JobStatuses
  <1>3. Idle \in WorkerRecord
    BY ScanJobsAssumption DEF Idle, WorkerRecord
  <1>4. Off \in WorkerRecord
    BY <1>3 DEF Off, WorkerRecord
  <1>5. NoRequest \in RequestRecord
    BY DEF NoRequest, RequestRecord
  <1> QED BY <1>1, <1>2, <1>3, <1>4, <1>5

\* TypeOK, with the sets of records named.
Typed ==
  /\ connection \in {"enabled", "disabled", "purged"}
  /\ verified \in BOOLEAN
  /\ scan \in [Scans -> ScanRow]
  /\ job \in [Jobs -> JobRow]
  /\ enqueued \in Nat
  /\ worker \in [Workers -> WorkerRecord]
  /\ client \in [Clients -> RequestRecord]
  /\ crashes \in Nat /\ faults \in Nat

\* Naming the sets of records changes nothing.
LEMMA TypeOKRecords == TypeOK <=> Typed
  BY DEF TypeOK, Typed, ScanRow, JobRow, WorkerRecord, RequestRecord

\* What the reaper returns is a jobs table again.
LEMMA ReapedType == TypeOK => Reaped \in [Jobs -> JobRow]
  <1> SUFFICES ASSUME TypeOK PROVE Reaped \in [Jobs -> JobRow]
    OBVIOUS
  <1>1. job \in [Jobs -> JobRow]
    BY TypeOKRecords DEF Typed
  <1>2. ASSUME NEW j \in Jobs
        PROVE  [job[j] EXCEPT !.status = "queued"] \in JobRow
    BY <1>1 DEF JobRow, JobStatuses
  <1> QED
    BY <1>1, <1>2 DEF Reaped

\* A worker that leaves _process is a worker still.
LEMMA LeaveType ==
  ASSUME TypeOK, NEW w \in Workers, NEW failed \in BOOLEAN, Leave(w, failed)
  PROVE  worker' \in [Workers -> WorkerRecord]
  <1>1. worker \in [Workers -> WorkerRecord]
    BY TypeOKRecords DEF Typed
  <1>2. [worker[w] EXCEPT !.pc = "stop", !.err = failed, !.cancel = FALSE,
                          !.seen = "none"] \in WorkerRecord
    BY <1>1 DEF WorkerRecord, Beating
  <1> QED BY <1>1, <1>2 DEF Leave

\* A worker changes no memory but its own.
StepOf(w) == Work(w) \/ WatchCancellation(w) \/ Beat(w) \/ Fault(w) \/ Restart(w)

\* What StepOf(w) leaves alone is every other worker.
LEMMA OthersUntouched ==
  ASSUME TypeOK, NEW v \in Workers, NEW w \in Workers, w # v, StepOf(w)
  PROVE  worker'[v] = worker[v]
  <1>1. worker \in [Workers -> WorkerRecord]
    BY TypeOKRecords DEF Typed
  <1> QED
    BY <1>1 DEF StepOf, Work, Claim, ClaimNothing, LoadScan, MarkScan, RunScan,
       PersistScan, LoadTest, VerifyTest, StopHeartbeat, FinishRead,
       FinishWrite, WatchCancellation, Beat, Fault, Raise, HeartbeatDies,
       Crash, Restart, Leave

\* TypeOK alone would let a worker persist the status "none", finish NoJob and
\* scan for a connection test.
Scanning == {"mark", "scan", "persist"}

WorkerSound ==
  \A w \in Workers :
    /\ Active(w) => worker[w].job \in Jobs
    /\ worker[w].pc \in Scanning => worker[w].job \in Scans
    /\ worker[w].pc = "verify" => worker[w].job \in Tests
    /\ worker[w].pc = "persist" => worker[w].seen \in Terminal

\* Every step keeps what a worker holds at each point of its program.
LEMMA WorkerStaysSound ==
  TypeOK /\ WorkerSound /\ [Next]_vars => WorkerSound'
  <1> SUFFICES ASSUME TypeOK, WorkerSound, [Next]_vars, NEW v \in Workers
               PROVE  /\ Active(v)' => worker'[v].job \in Jobs
                      /\ worker'[v].pc \in Scanning => worker'[v].job \in Scans
                      /\ worker'[v].pc = "verify" => worker'[v].job \in Tests
                      /\ worker'[v].pc = "persist"
                           => worker'[v].seen \in Terminal
    BY DEF WorkerSound
  <1> DEFINE Sound == /\ Active(v)' => worker'[v].job \in Jobs
                      /\ worker'[v].pc \in Scanning => worker'[v].job \in Scans
                      /\ worker'[v].pc = "verify" => worker'[v].job \in Tests
                      /\ worker'[v].pc = "persist"
                           => worker'[v].seen \in Terminal
  <1>0. /\ worker \in [Workers -> WorkerRecord]
        /\ Active(v) => worker[v].job \in Jobs
        /\ worker[v].pc \in Scanning => worker[v].job \in Scans
        /\ worker[v].pc = "verify" => worker[v].job \in Tests
        /\ worker[v].pc = "persist" => worker[v].seen \in Terminal
    BY TypeOKRecords DEF Typed, WorkerSound
  <1> USE <1>0 DEF Active, Scanning
  <1>1. CASE worker'[v] = worker[v]
    BY <1>1
  <1>2. ASSUME NEW j \in Jobs, Claim(v, j) PROVE Sound
    BY <1>2 DEF Claim, Idle
  <1>3. CASE LoadScan(v) \/ MarkScan(v) \/ LoadTest(v)
    BY <1>3 DEF LoadScan, MarkScan, LoadTest, Leave, Beating, WorkerRecord
  <1>4. ASSUME NEW outcome \in Outcomes \cup {"cancelled"}, RunScan(v, outcome)
        PROVE  Sound
    BY <1>4, ScanJobsAssumption DEF RunScan, Terminal, Beating, WorkerRecord
  <1>5. CASE PersistScan(v) \/ VerifyTest(v) \/ Raise(v)
    BY <1>5 DEF PersistScan, VerifyTest, Raise, Leave, Beating, WorkerRecord
  <1>6. CASE StopHeartbeat(v) \/ FinishRead(v)
    BY <1>6 DEF StopHeartbeat, FinishRead, Beating, Finishing, WorkerRecord
  <1>7. CASE FinishWrite(v) \/ Crash(v) \/ Restart(v)
    BY <1>7 DEF FinishWrite, Crash, Restart, Off, Idle, Beating, Finishing
  <1>8. CASE WatchCancellation(v) \/ Beat(v) \/ HeartbeatDies(v)
    BY <1>8 DEF WatchCancellation, Beat, HeartbeatDies, WorkerRecord
  <1>9. CASE Tick
    BY <1>9 DEF Tick, WorkerRecord
  <1>10. ASSUME NEW w \in Workers, w # v, StepOf(w)
         PROVE  worker'[v] = worker[v]
    BY <1>10, OthersUntouched
  <1>11. CASE Request \/ (\E j \in Jobs : BackoffElapses(j))
              \/ ClaimNothing(v) \/ UNCHANGED vars
    BY <1>11 DEF Request, StartLookup, StartCommit, CancelLookup, CancelCommit,
         Toggle, Purge, EnqueueTest, BackoffElapses, ClaimNothing, vars
  <1> QED
    BY <1>1, <1>2, <1>3, <1>4, <1>5, <1>6, <1>7, <1>8, <1>9, <1>10, <1>11
    DEF Next, StepOf, Work, Fault

(***************************************************************************)
(* Every variable keeps its type.                                          *)
(***************************************************************************)
LEMMA InitialTypes == Init => TypeOK /\ WorkerSound
  <1> SUFFICES ASSUME Init PROVE Typed /\ WorkerSound
    BY TypeOKRecords
  <1>1. scan \in [Scans -> ScanRow] /\ job \in [Jobs -> JobRow]
    BY InitialRecords DEF Init
  <1>2. /\ worker \in [Workers -> WorkerRecord]
        /\ client \in [Clients -> RequestRecord]
    BY InitialRecords DEF Init
  <1>3. WorkerSound
    BY DEF Init, WorkerSound, Scanning, Idle, Active, Beating, Finishing
  <1> QED BY <1>1, <1>2, <1>3 DEF Init, Typed

\* Every step keeps the types.
LEMMA TypeStays == TypeOK /\ WorkerSound /\ [Next]_vars => TypeOK'
  <1> SUFFICES ASSUME TypeOK, WorkerSound, [Next]_vars
               PROVE  Typed'
    BY DEF Typed, TypeOK, ScanRow, JobRow, WorkerRecord, RequestRecord
  <1> USE DEF Typed
  <1>0. Typed
    BY TypeOKRecords
  <1> USE <1>0
  <1>1. ASSUME NEW c \in Clients, NEW s \in Scans,
               NEW k \in Keys \cup {NoKey}, StartLookup(c, s, k)
        PROVE  client' \in [Clients -> RequestRecord]
    <2>1. [NoRequest EXCEPT !.op = "start", !.scan = s, !.key = k]
            \in RequestRecord
      BY InitialRecords DEF RequestRecord
    <2> QED BY <1>1, <2>1 DEF StartLookup
  <1>2. ASSUME NEW c \in Clients, StartCommit(c)
        PROVE  /\ client' \in [Clients -> RequestRecord]
               /\ scan' \in [Scans -> ScanRow]
               /\ job' \in [Jobs -> JobRow]
               /\ enqueued' \in Nat
    <2>1. client[c].key \in Keys \cup {NoKey}
      BY DEF RequestRecord
    <2>2. /\ NewScan(client[c].key) \in ScanRow
          /\ NewJob(enqueued) \in JobRow
          /\ NoRequest \in RequestRecord
      BY <2>1, InitialRecords
    <2>3. /\ client' \in [Clients -> RequestRecord]
          /\ scan' \in [Scans -> ScanRow]
      BY <1>2, <2>2 DEF StartCommit
    <2>4. job' \in [Jobs -> JobRow]
      BY <1>2, <2>2 DEF StartCommit
    <2>5. enqueued' \in Nat
      BY <1>2 DEF StartCommit
    <2> QED BY <2>3, <2>4, <2>5
  <1>3. ASSUME NEW c \in Clients, NEW s \in Scans, CancelLookup(c, s)
        PROVE  client' \in [Clients -> RequestRecord]
    <2>1. [NoRequest EXCEPT !.op = "cancel", !.scan = s,
                            !.seen = scan[s].status] \in RequestRecord
      BY InitialRecords DEF RequestRecord, ScanRow
    <2> QED BY <1>3, <2>1 DEF CancelLookup
  <1>4. ASSUME NEW c \in Clients, CancelCommit(c)
        PROVE  /\ client' \in [Clients -> RequestRecord]
               /\ scan' \in [Scans -> ScanRow]
    <2>1. client' \in [Clients -> RequestRecord]
      BY <1>4, InitialRecords DEF CancelCommit
    <2>2. ASSUME NEW s \in Scans, NEW st \in ScanStatuses
          PROVE  [scan[s] EXCEPT !.cancel = TRUE, !.status = st] \in ScanRow
      BY DEF ScanRow
    <2>3. /\ "cancelled" \in ScanStatuses
          /\ \A s \in Scans : scan[s].status \in ScanStatuses
      BY DEF ScanRow, ScanStatuses, Terminal
    <2>4. scan' \in [Scans -> ScanRow]
      <3>1. CASE client[c].seen = "queued"
        BY <1>4, <2>2, <2>3, <3>1 DEF CancelCommit
      <3>2. CASE client[c].seen # "queued"
        BY <1>4, <2>2, <2>3, <3>2 DEF CancelCommit
      <3> QED BY <3>1, <3>2
    <2> QED BY <2>1, <2>4
  <1>5. CASE Toggle \/ Purge
    BY <1>5, InitialRecords DEF Toggle, Purge
  <1>6. ASSUME NEW t \in Tests, EnqueueTest(t)
        PROVE  job' \in [Jobs -> JobRow] /\ enqueued' \in Nat
    <2>1. NewJob(enqueued) \in JobRow
      BY InitialRecords
    <2>2. job' \in [Jobs -> JobRow]
      BY <1>6, <2>1 DEF EnqueueTest
    <2>3. enqueued' \in Nat
      BY <1>6 DEF EnqueueTest
    <2> QED BY <2>2, <2>3
  <1>7. ASSUME NEW w \in Workers, NEW j \in Jobs, Claim(w, j)
        PROVE  /\ job' \in [Jobs -> JobRow]
               /\ worker' \in [Workers -> WorkerRecord]
    <2>1. Reaped \in [Jobs -> JobRow]
      BY ReapedType
    <2>2. [Reaped[j] EXCEPT !.status = "running", !.attempts = @ + 1,
                            !.left = LeaseTime] \in JobRow
      <3>1. ASSUME NEW r \in JobRow, NEW st \in JobStatuses, NEW n \in Nat,
                   NEW l \in 0..LeaseTime
            PROVE  [r EXCEPT !.status = st, !.attempts = n, !.left = l]
                     \in JobRow
        BY DEF JobRow
      <3>2. /\ Reaped[j] \in JobRow
            /\ LeaseTime \in 0..LeaseTime
            /\ "running" \in JobStatuses
        BY <2>1, ScanJobsAssumption DEF JobStatuses
      <3>3. Reaped[j].attempts + 1 \in Nat
        BY <3>2 DEF JobRow
      <3> QED BY <3>1, <3>2, <3>3
    <2>3. job' \in [Jobs -> JobRow]
      BY <1>7, <2>1, <2>2 DEF Claim
    <2>4. [Idle EXCEPT !.pc = "load", !.job = j, !.beat = "on"]
            \in WorkerRecord
      BY InitialRecords DEF WorkerRecord, Beating
    <2>5. worker' \in [Workers -> WorkerRecord]
      BY <1>7, <2>4 DEF Claim
    <2> QED BY <2>3, <2>5
  <1>8. ASSUME NEW w \in Workers, ClaimNothing(w)
        PROVE  job' \in [Jobs -> JobRow]
    BY <1>8, ReapedType DEF ClaimNothing
  <1>9. ASSUME NEW w \in Workers, LoadScan(w)
        PROVE  worker' \in [Workers -> WorkerRecord]
    <2>1. CASE Leave(w, TRUE)
      BY <2>1, LeaveType
    <2>2. CASE ~Leave(w, TRUE)
      <3>1. worker[w].job \in Scans
        BY <1>9 DEF LoadScan
      <3>2. [worker[w] EXCEPT !.pc = "mark",
                              !.cancel = StopRequested(worker[w].job),
                              !.seen = scan[worker[w].job].status]
              \in WorkerRecord
        BY <3>1 DEF WorkerRecord, ScanRow, Beating, StopRequested
      <3> QED BY <1>9, <2>2, <3>2 DEF LoadScan
    <2> QED BY <2>1, <2>2
  <1>10. ASSUME NEW w \in Workers, MarkScan(w)
         PROVE  /\ scan' \in [Scans -> ScanRow]
                /\ worker' \in [Workers -> WorkerRecord]
    <2>1. ASSUME NEW s \in Scans, NEW st \in {"cancelled", "running"}
          PROVE  [scan[s] EXCEPT !.status = st] \in ScanRow
      BY DEF ScanRow, ScanStatuses, Terminal
    <2>2. scan' \in [Scans -> ScanRow]
      <3>1. CASE worker[w].cancel
        BY <1>10, <2>1, <3>1 DEF MarkScan
      <3>2. CASE ~worker[w].cancel
        BY <1>10, <2>1, <3>2 DEF MarkScan
      <3> QED BY <3>1, <3>2
    <2>3. CASE \E failed \in BOOLEAN : Leave(w, failed)
      BY <2>2, <2>3, LeaveType
    <2>4. CASE ~\E failed \in BOOLEAN : Leave(w, failed)
      <3>1. [worker[w] EXCEPT !.pc = "scan", !.seen = "none"]
              \in WorkerRecord
        BY DEF WorkerRecord, Beating
      <3>2. worker' = [worker EXCEPT ![w].pc = "scan", ![w].seen = "none"]
        <4>1. ~Leave(w, TRUE) /\ ~Leave(w, FALSE)
          BY <2>4
        <4>2. Exists(worker[w].job) \in BOOLEAN
          BY DEF Exists
        <4>3. CASE worker[w].cancel
          <5>1. Leave(w, ~Exists(worker[w].job)
                           /\ "cancelled" # worker[w].seen)
            BY <1>10, <4>3 DEF MarkScan
          <5> QED BY <4>1, <4>2, <5>1
        <4>4. CASE ~worker[w].cancel /\ ~Exists(worker[w].job)
          <5>1. Leave(w, TRUE)
            BY <1>10, <4>4 DEF MarkScan
          <5> QED BY <4>1, <5>1
        <4>5. CASE ~worker[w].cancel /\ Exists(worker[w].job)
          BY <1>10, <4>5 DEF MarkScan
        <4> QED BY <4>3, <4>4, <4>5
      <3> QED BY <2>2, <3>1, <3>2
    <2> QED BY <2>2, <2>3, <2>4
  <1>11. ASSUME NEW w \in Workers, WatchCancellation(w)
         PROVE  worker' \in [Workers -> WorkerRecord]
    <2>1. [worker[w] EXCEPT !.cancel = TRUE] \in WorkerRecord
      BY DEF WorkerRecord
    <2> QED BY <1>11, <2>1 DEF WatchCancellation
  <1>12. ASSUME NEW w \in Workers,
                NEW outcome \in Outcomes \cup {"cancelled"},
                RunScan(w, outcome)
         PROVE  worker' \in [Workers -> WorkerRecord]
    <2>1. outcome \in ScanStatuses
      BY ScanJobsAssumption DEF ScanStatuses, Terminal
    <2>2. [worker[w] EXCEPT !.pc = "persist", !.cancel = FALSE,
                            !.seen = outcome] \in WorkerRecord
      BY <2>1 DEF WorkerRecord, Beating
    <2> QED BY <1>12, <2>2 DEF RunScan
  <1>13. ASSUME NEW w \in Workers, PersistScan(w)
         PROVE  /\ scan' \in [Scans -> ScanRow]
                /\ worker' \in [Workers -> WorkerRecord]
    <2>1. worker' \in [Workers -> WorkerRecord]
      BY <1>13, LeaveType DEF PersistScan
    <2>2. CASE connection = "purged"
      BY <1>13, <2>1, <2>2 DEF PersistScan
    <2>3. CASE connection # "purged"
      <3>1. worker[w].seen \in ScanStatuses
        BY <1>13 DEF PersistScan, WorkerSound, ScanStatuses
      <3>2. ASSUME NEW s \in Scans
            PROVE  [scan[s] EXCEPT !.status = worker[w].seen, !.key = NoKey,
                                   !.saved = TRUE] \in ScanRow
        BY <3>1 DEF ScanRow
      <3> QED BY <1>13, <2>1, <2>3, <3>2 DEF PersistScan
    <2> QED BY <2>2, <2>3
  <1>14. ASSUME NEW w \in Workers, LoadTest(w) \/ Raise(w)
         PROVE  worker' \in [Workers -> WorkerRecord]
    <2>1. CASE Leave(w, TRUE)
      BY <2>1, LeaveType
    <2>2. CASE ~Leave(w, TRUE)
      <3>1. [worker[w] EXCEPT !.pc = "verify"] \in WorkerRecord
        BY DEF WorkerRecord, Beating
      <3> QED BY <1>14, <2>2, <3>1 DEF LoadTest, Raise
    <2> QED BY <2>1, <2>2
  <1>15. ASSUME NEW w \in Workers, VerifyTest(w)
         PROVE  /\ worker' \in [Workers -> WorkerRecord]
                /\ verified' \in BOOLEAN
    BY <1>15, LeaveType DEF VerifyTest
  <1>16. ASSUME NEW w \in Workers, StopHeartbeat(w) \/ HeartbeatDies(w)
         PROVE  /\ worker' \in [Workers -> WorkerRecord]
                /\ faults' \in Nat
    <2>1. [worker[w] EXCEPT !.beat = "lost", !.since = 0] \in WorkerRecord
      <3>1. 0 \in 0..BeatTime
        BY ScanJobsAssumption
      <3> QED BY <3>1 DEF WorkerRecord
    <2>2. [worker[w] EXCEPT !.pc = "finish", !.beat = "off",
                            !.err = @ \/ worker[w].beat = "lost"]
            \in WorkerRecord
      <3>1. (worker[w].err \/ worker[w].beat = "lost") \in BOOLEAN
        OBVIOUS
      <3>2. ASSUME NEW e \in BOOLEAN
            PROVE  [worker[w] EXCEPT !.pc = "finish", !.beat = "off",
                                     !.err = e] \in WorkerRecord
        BY DEF WorkerRecord, Finishing
      <3> QED BY <3>1, <3>2
    <2>3. CASE StopHeartbeat(w)
      BY <2>2, <2>3 DEF StopHeartbeat
    <2>4. CASE HeartbeatDies(w)
      <3>1. worker' \in [Workers -> WorkerRecord]
        BY <2>1, <2>4 DEF HeartbeatDies
      <3>2. faults' \in Nat
        BY <2>4 DEF HeartbeatDies
      <3> QED BY <3>1, <3>2
    <2> QED BY <1>16, <2>3, <2>4
  <1>17. ASSUME NEW w \in Workers, Beat(w)
         PROVE  /\ worker' \in [Workers -> WorkerRecord]
                /\ job' \in [Jobs -> JobRow]
    <2>1. /\ [worker[w] EXCEPT !.since = 0] \in WorkerRecord
          /\ \A j \in Jobs : [job[j] EXCEPT !.left = LeaseTime] \in JobRow
      BY ScanJobsAssumption DEF WorkerRecord, JobRow
    <2> QED BY <1>17, <2>1 DEF Beat
  <1>18. ASSUME NEW w \in Workers, FinishRead(w)
         PROVE  worker' \in [Workers -> WorkerRecord]
    <2>1. worker[w].job \in Jobs
      BY <1>18 DEF FinishRead, WorkerSound, Active, Finishing
    <2>2. [worker[w] EXCEPT !.pc = "settle",
                            !.seen = job[worker[w].job].status,
                            !.tries = job[worker[w].job].attempts]
            \in WorkerRecord
      BY <2>1 DEF WorkerRecord, JobRow, Finishing
    <2> QED BY <1>18, <2>2 DEF FinishRead
  <1>19. ASSUME NEW w \in Workers, FinishWrite(w)
         PROVE  /\ worker' \in [Workers -> WorkerRecord]
                /\ job' \in [Jobs -> JobRow]
    <2>1. worker' \in [Workers -> WorkerRecord]
      BY <1>19, InitialRecords DEF FinishWrite
    <2>2. FinishStatus(w) \in JobStatuses
      BY DEF FinishStatus, JobStatuses
    <2>3. job' \in [Jobs -> JobRow]
      <3>1. ASSUME NEW j \in Jobs, NEW st \in JobStatuses,
                   NEW d \in BOOLEAN, NEW n \in 0..LeaseTime
            PROVE  [job[j] EXCEPT !.status = st, !.due = d, !.left = n]
                     \in JobRow
        BY DEF JobRow
      <3>2. ASSUME NEW j \in Jobs
            PROVE  /\ job[j].status \in JobStatuses
                   /\ job[j].due \in BOOLEAN
                   /\ job[j].left \in 0..LeaseTime
                   /\ 0 \in 0..LeaseTime
        BY ScanJobsAssumption DEF JobRow
      <3> QED BY <1>19, <2>2, <3>1, <3>2 DEF FinishWrite
    <2> QED BY <2>1, <2>3
  <1>20. ASSUME NEW w \in Workers, Crash(w) \/ Restart(w)
         PROVE  /\ worker' \in [Workers -> WorkerRecord]
                /\ crashes' \in Nat
    BY <1>20, InitialRecords DEF Crash, Restart
  <1>21. ASSUME NEW j \in Jobs, BackoffElapses(j)
         PROVE  job' \in [Jobs -> JobRow]
    BY <1>21 DEF BackoffElapses, JobRow
  <1>22. CASE Tick
    <2>1. job' \in [Jobs -> JobRow]
      <3>1. ASSUME NEW j \in Jobs
            PROVE  [job[j] EXCEPT !.left = Lapsed(@)] \in JobRow
        BY ScanJobsAssumption DEF JobRow, Lapsed
      <3> QED BY <1>22, <3>1 DEF Tick
    <2>2. worker' \in [Workers -> WorkerRecord]
      <3>1. ASSUME NEW w \in Workers, worker[w].since < BeatTime
            PROVE  [worker[w] EXCEPT !.since = @ + 1] \in WorkerRecord
        BY <3>1, ScanJobsAssumption DEF WorkerRecord
      <3> QED BY <1>22, <3>1 DEF Tick
    <2> QED BY <1>22, <2>1, <2>2 DEF Tick
  <1>23. CASE UNCHANGED vars
    BY <1>23 DEF vars
  <1>24. CASE Request
    BY <1>1, <1>2, <1>3, <1>4, <1>5, <1>6, <1>24
    DEF Request, StartLookup, StartCommit, CancelLookup, CancelCommit, Toggle,
        Purge, EnqueueTest
  <1>25. ASSUME NEW w \in Workers, Work(w)
         PROVE  Typed'
    BY <1>7, <1>8, <1>9, <1>10, <1>12, <1>13, <1>14, <1>15, <1>16, <1>18,
       <1>19, <1>25
    DEF Work, Claim, ClaimNothing, LoadScan, MarkScan, RunScan, PersistScan,
        LoadTest, VerifyTest, StopHeartbeat, FinishRead, FinishWrite
  <1>26. ASSUME NEW w \in Workers,
                WatchCancellation(w) \/ Beat(w) \/ Fault(w) \/ Restart(w)
         PROVE  Typed'
    BY <1>11, <1>14, <1>16, <1>17, <1>20, <1>26
    DEF Fault, WatchCancellation, Raise, Beat, HeartbeatDies, Crash, Restart
  <1> QED
    BY <1>21, <1>22, <1>23, <1>24, <1>25, <1>26 DEF Next, BackoffElapses

\* Every variable holds what the columns and the memory it stands for can hold.
THEOREM TypeCorrect == Spec => []TypeOK
  BY InitialTypes, TypeStays, WorkerStaysSound, PTL DEF Spec
=============================================================================
