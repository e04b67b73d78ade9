-------------------------- MODULE ScanClaimsProofs --------------------------
(***************************************************************************)
(* Why a claimed job is worked on once: the inductive invariant behind       *)
(* SingleExecution, CompletedJobMeansScanEnded and FinalJobStays, and its   *)
(* proof, again for every value of the constants of ScanJobs.              *)
(***************************************************************************)
EXTENDS ScanJobsProofs

\* Rows are created once, and only rows that exist are worked on.
Origin ==
  /\ \A c \in Clients : client[c].op = "start" =>
       /\ client[c].scan \in Scans
       /\ job[client[c].scan].status = "absent"
       /\ \A d \in Clients : client[d].scan = client[c].scan => d = c
  /\ \A s \in Scans : Exists(s) => job[s].status # "absent"
  /\ \A w \in Workers : Active(w) => job[worker[w].job].status # "absent"

\* What protects the claim of an active worker: the job is marked running,
\* its heartbeat is alive, and as much of the lease is left as the heartbeat
\* period in progress has not used.
Kept(w) ==
  /\ job[worker[w].job].status = "running"
  /\ worker[w].pc \in Beating => worker[w].beat = "on"
  /\ job[worker[w].job].left + worker[w].since >= LeaseTime
  /\ worker[w].pc = "settle" => worker[w].seen = "running"

Claims ==
  faults = 0 =>
    /\ \A w \in Workers : Active(w) => Kept(w)
    /\ \A v, w \in Workers :
         Active(v) /\ Active(w) /\ worker[v].job = worker[w].job => v = w

\* A worker that is about to report success has ended its scan, and one that
\* is about to skip writing "cancelled" has read it in the row.
Settled ==
  faults = 0 =>
    /\ \A s \in Scans : job[s].status = "completed" => Ended(s)
    /\ \A w \in Workers :
         /\ worker[w].pc \in {"stop"} \cup Finishing /\ ~worker[w].err
              /\ worker[w].job \in Scans => Ended(worker[w].job)
         /\ worker[w].pc = "mark" /\ worker[w].seen = "cancelled"
              => Ended(worker[w].job)

IInv == TypeOK /\ WorkerSound /\ Origin /\ Claims /\ Settled
-----------------------------------------------------------------------------
(***************************************************************************)
(* What a step changes.                                                    *)
(***************************************************************************)
\* Only a claim gives a worker a job.
LEMMA SameJob ==
  ASSUME TypeOK, [Next]_vars, NEW v \in Workers, Active(v)',
         ~\E j \in Jobs : Claim(v, j)
  PROVE  Active(v) /\ worker'[v].job = worker[v].job
  <1>0. worker \in [Workers -> WorkerRecord]
    BY TypeOKRecords DEF Typed
  <1> USE <1>0 DEF Active
  <1>1. CASE worker'[v] = worker[v]
    BY <1>1
  <1>2. CASE LoadScan(v) \/ MarkScan(v) \/ LoadTest(v)
    BY <1>2 DEF LoadScan, MarkScan, LoadTest, Leave, Beating, WorkerRecord
  <1>3. CASE \E outcome \in Outcomes \cup {"cancelled"} : RunScan(v, outcome)
    BY <1>3 DEF RunScan, Beating, WorkerRecord
  <1>4. CASE PersistScan(v) \/ VerifyTest(v) \/ Raise(v)
    BY <1>4 DEF PersistScan, VerifyTest, Raise, Leave, Beating, WorkerRecord
  <1>5. CASE StopHeartbeat(v) \/ FinishRead(v)
    BY <1>5 DEF StopHeartbeat, FinishRead, Beating, Finishing, WorkerRecord
  <1>6. CASE FinishWrite(v) \/ Crash(v) \/ Restart(v)
    BY <1>6 DEF FinishWrite, Crash, Restart, Off, Idle, Beating, Finishing
  <1>7. CASE WatchCancellation(v) \/ Beat(v) \/ HeartbeatDies(v)
    BY <1>7 DEF WatchCancellation, Beat, HeartbeatDies, WorkerRecord
  <1>8. CASE Tick
    BY <1>8 DEF Tick, WorkerRecord
  <1>9. ASSUME NEW w \in Workers, w # v, StepOf(w)
        PROVE  worker'[v] = worker[v]
    BY <1>9, OthersUntouched
  <1>10. CASE Request \/ (\E j \in Jobs : BackoffElapses(j))
              \/ ClaimNothing(v) \/ UNCHANGED vars
    BY <1>10 DEF Request, StartLookup, StartCommit, CancelLookup, CancelCommit,
         Toggle, Purge, EnqueueTest, BackoffElapses, ClaimNothing, vars
  <1> QED
    BY <1>1, <1>2, <1>3, <1>4, <1>5, <1>6, <1>7, <1>8, <1>9, <1>10
    DEF Next, StepOf, Work, Fault

\* Of a jobs table the reaper changes the expired rows and only their status.
LEMMA ReapedRow ==
  ASSUME TypeOK, NEW j \in Jobs
  PROVE  /\ ~Expired(j) => Reaped[j] = job[j]
         /\ job[j].status # "running" => Reaped[j] = job[j]
         /\ Expired(j) => Reaped[j].status = "queued"
         /\ Reaped[j].status = "absent" <=> job[j].status = "absent"
  <1>1. job \in [Jobs -> JobRow]
    BY TypeOKRecords DEF Typed
  <1> QED BY <1>1 DEF Reaped, Expired, JobRow

\* A job that exists goes on existing, and one that does not comes into being
\* only when a request commits.
LEMMA JobCreation ==
  ASSUME TypeOK, WorkerSound, Origin, [Next]_vars, NEW j \in Jobs
  PROVE  /\ job[j].status # "absent" => job'[j].status # "absent"
         /\ job[j].status = "absent" /\ job'[j].status # "absent"
              => \/ \E c \in Clients : StartCommit(c) /\ client[c].scan = j
                 \/ \E t \in Tests : EnqueueTest(t) /\ t = j
  <1> DEFINE Goal == /\ job[j].status # "absent" => job'[j].status # "absent"
                     /\ job[j].status = "absent" /\ job'[j].status # "absent"
                          => \/ \E c \in Clients :
                                   StartCommit(c) /\ client[c].scan = j
                             \/ \E t \in Tests : EnqueueTest(t) /\ t = j
  <1>0. job \in [Jobs -> JobRow]
    BY TypeOKRecords DEF Typed
  <1>1. CASE job' = job
    BY <1>1
  <1>2. ASSUME NEW c \in Clients, StartCommit(c) PROVE Goal
    BY <1>0, <1>2 DEF StartCommit, NewJob
  <1>3. ASSUME NEW t \in Tests, EnqueueTest(t) PROVE Goal
    BY <1>0, <1>3 DEF EnqueueTest, NewJob
  <1>4. ASSUME NEW w \in Workers, NEW i \in Jobs, Claim(w, i) PROVE Goal
    <2>1. Reaped \in [Jobs -> JobRow] /\ Reaped[i].status = "queued"
      BY <1>4, ReapedType DEF Claim, Claimable
    <2>2. CASE i = j
      BY <1>4, <2>1, <2>2, ReapedRow DEF Claim, JobRow
    <2>3. CASE i # j
      BY <1>4, <2>1, <2>3, ReapedRow DEF Claim
    <2> QED BY <2>2, <2>3
  <1>5. ASSUME NEW w \in Workers, ClaimNothing(w) PROVE Goal
    BY <1>5, ReapedRow DEF ClaimNothing
  <1>6. ASSUME NEW w \in Workers, Beat(w) PROVE Goal
    BY <1>0, <1>6 DEF Beat, JobRow
  <1>7. ASSUME NEW w \in Workers, FinishWrite(w) PROVE Goal
    <2>1. job[worker[w].job].status # "absent"
      BY <1>7 DEF FinishWrite, Origin, Active, Finishing
    <2>2. FinishStatus(w) # "absent"
      BY DEF FinishStatus
    <2>3. CASE worker[w].job # j
      BY <1>0, <1>7, <2>3 DEF FinishWrite
    <2>4. CASE worker[w].job = j
      <3>1. job'[j].status \in {job[j].status, FinishStatus(w)}
        BY <1>0, <1>7, <2>4 DEF FinishWrite, JobRow
      <3> QED BY <2>1, <2>2, <2>4, <3>1
    <2> QED BY <2>3, <2>4
  <1>8. ASSUME NEW i \in Jobs, BackoffElapses(i) PROVE Goal
    BY <1>0, <1>8 DEF BackoffElapses, JobRow
  <1>9. CASE Tick
    <2>1. job'[j] = [job[j] EXCEPT !.left = Lapsed(@)]
      BY <1>9 DEF Tick
    <2>2. job'[j].status = job[j].status
      BY <1>0, <2>1 DEF JobRow
    <2> QED BY <1>0, <1>9, <2>2
  <1> QED
    BY <1>1, <1>2, <1>3, <1>4, <1>5, <1>6, <1>7, <1>8, <1>9
    DEF Next, Request, Work, Fault, StartLookup, CancelLookup, CancelCommit,
        Toggle, Purge, LoadScan, MarkScan, RunScan, PersistScan, LoadTest,
        VerifyTest, StopHeartbeat, FinishRead, WatchCancellation, Raise,
        HeartbeatDies, Crash, Restart, vars

(***************************************************************************)
(* Origin is inductive.                                                    *)
(***************************************************************************)
LEMMA OriginStays ==
  TypeOK /\ WorkerSound /\ Origin /\ [Next]_vars => Origin'
  <1> SUFFICES ASSUME TypeOK, WorkerSound, Origin, [Next]_vars PROVE Origin'
    OBVIOUS
  <1>0. /\ client \in [Clients -> RequestRecord]
        /\ scan \in [Scans -> ScanRow]
        /\ worker \in [Workers -> WorkerRecord]
    BY TypeOKRecords DEF Typed
  <1>1. \A j \in Jobs : job[j].status # "absent" => job'[j].status # "absent"
    BY JobCreation
  <1>2. ASSUME NEW c \in Clients, client'[c].op = "start"
        PROVE  /\ client'[c].scan \in Scans
               /\ job'[client'[c].scan].status = "absent"
               /\ \A d \in Clients : client'[d].scan = client'[c].scan => d = c
    <2> DEFINE Fresh == /\ client'[c].scan \in Scans
                        /\ job'[client'[c].scan].status = "absent"
                        /\ \A d \in Clients :
                             client'[d].scan = client'[c].scan => d = c
    <2>1. ASSUME NEW b \in Clients, NEW s \in Scans,
                 NEW k \in Keys \cup {NoKey}, StartLookup(b, s, k)
          PROVE  Fresh
      <3>1. client'[b].scan = s
        BY <1>0, <2>1 DEF StartLookup, NoRequest
      <3>2. \A d \in Clients : d # b => client'[d] = client[d]
        BY <1>0, <2>1 DEF StartLookup
      <3>3. \A d \in Clients : client[d].scan # s
        BY <2>1 DEF StartLookup
      <3>4. job' = job /\ job[s].status = "absent"
        BY <2>1 DEF StartLookup
      <3>5. CASE c = b
        BY <3>1, <3>2, <3>3, <3>4, <3>5
      <3>6. CASE c # b
        BY <1>2, <3>1, <3>2, <3>3, <3>4, <3>6 DEF Origin
      <3> QED BY <3>5, <3>6
    <2>2. ASSUME NEW b \in Clients, StartCommit(b)
          PROVE  Fresh
      <3>1. client'[b] = NoRequest
        BY <1>0, <2>2 DEF StartCommit
      <3>2. c # b /\ client'[c] = client[c]
        BY <1>0, <1>2, <2>2, <3>1 DEF StartCommit, NoRequest
      <3>3. /\ client[c].scan \in Scans
            /\ job[client[c].scan].status = "absent"
            /\ client[b].scan # client[c].scan
        BY <1>2, <3>2 DEF Origin
      <3>4. job'[client[c].scan] = job[client[c].scan]
        BY <2>2, <3>3 DEF StartCommit
      <3>5. \A d \in Clients : client'[d].scan = client'[c].scan => d = c
        <4>1. NoRequest.scan \notin Scans
          BY ScanJobsAssumption DEF NoRequest, Jobs
        <4>2. \A d \in Clients : d # b => client'[d] = client[d]
          BY <1>0, <2>2 DEF StartCommit
        <4> QED BY <1>2, <3>1, <3>2, <3>3, <4>1, <4>2 DEF Origin
      <3> QED BY <3>2, <3>3, <3>4, <3>5
    <2>3. ASSUME NEW b \in Clients, NEW s \in Scans, CancelLookup(b, s)
          PROVE  Fresh
      <3>1. client'[b].scan = s /\ client'[b].op = "cancel" /\ job' = job
        BY <1>0, <2>3 DEF CancelLookup, NoRequest
      <3>2. \A d \in Clients : d # b => client'[d] = client[d]
        BY <1>0, <2>3 DEF CancelLookup
      <3>3. job[s].status # "absent"
        BY <2>3 DEF CancelLookup, Origin
      <3>4. c # b
        BY <1>2, <3>1
      <3> QED BY <1>2, <3>1, <3>2, <3>3, <3>4 DEF Origin
    <2>4. ASSUME NEW b \in Clients, CancelCommit(b)
          PROVE  Fresh
      <3>1. client'[b] = NoRequest /\ job' = job
        BY <1>0, <2>4 DEF CancelCommit
      <3>2. \A d \in Clients : d # b => client'[d] = client[d]
        BY <1>0, <2>4 DEF CancelCommit
      <3>3. NoRequest.scan \notin Scans /\ NoRequest.op # "start"
        BY ScanJobsAssumption DEF NoRequest, Jobs
      <3> QED BY <1>2, <3>1, <3>2, <3>3 DEF Origin
    <2>5. CASE client' = client
      <3>1. /\ client[c].scan \in Scans
            /\ job[client[c].scan].status = "absent"
            /\ \A d \in Clients : client[d].scan = client[c].scan => d = c
        BY <1>2, <2>5 DEF Origin
      <3>2. \A b \in Clients : ~StartCommit(b)
        <4>1. ASSUME NEW b \in Clients, StartCommit(b) PROVE FALSE
          BY <1>0, <2>5, <4>1 DEF StartCommit, NoRequest
        <4> QED BY <4>1
      <3>3. \A t \in Tests : t # client[c].scan
        BY <3>1, ScanJobsAssumption
      <3>4. job'[client[c].scan].status = "absent"
        BY <3>1, <3>2, <3>3, JobCreation DEF Jobs
      <3> QED BY <2>5, <3>1, <3>4
    <2> QED
      BY <2>1, <2>2, <2>3, <2>4, <2>5
      DEF Next, Request, Work, Fault, Toggle, Purge, EnqueueTest, Claim,
          ClaimNothing, LoadScan, MarkScan, WatchCancellation, RunScan,
          PersistScan, LoadTest, VerifyTest, Raise, Beat, HeartbeatDies,
          StopHeartbeat, FinishRead, FinishWrite, Crash, Restart,
          BackoffElapses, Tick, vars
  <1>3. ASSUME NEW s \in Scans, Exists(s)'
        PROVE  job'[s].status # "absent"
    <2>1. CASE Exists(s)
      BY <1>1, <2>1 DEF Origin, Jobs
    <2>2. ASSUME NEW c \in Clients, StartCommit(c), ~Exists(s)
          PROVE  job'[s].status # "absent"
      <3>0. job \in [Jobs -> JobRow]
        BY TypeOKRecords DEF Typed
      <3>1. scan'[s] # scan[s]
        BY <1>3, <2>2 DEF Exists
      <3>2. s = client[c].scan /\ job' = [job EXCEPT ![s] = NewJob(enqueued)]
        BY <1>0, <2>2, <3>1 DEF StartCommit
      <3> QED BY <3>0, <3>2 DEF NewJob, Jobs
    <2>3. ASSUME NEW w \in Workers, MarkScan(w) \/ PersistScan(w), ~Exists(s)
          PROVE  job'[s].status # "absent"
      <3>1. scan'[s] # scan[s]
        BY <1>3, <2>3 DEF Exists
      <3>2. s = worker[w].job /\ Active(w)
        BY <1>0, <2>3, <3>1
        DEF MarkScan, PersistScan, Active, Beating, Finishing
      <3> QED BY <1>1, <3>2 DEF Origin, Jobs
    <2>4. ASSUME NEW c \in Clients, CancelCommit(c), ~Exists(s)
          PROVE  FALSE
      BY <1>0, <1>3, <2>4 DEF CancelCommit, Exists
    <2>5. CASE Purge
      BY <1>3, <2>5 DEF Purge, Exists, NoScan
    <2>6. CASE scan' = scan
      BY <1>3, <2>1, <2>6 DEF Exists
    <2> QED
      BY <2>1, <2>2, <2>3, <2>4, <2>5, <2>6
      DEF Next, Request, Work, Fault, StartLookup, CancelLookup, Toggle,
          EnqueueTest, Claim, ClaimNothing, LoadScan, WatchCancellation,
          RunScan, LoadTest, VerifyTest, Raise, Beat, HeartbeatDies,
          StopHeartbeat, FinishRead, FinishWrite, Crash, Restart,
          BackoffElapses, Tick, vars
  <1>4. ASSUME NEW w \in Workers, Active(w)'
        PROVE  job'[worker'[w].job].status # "absent"
    <2>1. CASE \E j \in Jobs : Claim(w, j)
      <3>1. PICK j \in Jobs : Claim(w, j)
        BY <2>1
      <3>2. worker'[w].job = j
        BY <1>0, <3>1 DEF Claim, Idle
      <3>3. job[j].status # "absent"
        BY <3>1, ReapedRow DEF Claim, Claimable
      <3> QED BY <1>1, <3>2, <3>3
    <2>2. CASE ~\E j \in Jobs : Claim(w, j)
      <3>1. Active(w) /\ worker'[w].job = worker[w].job
        BY <1>4, <2>2, SameJob
      <3> QED BY <1>1, <3>1 DEF Origin, WorkerSound
    <2> QED BY <2>1, <2>2
  <1> QED BY <1>2, <1>3, <1>4 DEF Origin

(***************************************************************************)
(* Claims is inductive: a heartbeat period fits in a lease, so the lease of *)
(* a claim that is kept never runs out and nobody else can take the job.    *)
(***************************************************************************)
LEMMA FaultsOnlyGrow ==
  TypeOK /\ [Next]_vars => (faults' = 0 => faults = 0)
  <1> SUFFICES ASSUME TypeOK, [Next]_vars, faults' # faults PROVE faults' # 0
    OBVIOUS
  <1>1. faults \in Nat
    BY TypeOKRecords DEF Typed
  <1>2. \E w \in Workers : HeartbeatDies(w)
    BY DEF Next, Request, Work, Fault, StartLookup, StartCommit, CancelLookup,
       CancelCommit, Toggle, Purge, EnqueueTest, Claim, ClaimNothing, LoadScan,
       MarkScan, WatchCancellation, RunScan, PersistScan, LoadTest, VerifyTest,
       Raise, Beat, StopHeartbeat, FinishRead, FinishWrite, Crash, Restart,
       BackoffElapses, Tick, vars
  <1>3. faults' = faults + 1
    BY <1>2 DEF HeartbeatDies
  <1> QED BY <1>1, <1>3

\* A job whose claim is kept has lease left: nobody takes it.
LEMMA KeptIsNotClaimable ==
  ASSUME TypeOK, NEW w \in Workers, worker[w].job \in Jobs, Kept(w)
  PROVE  /\ ~Expired(worker[w].job)
         /\ worker[w].job \notin Claimable
         /\ Reaped[worker[w].job] = job[worker[w].job]
  <1>1. worker[w].since \in 0..BeatTime /\ job[worker[w].job].left \in 0..LeaseTime
    BY TypeOKRecords DEF Typed, WorkerRecord, JobRow
  <1>2. job[worker[w].job].left > 0
    BY <1>1, ScanJobsAssumption DEF Kept
  <1>3. ~Expired(worker[w].job)
    BY <1>2 DEF Expired
  <1> QED BY <1>3, ReapedRow DEF Claimable, Kept

\* A step that leaves a worker and the row of its job alone leaves its claim.
LEMMA KeptFrame ==
  ASSUME NEW w \in Workers, Kept(w), worker'[w] = worker[w],
         job'[worker[w].job] = job[worker[w].job]
  PROVE  Kept(w)'
  BY DEF Kept

\* Every step keeps every claim, and keeps it exclusive.
LEMMA ClaimsStay ==
  TypeOK /\ WorkerSound /\ Origin /\ Claims /\ [Next]_vars => Claims'
  <1> SUFFICES ASSUME TypeOK, WorkerSound, Origin, Claims, [Next]_vars,
                      faults' = 0
               PROVE  /\ \A w \in Workers : Active(w)' => Kept(w)'
                      /\ \A v, w \in Workers :
                           Active(v)' /\ Active(w)'
                             /\ worker'[v].job = worker'[w].job => v = w
    BY DEF Claims
  <1>0. /\ worker \in [Workers -> WorkerRecord]
        /\ job \in [Jobs -> JobRow]
    BY TypeOKRecords DEF Typed
  <1>1. /\ \A w \in Workers : Active(w) => Kept(w) /\ worker[w].job \in Jobs
        /\ \A v, w \in Workers :
             Active(v) /\ Active(w) /\ worker[v].job = worker[w].job => v = w
    BY FaultsOnlyGrow DEF Claims, WorkerSound
  <1>2. ASSUME NEW v \in Workers, NEW w \in Workers, Active(v)', Active(w)',
               worker'[v].job = worker'[w].job, v # w
        PROVE  FALSE
    <2>1. ASSUME NEW u \in Workers, NEW x \in Workers, u # x, Active(x)',
                 NEW j \in Jobs, Claim(u, j)
          PROVE  worker'[x].job # worker'[u].job
      <3>1. worker'[u].job = j /\ worker'[x] = worker[x]
        BY <1>0, <2>1 DEF Claim, Idle
      <3>2. Active(x)
        BY <2>1, <3>1 DEF Active
      <3>3. worker[x].job \notin Claimable
        BY <1>1, <3>2, KeptIsNotClaimable
      <3> QED BY <2>1, <3>1, <3>3 DEF Claim
    <2>2. CASE \E j \in Jobs : Claim(v, j) \/ Claim(w, j)
      BY <1>2, <2>1, <2>2
    <2>3. CASE ~\E j \in Jobs : Claim(v, j) \/ Claim(w, j)
      BY <1>1, <1>2, <2>3, SameJob
    <2> QED BY <2>2, <2>3
  <1>3. ASSUME NEW v \in Workers, Active(v)'
        PROVE  Kept(v)'
    <2>1. ASSUME NEW j \in Jobs, Claim(v, j)
          PROVE  Kept(v)'
      <3>1. worker'[v] = [Idle EXCEPT !.pc = "load", !.job = j, !.beat = "on"]
        BY <1>0, <2>1 DEF Claim
      <3>2. /\ worker'[v].job = j /\ worker'[v].beat = "on"
            /\ worker'[v].pc = "load" /\ worker'[v].since = 0
        BY <3>1 DEF Idle
      <3>3. job'[j].status = "running" /\ job'[j].left = LeaseTime
        <4>1. Reaped \in [Jobs -> JobRow]
          BY ReapedType
        <4> QED BY <2>1, <4>1 DEF Claim, JobRow
      <3> QED BY <3>2, <3>3, ScanJobsAssumption DEF Kept
    <2>2. CASE ~\E j \in Jobs : Claim(v, j)
      <3>0. /\ Active(v) /\ worker'[v].job = worker[v].job
            /\ Kept(v) /\ worker[v].job \in Jobs
        BY <1>1, <1>3, <2>2, SameJob
      <3> DEFINE J == worker[v].job
      <3>1. J \notin Claimable /\ Reaped[J] = job[J]
        BY <3>0, KeptIsNotClaimable
      <3>2. ASSUME NEW w \in Workers, NEW j \in Jobs, Claim(w, j)
            PROVE  Kept(v)'
        <4>1. w # v /\ j # J
          BY <2>2, <3>1, <3>2 DEF Claim
        <4>2. job'[J] = job[J]
          BY <3>0, <3>1, <3>2, <4>1, ReapedType DEF Claim
        <4>3. worker'[v] = worker[v]
          BY <1>0, <3>2, <4>1 DEF Claim
        <4> QED BY <3>0, <4>2, <4>3, KeptFrame
      <3>3. ASSUME NEW w \in Workers, ClaimNothing(w)
            PROVE  Kept(v)'
        BY <3>0, <3>1, <3>3, KeptFrame DEF ClaimNothing
      <3>4. CASE Request
        <4>1. worker' = worker
          BY <3>4 DEF Request, StartLookup, StartCommit, CancelLookup,
             CancelCommit, Toggle, Purge, EnqueueTest
        <4>2. job[J].status = "running"
          BY <3>0 DEF Kept
        <4>3. ASSUME NEW c \in Clients, StartCommit(c)
              PROVE  job'[J] = job[J]
          <5>1. client[c].scan # J
            BY <4>2, <4>3 DEF StartCommit, Origin
          <5> QED BY <1>0, <3>0, <4>3, <5>1 DEF StartCommit
        <4>4. ASSUME NEW t \in Tests, EnqueueTest(t)
              PROVE  job'[J] = job[J]
          BY <1>0, <3>0, <4>2, <4>4 DEF EnqueueTest
        <4>5. job'[J] = job[J]
          BY <3>4, <4>3, <4>4 DEF Request, StartLookup, CancelLookup,
             CancelCommit, Toggle, Purge
        <4> QED BY <3>0, <4>1, <4>5, KeptFrame
      <3>5. ASSUME NEW w \in Workers, w # v, StepOf(w),
                   ~\E j \in Jobs : Claim(w, j), ~ClaimNothing(w)
            PROVE  Kept(v)'
        <4>1. worker'[v] = worker[v]
          BY <3>5, OthersUntouched
        <4>2. ASSUME Beat(w) \/ FinishWrite(w)
              PROVE  job'[J] = job[J] \/ job'[J] = [job[J] EXCEPT !.left = LeaseTime]
          <5>1. CASE Beat(w)
            BY <1>0, <3>0, <5>1 DEF Beat
          <5>2. CASE FinishWrite(w)
            <6>1. worker[w].job # J
              BY <1>1, <3>0, <3>5, <5>2 DEF FinishWrite, Active, Finishing
            <6> QED BY <1>0, <3>0, <5>2, <6>1 DEF FinishWrite
          <5> QED BY <4>2, <5>1, <5>2
        <4>3. job' = job \/ Beat(w) \/ FinishWrite(w)
          BY <3>5 DEF StepOf, Work, Fault, LoadScan, MarkScan, RunScan,
             PersistScan, LoadTest, VerifyTest, StopHeartbeat, FinishRead,
             WatchCancellation, Raise, HeartbeatDies, Crash, Restart
        <4>4. job'[J].status = job[J].status
              /\ (job'[J].left = job[J].left \/ job'[J].left = LeaseTime)
          BY <1>0, <3>0, <4>2, <4>3 DEF JobRow
        <4>5. job[J].left + worker[v].since >= LeaseTime
              /\ worker[v].since \in Nat /\ LeaseTime \in Nat
          BY <1>0, <3>0, ScanJobsAssumption DEF Kept, WorkerRecord
        <4>6. job'[J].left + worker[v].since >= LeaseTime
          BY <4>4, <4>5
        <4> QED BY <3>0, <4>1, <4>4, <4>6 DEF Kept
      <3>6. CASE \/ LoadScan(v) \/ MarkScan(v) \/ WatchCancellation(v)
                 \/ PersistScan(v) \/ LoadTest(v) \/ VerifyTest(v) \/ Raise(v)
                 \/ \E outcome \in Outcomes \cup {"cancelled"} :
                      RunScan(v, outcome)
        <4>1. job' = job
          BY <3>6 DEF LoadScan, MarkScan, WatchCancellation, PersistScan,
             LoadTest, VerifyTest, Raise, RunScan
        <4>2. /\ worker'[v].beat = worker[v].beat
              /\ worker'[v].since = worker[v].since
              /\ worker'[v].pc \in Beating /\ worker[v].pc \in Beating
          BY <1>0, <3>6 DEF LoadScan, MarkScan, WatchCancellation, PersistScan,
             LoadTest, VerifyTest, Raise, RunScan, Leave, Beating, WorkerRecord
        <4> QED BY <3>0, <4>1, <4>2 DEF Kept, Beating
      <3>7. CASE StopHeartbeat(v) \/ FinishRead(v)
        <4>1. job' = job /\ worker'[v].since = worker[v].since
          BY <1>0, <3>7 DEF StopHeartbeat, FinishRead, WorkerRecord
        <4>2. /\ worker'[v].pc \in Finishing
              /\ worker'[v].pc = "settle" => worker'[v].seen = job[J].status
          BY <1>0, <3>7 DEF StopHeartbeat, FinishRead, WorkerRecord, Finishing
        <4> QED BY <3>0, <4>1, <4>2 DEF Kept, Beating, Finishing
      <3>8. CASE Beat(v)
        <4>1. /\ worker'[v].since = 0 /\ worker'[v].pc = worker[v].pc
              /\ worker'[v].beat = worker[v].beat
              /\ worker'[v].seen = worker[v].seen
          BY <1>0, <3>8 DEF Beat, WorkerRecord
        <4>2. job'[J].status = "running" /\ job'[J].left = LeaseTime
          BY <1>0, <3>0, <3>8 DEF Beat, Kept, JobRow
        <4> QED BY <3>0, <4>1, <4>2, ScanJobsAssumption DEF Kept
      <3>9. CASE FinishWrite(v) \/ Crash(v) \/ Restart(v)
        BY <1>0, <1>3, <3>9 DEF FinishWrite, Crash, Restart, Active, Idle, Off,
           Beating, Finishing
      <3>10. CASE HeartbeatDies(v)
        BY <3>10, TypeOKRecords DEF HeartbeatDies, Typed
      <3>11. ASSUME NEW j \in Jobs, BackoffElapses(j)
             PROVE  Kept(v)'
        <4>1. j # J
          BY <3>0, <3>11 DEF BackoffElapses, Kept
        <4>2. job'[J] = job[J] /\ worker'[v] = worker[v]
          BY <1>0, <3>0, <3>11, <4>1 DEF BackoffElapses
        <4> QED BY <3>0, <4>2, KeptFrame
      <3>12. CASE Tick
        <4>1. /\ worker'[v].pc = worker[v].pc
              /\ worker'[v].beat = worker[v].beat
              /\ worker'[v].seen = worker[v].seen
          BY <1>0, <3>12 DEF Tick, WorkerRecord
        <4>2. worker'[v].since = worker[v].since + 1
          BY <1>0, <3>0, <3>12 DEF Tick, WorkerRecord, Timed, Kept, Active
        <4>3. job'[J] = [job[J] EXCEPT !.left = Lapsed(@)]
          BY <3>0, <3>12 DEF Tick
        <4>4. job'[J].status = job[J].status /\ job'[J].left >= job[J].left - 1
          BY <1>0, <3>0, <4>3 DEF Lapsed, JobRow
        <4>5. /\ job[J].left + worker[v].since >= LeaseTime
              /\ worker[v].since \in Nat /\ LeaseTime \in Nat
              /\ job[J].left \in Nat /\ job'[J].left \in Nat
          <5>1. worker[v].since \in Nat /\ job[J].left \in Nat
            BY <1>0, <3>0 DEF WorkerRecord, JobRow
          <5>2. job'[J].left \in Nat
            BY <1>0, <3>0, <4>3, <5>1 DEF Lapsed, JobRow
          <5> QED BY <3>0, <5>1, <5>2, ScanJobsAssumption DEF Kept
        <4>6. job'[J].left + (worker[v].since + 1) >= LeaseTime
          BY <4>4, <4>5
        <4> QED BY <3>0, <4>1, <4>2, <4>4, <4>6 DEF Kept
      <3>13. CASE UNCHANGED vars
        BY <3>0, <3>13, KeptFrame DEF vars
      <3> QED
        BY <2>2, <3>2, <3>3, <3>4, <3>5, <3>6, <3>7, <3>8, <3>9, <3>10, <3>11,
           <3>12, <3>13
        DEF Next, StepOf, Work, Fault
    <2> QED BY <2>1, <2>2
  <1> QED BY <1>2, <1>3

(***************************************************************************)
(* Settled is inductive: while a job is worked on by one worker only, nobody *)
(* but that worker takes its scan out of a final status.                    *)
(***************************************************************************)
\* Whose step takes a scan out of its final status.
LEMMA EndedStays ==
  ASSUME TypeOK, WorkerSound, Origin, [Next]_vars, NEW s \in Scans, Ended(s)
  PROVE  \/ Ended(s)'
         \/ \E w \in Workers : MarkScan(w) /\ worker[w].job = s
                               /\ ~worker[w].cancel
         \/ \E c \in Clients : StartCommit(c) /\ job[s].status = "absent"
  <1> DEFINE Goal ==
        \/ Ended(s)'
        \/ \E w \in Workers : MarkScan(w) /\ worker[w].job = s
                              /\ ~worker[w].cancel
        \/ \E c \in Clients : StartCommit(c) /\ job[s].status = "absent"
  <1>0. scan \in [Scans -> ScanRow] /\ worker \in [Workers -> WorkerRecord]
    BY TypeOKRecords DEF Typed
  <1>1. CASE scan'[s] = scan[s]
    BY <1>1 DEF Ended
  <1>2. ASSUME NEW c \in Clients, StartCommit(c) PROVE Goal
    BY <1>0, <1>1, <1>2 DEF StartCommit, Origin
  <1>3. ASSUME NEW c \in Clients, CancelCommit(c) PROVE Goal
    <2>1. CASE client[c].scan # s
      BY <1>0, <1>1, <1>3, <2>1 DEF CancelCommit
    <2>2. CASE client[c].scan = s
      <3>1. scan'[s].status \in {"cancelled", scan[s].status}
        BY <1>0, <1>3, <2>2 DEF CancelCommit, ScanRow
      <3> QED BY <3>1 DEF Ended, Terminal
    <2> QED BY <2>1, <2>2
  <1>4. CASE Purge
    BY <1>4 DEF Purge, NoScan, Ended
  <1>5. ASSUME NEW w \in Workers, MarkScan(w) PROVE Goal
    <2>1. CASE worker[w].job # s
      BY <1>0, <1>1, <1>5, <2>1 DEF MarkScan
    <2>2. CASE worker[w].job = s /\ worker[w].cancel
      <3>1. scan'[s].status \in {"cancelled", scan[s].status}
        BY <1>0, <1>5, <2>2 DEF MarkScan, ScanRow
      <3> QED BY <3>1 DEF Ended, Terminal
    <2> QED BY <1>5, <2>1, <2>2
  <1>6. ASSUME NEW w \in Workers, PersistScan(w) PROVE Goal
    <2>1. CASE worker[w].job # s
      BY <1>0, <1>1, <1>6, <2>1 DEF PersistScan
    <2>2. CASE worker[w].job = s
      <3>1. worker[w].seen \in Terminal
        BY <1>6 DEF PersistScan, WorkerSound
      <3>2. scan'[s].status \in {worker[w].seen, scan[s].status}
        BY <1>0, <1>6, <2>2 DEF PersistScan, ScanRow
      <3> QED BY <3>1, <3>2 DEF Ended
    <2> QED BY <2>1, <2>2
  <1> QED
    BY <1>1, <1>2, <1>3, <1>4, <1>5, <1>6
    DEF Next, Request, Work, Fault, StartLookup, CancelLookup, Toggle,
        EnqueueTest, Claim, ClaimNothing, LoadScan, WatchCancellation,
        RunScan, LoadTest, VerifyTest, Raise, Beat, HeartbeatDies,
        StopHeartbeat, FinishRead, FinishWrite, Crash, Restart,
        BackoffElapses, Tick, vars

\* Whose step completes a job.
LEMMA Completion ==
  ASSUME TypeOK, WorkerSound, Origin, [Next]_vars, NEW j \in Jobs,
         job'[j].status = "completed", job[j].status # "completed"
  PROVE  \E w \in Workers : FinishWrite(w) /\ worker[w].job = j
                            /\ ~worker[w].err
  <1>0. job \in [Jobs -> JobRow]
    BY TypeOKRecords DEF Typed
  <1>1. job'[j] # job[j]
    OBVIOUS
  <1>2. ASSUME NEW c \in Clients, StartCommit(c) PROVE FALSE
    BY <1>0, <1>1, <1>2 DEF StartCommit, NewJob
  <1>3. ASSUME NEW t \in Tests, EnqueueTest(t) PROVE FALSE
    BY <1>0, <1>1, <1>3 DEF EnqueueTest, NewJob
  <1>4. Reaped \in [Jobs -> JobRow] /\ Reaped[j].status # "completed"
    BY <1>0, ReapedType, ReapedRow
  <1>5. ASSUME NEW w \in Workers, NEW i \in Jobs, Claim(w, i) PROVE FALSE
    <2>1. CASE i = j
      BY <1>4, <1>5, <2>1 DEF Claim, JobRow
    <2>2. CASE i # j
      BY <1>4, <1>5, <2>2 DEF Claim
    <2> QED BY <2>1, <2>2
  <1>6. ASSUME NEW w \in Workers, ClaimNothing(w) PROVE FALSE
    BY <1>4, <1>6 DEF ClaimNothing
  <1>7. ASSUME NEW w \in Workers, Beat(w) PROVE FALSE
    BY <1>0, <1>7 DEF Beat, JobRow
  <1>8. ASSUME NEW w \in Workers, FinishWrite(w)
        PROVE  worker[w].job = j /\ ~worker[w].err
    <2>1. worker[w].job = j
      BY <1>0, <1>1, <1>8 DEF FinishWrite
    <2>2. job'[j].status \in {job[j].status, FinishStatus(w)}
      BY <1>0, <1>8, <2>1 DEF FinishWrite, JobRow
    <2> QED BY <2>1, <2>2 DEF FinishStatus
  <1>9. ASSUME NEW i \in Jobs, BackoffElapses(i) PROVE FALSE
    BY <1>0, <1>9 DEF BackoffElapses, JobRow
  <1>10. CASE Tick
    <2>1. job'[j] = [job[j] EXCEPT !.left = Lapsed(@)]
      BY <1>10 DEF Tick
    <2> QED BY <1>0, <2>1 DEF JobRow
  <1> QED
    BY <1>1, <1>2, <1>3, <1>5, <1>6, <1>7, <1>8, <1>9, <1>10
    DEF Next, Request, Work, Fault, StartLookup, CancelLookup, CancelCommit,
        Toggle, Purge, LoadScan, MarkScan, RunScan, PersistScan, LoadTest,
        VerifyTest, StopHeartbeat, FinishRead, WatchCancellation, Raise,
        HeartbeatDies, Crash, Restart, vars

Leaving == {"stop"} \cup Finishing

\* How a worker comes to report success, and to hold a status it read.
LEMMA Arrivals ==
  ASSUME TypeOK, WorkerSound, [Next]_vars, NEW w \in Workers
  PROVE  /\ worker'[w].pc \in Leaving /\ ~worker'[w].err
              => \/ worker[w].pc \in Leaving /\ ~worker[w].err
                 \/ MarkScan(w) /\ worker[w].cancel
                 \/ PersistScan(w) /\ connection # "purged"
                 \/ VerifyTest(w)
         /\ worker'[w].pc = "mark"
              => \/ worker[w].pc = "mark" /\ worker'[w].seen = worker[w].seen
                 \/ LoadScan(w) /\ worker'[w].seen = scan[worker[w].job].status
  <1> DEFINE Goal ==
         /\ worker'[w].pc \in Leaving /\ ~worker'[w].err
              => \/ worker[w].pc \in Leaving /\ ~worker[w].err
                 \/ MarkScan(w) /\ worker[w].cancel
                 \/ PersistScan(w) /\ connection # "purged"
                 \/ VerifyTest(w)
         /\ worker'[w].pc = "mark"
              => \/ worker[w].pc = "mark" /\ worker'[w].seen = worker[w].seen
                 \/ LoadScan(w) /\ worker'[w].seen = scan[worker[w].job].status
  <1>0. worker \in [Workers -> WorkerRecord]
    BY TypeOKRecords DEF Typed
  <1> USE <1>0 DEF Leaving, Finishing
  <1>1. CASE worker'[w] = worker[w]
    BY <1>1
  <1>2. ASSUME NEW j \in Jobs, Claim(w, j) PROVE Goal
    BY <1>2 DEF Claim, Idle
  <1>3. CASE LoadScan(w)
    <2>1. CASE Leave(w, TRUE)
      BY <2>1 DEF Leave, WorkerRecord
    <2>2. CASE ~Leave(w, TRUE)
      <3>1. worker' = [worker EXCEPT ![w].pc = "mark",
                                     ![w].cancel = StopRequested(worker[w].job),
                                     ![w].seen = scan[worker[w].job].status]
        BY <1>3, <2>2 DEF LoadScan
      <3>2. worker'[w].pc = "mark"
        BY <3>1 DEF WorkerRecord
      <3>3. worker'[w].seen = scan[worker[w].job].status
        BY <3>1 DEF WorkerRecord
      <3> QED BY <1>3, <3>2, <3>3
    <2> QED BY <2>1, <2>2
  <1>4. CASE MarkScan(w)
    <2>1. CASE worker[w].cancel
      <3>1. worker'[w].pc = "stop"
        BY <1>4, <2>1 DEF MarkScan, Leave, WorkerRecord
      <3> QED BY <1>4, <2>1, <3>1
    <2>2. CASE ~worker[w].cancel /\ ~Exists(worker[w].job)
      <3>1. Leave(w, TRUE)
        BY <1>4, <2>2 DEF MarkScan
      <3> QED BY <3>1 DEF Leave, WorkerRecord
    <2>3. CASE ~worker[w].cancel /\ Exists(worker[w].job)
      <3>1. worker'[w].pc = "scan"
        BY <1>4, <2>3 DEF MarkScan, WorkerRecord
      <3> QED BY <3>1
    <2> QED BY <2>1, <2>2, <2>3
  <1>5. CASE \E outcome \in Outcomes \cup {"cancelled"} : RunScan(w, outcome)
    BY <1>5 DEF RunScan, WorkerRecord
  <1>6. CASE PersistScan(w)
    <2>1. worker'[w].pc = "stop"
      BY <1>6 DEF PersistScan, Leave, WorkerRecord
    <2>2. CASE connection = "purged"
      <3>1. Leave(w, TRUE)
        BY <1>6, <2>2 DEF PersistScan
      <3> QED BY <3>1 DEF Leave, WorkerRecord
    <2> QED BY <1>6, <2>1, <2>2
  <1>7. CASE LoadTest(w)
    BY <1>7 DEF LoadTest, Leave, WorkerRecord
  <1>8. CASE VerifyTest(w)
    <2>1. worker'[w].pc = "stop"
      BY <1>8 DEF VerifyTest, Leave, WorkerRecord
    <2> QED BY <1>8, <2>1
  <1>9. CASE Raise(w)
    BY <1>9 DEF Raise, Leave, WorkerRecord
  <1>10. CASE StopHeartbeat(w)
    <2>1. worker[w].pc = "stop" /\ worker'[w].pc = "finish"
      BY <1>10 DEF StopHeartbeat, WorkerRecord
    <2>2. worker[w].err => worker'[w].err
      BY <1>10 DEF StopHeartbeat, WorkerRecord
    <2> QED BY <2>1, <2>2
  <1>11. CASE FinishRead(w)
    BY <1>11 DEF FinishRead, WorkerRecord
  <1>12. CASE FinishWrite(w) \/ Crash(w) \/ Restart(w)
    BY <1>12 DEF FinishWrite, Crash, Restart, Off, Idle
  <1>13. CASE WatchCancellation(w) \/ Beat(w) \/ HeartbeatDies(w)
    BY <1>13 DEF WatchCancellation, Beat, HeartbeatDies, WorkerRecord
  <1>14. CASE Tick
    BY <1>14 DEF Tick, WorkerRecord
  <1>15. ASSUME NEW x \in Workers, x # w, StepOf(x)
         PROVE  worker'[w] = worker[w]
    BY <1>15, OthersUntouched
  <1>16. CASE Request \/ (\E j \in Jobs : BackoffElapses(j))
              \/ ClaimNothing(w) \/ UNCHANGED vars
    BY <1>16 DEF Request, StartLookup, StartCommit, CancelLookup, CancelCommit,
         Toggle, Purge, EnqueueTest, BackoffElapses, ClaimNothing, vars
  <1> QED
    BY <1>1, <1>2, <1>3, <1>4, <1>5, <1>6, <1>7, <1>8, <1>9, <1>10, <1>11,
       <1>12, <1>13, <1>14, <1>15, <1>16
    DEF Next, StepOf, Work, Fault

\* Every step keeps what a worker that is leaving knows of its scan.
LEMMA SettledStays ==
  IInv /\ [Next]_vars => Settled'
  <1> SUFFICES ASSUME IInv, [Next]_vars, faults' = 0
               PROVE  /\ \A s \in Scans : job'[s].status = "completed" => Ended(s)'
                      /\ \A w \in Workers :
                           /\ worker'[w].pc \in Leaving /\ ~worker'[w].err
                                /\ worker'[w].job \in Scans
                                => Ended(worker[w].job)'
                           /\ worker'[w].pc = "mark" /\ worker'[w].seen = "cancelled"
                                => Ended(worker[w].job)'
    BY DEF Settled, Leaving
  <1>0. /\ TypeOK /\ WorkerSound /\ Origin /\ faults = 0
        /\ scan \in [Scans -> ScanRow]
        /\ worker \in [Workers -> WorkerRecord]
    BY FaultsOnlyGrow, TypeOKRecords DEF IInv, Typed
  <1>1. /\ \A s \in Scans : job[s].status = "completed" => Ended(s)
        /\ \A w \in Workers :
             /\ worker[w].pc \in Leaving /\ ~worker[w].err
                  /\ worker[w].job \in Scans => Ended(worker[w].job)
             /\ worker[w].pc = "mark" /\ worker[w].seen = "cancelled"
                  => Ended(worker[w].job)
    BY <1>0 DEF IInv, Settled, Leaving
  <1>2. ASSUME NEW w \in Workers, NEW s \in Scans, Active(w),
               worker[w].job = s, Ended(s), ~(MarkScan(w) /\ ~worker[w].cancel)
        PROVE  Ended(s)'
    <2>1. ASSUME NEW x \in Workers, MarkScan(x), worker[x].job = s,
                 ~worker[x].cancel
          PROVE  FALSE
      <3>1. Active(x)
        BY <2>1 DEF MarkScan, Active, Beating
      <3>2. x = w
        BY <1>0, <1>2, <2>1, <3>1 DEF IInv, Claims
      <3> QED BY <1>2, <2>1, <3>2
    <2>2. job[s].status # "absent"
      BY <1>0, <1>2 DEF Origin
    <2> QED BY <1>0, <1>2, <2>1, <2>2, EndedStays
  <1>3. ASSUME NEW s \in Scans, job'[s].status = "completed"
        PROVE  Ended(s)'
    <2>1. CASE job[s].status = "completed"
      <3>1. \A w \in Workers : ~(MarkScan(w) /\ worker[w].job = s)
        <4>1. ASSUME NEW w \in Workers, MarkScan(w), worker[w].job = s PROVE FALSE
          <5>1. Active(w)
            BY <4>1 DEF MarkScan, Active, Beating
          <5> QED BY <1>0, <2>1, <4>1, <5>1 DEF IInv, Claims, Kept
        <4> QED BY <4>1
      <3> QED BY <1>0, <1>1, <2>1, <3>1, EndedStays
    <2>2. CASE job[s].status # "completed"
      <3>1. PICK w \in Workers : FinishWrite(w) /\ worker[w].job = s
                                 /\ ~worker[w].err
        BY <1>0, <1>3, <2>2, Completion DEF Jobs
      <3>2. Ended(s) /\ scan' = scan
        BY <1>1, <3>1 DEF FinishWrite, Leaving, Finishing
      <3> QED BY <3>2 DEF Ended
    <2> QED BY <2>1, <2>2
  <1>4. ASSUME NEW w \in Workers, worker'[w].pc \in Leaving, ~worker'[w].err,
               worker'[w].job \in Scans
        PROVE  Ended(worker[w].job)'
    <2>1. Active(w)'
      BY <1>4 DEF Active, Leaving, Beating, Finishing
    <2>2. ~\E j \in Jobs : Claim(w, j)
      BY <1>0, <1>4 DEF Claim, Idle, Leaving, Finishing
    <2>3. Active(w) /\ worker'[w].job = worker[w].job
      BY <1>0, <2>1, <2>2, SameJob
    <2>4. PICK s \in Scans : s = worker[w].job /\ s = worker'[w].job
      BY <1>4, <2>3
    <2> SUFFICES Ended(s)'
      BY <2>4 DEF Ended
    <2>5. CASE worker[w].pc \in Leaving /\ ~worker[w].err
      BY <1>1, <1>2, <2>3, <2>4, <2>5 DEF MarkScan, Leaving, Finishing
    <2>6. CASE MarkScan(w) /\ worker[w].cancel
      <3>1. Leave(w, ~Exists(s) /\ "cancelled" # worker[w].seen)
        BY <2>4, <2>6 DEF MarkScan
      <3>2. ~(~Exists(s) /\ "cancelled" # worker[w].seen)
        BY <1>0, <1>4, <3>1 DEF Leave, WorkerRecord
      <3>3. CASE "cancelled" = worker[w].seen
        <4>1. Ended(s) /\ scan' = scan
          BY <1>1, <2>4, <2>6, <3>3 DEF MarkScan
        <4> QED BY <4>1 DEF Ended
      <3>4. CASE Exists(s) /\ "cancelled" # worker[w].seen
        <4>1. scan' = [scan EXCEPT ![s].status = "cancelled"]
          BY <2>4, <2>6, <3>4 DEF MarkScan
        <4>2. scan'[s].status = "cancelled"
          BY <1>0, <2>4, <4>1 DEF ScanRow
        <4> QED BY <4>2 DEF Ended, Terminal
      <3> QED BY <3>2, <3>3, <3>4
    <2>7. CASE PersistScan(w) /\ connection # "purged"
      <3>1. scan'[s].status = worker[w].seen
        BY <1>0, <2>4, <2>7 DEF PersistScan, ScanRow
      <3>2. worker[w].seen \in Terminal
        BY <1>0, <2>7 DEF PersistScan, WorkerSound
      <3> QED BY <3>1, <3>2 DEF Ended
    <2>8. CASE VerifyTest(w)
      BY <1>0, <2>4, <2>8, ScanJobsAssumption DEF VerifyTest, WorkerSound
    <2> QED BY <1>0, <1>4, <2>5, <2>6, <2>7, <2>8, Arrivals
  <1>5. ASSUME NEW w \in Workers, worker'[w].pc = "mark",
               worker'[w].seen = "cancelled"
        PROVE  Ended(worker[w].job)'
    <2>0. PICK s \in Scans : s = worker[w].job /\ s = worker'[w].job
      <3>1. Active(w)'
        BY <1>5 DEF Active, Beating
      <3>2. ~\E j \in Jobs : Claim(w, j)
        BY <1>0, <1>5 DEF Claim, Idle
      <3>3. worker[w].job = worker'[w].job
        BY <1>0, <3>1, <3>2, SameJob
      <3>4. worker'[w].job \in Scans
        BY <1>0, <1>5, WorkerStaysSound DEF WorkerSound, Scanning
      <3> QED BY <3>3, <3>4
    <2> SUFFICES Ended(s)'
      BY <2>0 DEF Ended
    <2>1. CASE worker[w].pc = "mark" /\ worker'[w].seen = worker[w].seen
      <3>1. Active(w) /\ worker[w].job = s /\ Ended(s)
        BY <1>1, <1>5, <2>0, <2>1 DEF Active, Beating
      <3>2. ~MarkScan(w) \/ worker[w].cancel
        <4>1. ASSUME MarkScan(w), ~worker[w].cancel PROVE FALSE
          <5>1. CASE Exists(s)
            BY <1>0, <1>5, <2>0, <4>1, <5>1 DEF MarkScan, WorkerRecord
          <5>2. CASE ~Exists(s)
            <6>1. Leave(w, TRUE)
              BY <2>0, <4>1, <5>2 DEF MarkScan
            <6> QED BY <1>0, <1>5, <6>1 DEF Leave, WorkerRecord
          <5> QED BY <5>1, <5>2
        <4> QED BY <4>1
      <3> QED BY <1>2, <3>1, <3>2
    <2>2. CASE LoadScan(w) /\ worker'[w].seen = scan[s].status
      <3>1. scan' = scan
        BY <2>2 DEF LoadScan
      <3> QED BY <1>5, <2>0, <2>2, <3>1 DEF Ended, Terminal
    <2> QED BY <1>0, <1>5, <2>0, <2>1, <2>2, Arrivals
  <1> QED BY <1>3, <1>4, <1>5
-----------------------------------------------------------------------------
(***************************************************************************)
(* The theorems.                                                           *)
(***************************************************************************)
LEMMA Inductive == Spec => []IInv
  <1>1. Init => IInv
    <2> SUFFICES ASSUME Init PROVE IInv
      OBVIOUS
    <2>1. TypeOK /\ WorkerSound
      BY InitialTypes
    <2>2. Origin
      BY DEF Init, Origin, NoRequest, NoScan, Exists, Idle, Active, Beating,
             Finishing
    <2>3. \A w \in Workers : ~Active(w) /\ worker[w].pc = "idle"
      BY DEF Init, Idle, Active, Beating, Finishing
    <2>4. Claims /\ Settled
      BY <2>3 DEF Init, Claims, Settled, Ended, NoScan, NoJobRow, Finishing
    <2> QED BY <2>1, <2>2, <2>4 DEF IInv
  <1>2. IInv /\ [Next]_vars => IInv'
    BY TypeStays, WorkerStaysSound, OriginStays, ClaimsStay, SettledStays
    DEF IInv
  <1> QED BY <1>1, <1>2, PTL DEF Spec

\* While heartbeats live, a job that is completed or failed is left alone.
LEMMA FinalJobStep ==
  ASSUME IInv, [Next]_vars, faults' = 0, NEW j \in Jobs,
         job[j].status \in {"completed", "failed"}
  PROVE  job'[j].status = job[j].status
  <1>0. /\ TypeOK /\ Origin /\ faults = 0
        /\ job \in [Jobs -> JobRow]
    BY FaultsOnlyGrow, TypeOKRecords DEF IInv, Typed
  <1>1. j \notin Claimable /\ Reaped[j] = job[j]
    BY <1>0, ReapedRow DEF Claimable
  <1>2. ASSUME NEW c \in Clients, StartCommit(c) PROVE job'[j] = job[j]
    BY <1>0, <1>2 DEF StartCommit, Origin
  <1>3. ASSUME NEW t \in Tests, EnqueueTest(t) PROVE job'[j] = job[j]
    BY <1>0, <1>3 DEF EnqueueTest
  <1>4. ASSUME NEW w \in Workers, NEW i \in Jobs, Claim(w, i)
        PROVE  job'[j] = job[j]
    BY <1>0, <1>1, <1>4, ReapedType DEF Claim
  <1>5. ASSUME NEW w \in Workers, ClaimNothing(w) PROVE job'[j] = job[j]
    BY <1>1, <1>5 DEF ClaimNothing
  <1>6. ASSUME NEW w \in Workers, Beat(w) PROVE job'[j] = job[j]
    BY <1>0, <1>6 DEF Beat
  <1>7. ASSUME NEW w \in Workers, FinishWrite(w) PROVE job'[j] = job[j]
    <2>1. worker[w].job # j
      BY <1>0, <1>7 DEF IInv, Claims, Kept, FinishWrite, Active, Finishing
    <2> QED BY <1>0, <1>7, <2>1 DEF FinishWrite
  <1>8. ASSUME NEW i \in Jobs, BackoffElapses(i) PROVE job'[j] = job[j]
    BY <1>0, <1>8 DEF BackoffElapses
  <1>9. CASE Tick
    <2>1. job'[j] = [job[j] EXCEPT !.left = Lapsed(@)]
      BY <1>9 DEF Tick
    <2> QED BY <1>0, <2>1 DEF JobRow
  <1>10. CASE job' = job
    BY <1>10
  <1> QED
    BY <1>2, <1>3, <1>4, <1>5, <1>6, <1>7, <1>8, <1>9, <1>10
    DEF Next, Request, Work, Fault, StartLookup, CancelLookup, CancelCommit,
        Toggle, Purge, LoadScan, MarkScan, RunScan, PersistScan, LoadTest,
        VerifyTest, StopHeartbeat, FinishRead, WatchCancellation, Raise,
        HeartbeatDies, Crash, Restart, vars

\* While heartbeats live, no two workers ever hold one job: for any number of
\* workers, jobs, crashes and restarts, from the claim to the end of _finish.
THEOREM OneWorkerPerJob == Spec => []SingleExecution
  <1>1. IInv => SingleExecution
    BY DEF IInv, Claims, SingleExecution
  <1> QED BY <1>1, Inductive, PTL

\* While heartbeats live, a completed job leaves its scan in a final status.
THEOREM CompletedScanEnded == Spec => []CompletedJobMeansScanEnded
  <1>1. IInv => CompletedJobMeansScanEnded
    BY DEF IInv, Settled, CompletedJobMeansScanEnded
  <1> QED BY <1>1, Inductive, PTL

\* While heartbeats live, no late commit and no reaper reopens a job that is
\* completed or failed.
THEOREM FinalJobs == Spec => FinalJobStays
  <1>1. IInv /\ [Next]_vars
          => [faults' = 0 => \A j \in Jobs :
                job[j].status \in {"completed", "failed"}
                  => job'[j].status = job[j].status]_vars
    BY FinalJobStep
  <1> QED BY <1>1, Inductive, PTL DEF Spec, FinalJobStays
=============================================================================
