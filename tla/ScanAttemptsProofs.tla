------------------------- MODULE ScanAttemptsProofs -------------------------
(***************************************************************************)
(* How often a job is claimed and a scan executed, and what a request can   *)
(* rely on: the inductive invariants behind AttemptsBounded,                *)
(* NoRepeatWithoutFault, KeyNamesOneOpenScan and CancelledStaysUnexecuted,  *)
(* and their proofs, for every value of the constants of ScanJobs.         *)
(***************************************************************************)
EXTENDS ScanClaimsProofs

\* Nobody works on the job, and it may still be claimed.
Free(j) == /\ job[j].status \notin {"completed", "failed"}
           /\ \A w \in Workers : ~(Active(w) /\ worker[w].job = j)

\* A job that may still be claimed has been claimed less often than it may in
\* all; and the attempts a worker is about to decide by are those in the row.
Attempts ==
  faults = 0 =>
    /\ \A j \in Jobs :
         /\ job[j].attempts <= MaxAttempts + crashes
         /\ Free(j) => job[j].attempts < MaxAttempts + crashes
    /\ \A w \in Workers :
         worker[w].pc = "settle" => worker[w].tries = job[worker[w].job].attempts

\* The result of a scan is in the database: its job is completed or a worker
\* is about to complete it.
Persisted(s) ==
  \/ job[s].status = "completed"
  \/ \E w \in Workers : /\ worker[w].pc \in Leaving
                        /\ worker[w].job = s
                        /\ ~worker[w].err

SavedIsPersisted ==
  crashes + faults = 0 => \A s \in Scans : scan[s].saved => Persisted(s)
-----------------------------------------------------------------------------
(***************************************************************************)
(* What a step changes.                                                    *)
(***************************************************************************)
\* Crashes are never forgotten.
LEMMA CrashesOnlyGrow ==
  ASSUME TypeOK, [Next]_vars
  PROVE  crashes' = crashes \/ (crashes' = crashes + 1 /\ UNCHANGED job)
  <1>1. ASSUME NEW w \in Workers, Crash(w)
        PROVE  crashes' = crashes + 1 /\ UNCHANGED job
    BY <1>1 DEF Crash
  <1>2. ASSUME NEW w \in Workers, Work(w) PROVE crashes' = crashes
    BY <1>2 DEF Work, Claim, ClaimNothing, LoadScan, MarkScan, RunScan,
       PersistScan, LoadTest, VerifyTest, StopHeartbeat, FinishRead, FinishWrite
  <1>3. ASSUME NEW w \in Workers,
               \/ WatchCancellation(w) \/ Beat(w) \/ Restart(w)
               \/ Raise(w) \/ HeartbeatDies(w)
        PROVE  crashes' = crashes
    BY <1>3 DEF WatchCancellation, Beat, Restart, Raise, HeartbeatDies
  <1>4. CASE Request
    BY <1>4 DEF Request, StartLookup, StartCommit, CancelLookup, CancelCommit,
       Toggle, Purge, EnqueueTest
  <1>5. CASE Tick \/ UNCHANGED vars \/ \E j \in Jobs : BackoffElapses(j)
    BY <1>5 DEF Tick, BackoffElapses, vars
  <1> QED BY <1>1, <1>2, <1>3, <1>4, <1>5 DEF Next, Fault

\* Only a claim counts an attempt.
LEMMA AttemptsStep ==
  ASSUME TypeOK, WorkerSound, Origin, [Next]_vars, NEW j \in Jobs
  PROVE  \/ job'[j].attempts = job[j].attempts
         \/ job'[j].attempts = 0 /\ job[j].status = "absent"
         \/ \E w \in Workers : /\ Claim(w, j)
                               /\ job'[j].attempts = job[j].attempts + 1
  <1> DEFINE Goal ==
        \/ job'[j].attempts = job[j].attempts
        \/ job'[j].attempts = 0 /\ job[j].status = "absent"
        \/ \E w \in Workers : /\ Claim(w, j)
                              /\ job'[j].attempts = job[j].attempts + 1
  <1>0. job \in [Jobs -> JobRow]
    BY TypeOKRecords DEF Typed
  <1>1. Reaped \in [Jobs -> JobRow] /\ Reaped[j].attempts = job[j].attempts
    BY <1>0, ReapedType DEF Reaped, JobRow
  <1>2. ASSUME NEW c \in Clients, StartCommit(c) PROVE Goal
    BY <1>0, <1>2 DEF StartCommit, NewJob, Origin
  <1>3. ASSUME NEW t \in Tests, EnqueueTest(t) PROVE Goal
    BY <1>0, <1>3 DEF EnqueueTest, NewJob
  <1>4. ASSUME NEW w \in Workers, NEW i \in Jobs, Claim(w, i) PROVE Goal
    <2>1. CASE i = j
      BY <1>1, <1>4, <2>1 DEF Claim, JobRow
    <2>2. CASE i # j
      BY <1>1, <1>4, <2>2 DEF Claim
    <2> QED BY <2>1, <2>2
  <1>5. ASSUME NEW w \in Workers, ClaimNothing(w) PROVE Goal
    BY <1>1, <1>5 DEF ClaimNothing
  <1>6. ASSUME NEW w \in Workers, Beat(w) PROVE Goal
    BY <1>0, <1>6 DEF Beat, JobRow
  <1>7. ASSUME NEW w \in Workers, FinishWrite(w) PROVE Goal
    BY <1>0, <1>7 DEF FinishWrite, JobRow
  <1>8. ASSUME NEW i \in Jobs, BackoffElapses(i) PROVE Goal
    BY <1>0, <1>8 DEF BackoffElapses, JobRow
  <1>9. CASE Tick
    <2>1. job'[j] = [job[j] EXCEPT !.left = Lapsed(@)]
      BY <1>9 DEF Tick
    <2> QED BY <1>0, <2>1 DEF JobRow
  <1>10. CASE job' = job
    BY <1>10
  <1> QED
    BY <1>2, <1>3, <1>4, <1>5, <1>6, <1>7, <1>8, <1>9, <1>10
    DEF Next, Request, Work, Fault, StartLookup, CancelLookup, CancelCommit,
        Toggle, Purge, LoadScan, MarkScan, RunScan, PersistScan, LoadTest,
        VerifyTest, StopHeartbeat, FinishRead, WatchCancellation, Raise,
        HeartbeatDies, Crash, Restart, vars

\* A worker lets go of a job only when _finish commits or it stops.
LEMMA LettingGo ==
  ASSUME TypeOK, [Next]_vars, NEW w \in Workers, Active(w)
  PROVE  \/ Active(w)' /\ worker'[w].job = worker[w].job
         \/ FinishWrite(w)
         \/ Crash(w)
  <1> DEFINE Same == Active(w)' /\ worker'[w].job = worker[w].job
  <1>0. worker \in [Workers -> WorkerRecord]
    BY TypeOKRecords DEF Typed
  <1> USE <1>0 DEF Active
  <1>1. CASE worker'[w] = worker[w]
    BY <1>1
  <1>2. CASE ClaimNothing(w) \/ Restart(w) \/ \E j \in Jobs : Claim(w, j)
    BY <1>1, <1>2 DEF ClaimNothing, Restart, Claim, Beating, Finishing
  <1>3. CASE LoadScan(w) \/ MarkScan(w) \/ LoadTest(w)
    BY <1>3 DEF LoadScan, MarkScan, LoadTest, Leave, Beating, WorkerRecord
  <1>4. CASE \E outcome \in Outcomes \cup {"cancelled"} : RunScan(w, outcome)
    BY <1>4 DEF RunScan, Beating, WorkerRecord
  <1>5. CASE PersistScan(w) \/ VerifyTest(w) \/ Raise(w)
    BY <1>5 DEF PersistScan, VerifyTest, Raise, Leave, Beating, WorkerRecord
  <1>6. CASE StopHeartbeat(w) \/ FinishRead(w)
    BY <1>6 DEF StopHeartbeat, FinishRead, Beating, Finishing, WorkerRecord
  <1>7. CASE WatchCancellation(w) \/ Beat(w) \/ HeartbeatDies(w)
    BY <1>7 DEF WatchCancellation, Beat, HeartbeatDies, WorkerRecord
  <1>8. CASE Tick
    BY <1>8 DEF Tick, WorkerRecord
  <1>9. ASSUME NEW v \in Workers, v # w, StepOf(v)
        PROVE  worker'[w] = worker[w]
    BY <1>9, OthersUntouched
  <1>10. CASE Request \/ (\E j \in Jobs : BackoffElapses(j)) \/ UNCHANGED vars
    BY <1>10 DEF Request, StartLookup, StartCommit, CancelLookup, CancelCommit,
       Toggle, Purge, EnqueueTest, BackoffElapses, vars
  <1> QED
    BY <1>1, <1>2, <1>3, <1>4, <1>5, <1>6, <1>7, <1>8, <1>9, <1>10
    DEF Next, StepOf, Work, Fault

\* A worker comes to the end of _finish by reading the row.
LEMMA ReadBefore ==
  ASSUME TypeOK, [Next]_vars, NEW w \in Workers, worker'[w].pc = "settle",
         ~FinishRead(w)
  PROVE  worker[w].pc = "settle" /\ worker'[w].tries = worker[w].tries
  <1>0. worker \in [Workers -> WorkerRecord]
    BY TypeOKRecords DEF Typed
  <1> USE <1>0
  <1>1. CASE worker'[w] = worker[w]
    BY <1>1
  <1>2. CASE \E j \in Jobs : Claim(w, j)
    BY <1>2 DEF Claim, Idle
  <1>3. CASE LoadScan(w) \/ MarkScan(w) \/ LoadTest(w)
    BY <1>3 DEF LoadScan, MarkScan, LoadTest, Leave, WorkerRecord
  <1>4. CASE \E outcome \in Outcomes \cup {"cancelled"} : RunScan(w, outcome)
    BY <1>4 DEF RunScan, WorkerRecord
  <1>5. CASE PersistScan(w) \/ VerifyTest(w) \/ Raise(w) \/ StopHeartbeat(w)
    BY <1>5 DEF PersistScan, VerifyTest, Raise, StopHeartbeat, Leave, WorkerRecord
  <1>6. CASE FinishWrite(w) \/ Crash(w) \/ Restart(w)
    BY <1>6 DEF FinishWrite, Crash, Restart, Off, Idle
  <1>7. CASE WatchCancellation(w) \/ Beat(w) \/ HeartbeatDies(w)
    BY <1>7 DEF WatchCancellation, Beat, HeartbeatDies, WorkerRecord
  <1>8. CASE Tick
    BY <1>8 DEF Tick, WorkerRecord
  <1>9. ASSUME NEW v \in Workers, v # w, StepOf(v)
        PROVE  worker'[w] = worker[w]
    BY <1>9, OthersUntouched
  <1>10. CASE Request \/ (\E j \in Jobs : BackoffElapses(j))
              \/ ClaimNothing(w) \/ UNCHANGED vars
    BY <1>10 DEF Request, StartLookup, StartCommit, CancelLookup, CancelCommit,
       Toggle, Purge, EnqueueTest, BackoffElapses, ClaimNothing, vars
  <1> QED
    BY <1>1, <1>2, <1>3, <1>4, <1>5, <1>6, <1>7, <1>8, <1>9, <1>10
    DEF Next, StepOf, Work, Fault

\* A worker that has left its scan without an error goes on doing so until
\* _finish commits, if it does not stop and its heartbeat is alive.
LEMMA StillLeaving ==
  ASSUME TypeOK, [Next]_vars, faults' = faults, NEW w \in Workers,
         worker[w].pc \in Leaving, ~worker[w].err,
         worker[w].pc = "stop" => worker[w].beat = "on",
         ~FinishWrite(w), ~Crash(w)
  PROVE  /\ worker'[w].pc \in Leaving
         /\ worker'[w].job = worker[w].job
         /\ ~worker'[w].err
  <1>0. worker \in [Workers -> WorkerRecord] /\ faults \in Nat
    BY TypeOKRecords DEF Typed
  <1> USE <1>0 DEF Leaving, Finishing
  <1>1. CASE worker'[w] = worker[w]
    BY <1>1
  <1>2. ASSUME \/ ClaimNothing(w) \/ Restart(w) \/ \E j \in Jobs : Claim(w, j)
               \/ LoadScan(w) \/ MarkScan(w) \/ LoadTest(w)
               \/ \E outcome \in Outcomes \cup {"cancelled"} : RunScan(w, outcome)
               \/ PersistScan(w) \/ VerifyTest(w) \/ WatchCancellation(w)
        PROVE  FALSE
    BY <1>2 DEF ClaimNothing, Restart, Claim, LoadScan, MarkScan, LoadTest,
       RunScan, PersistScan, VerifyTest, WatchCancellation
  <1>3. ~Raise(w) /\ ~HeartbeatDies(w)
    <2>1. ~HeartbeatDies(w)
      <3>1. \A n \in Nat : n # n + 1
        OBVIOUS
      <3>2. HeartbeatDies(w) => faults' = faults + 1
        BY Zenon DEF HeartbeatDies
      <3> QED BY <3>1, <3>2
    <2> QED BY <2>1 DEF Raise, Beating
  <1>4. CASE StopHeartbeat(w)
    BY <1>4 DEF StopHeartbeat, WorkerRecord
  <1>5. CASE FinishRead(w)
    BY <1>5 DEF FinishRead, WorkerRecord
  <1>6. CASE Beat(w) \/ Tick
    BY <1>6 DEF Beat, Tick, WorkerRecord
  <1>7. ASSUME NEW v \in Workers, v # w, StepOf(v)
        PROVE  worker'[w] = worker[w]
    BY <1>7, OthersUntouched
  <1>8. CASE Request \/ (\E j \in Jobs : BackoffElapses(j)) \/ UNCHANGED vars
    BY <1>8 DEF Request, StartLookup, StartCommit, CancelLookup, CancelCommit,
       Toggle, Purge, EnqueueTest, BackoffElapses, vars
  <1> QED
    BY <1>1, <1>2, <1>3, <1>4, <1>5, <1>6, <1>7, <1>8
    DEF Next, StepOf, Work, Fault

\* What _finish writes of a kept claim: its own verdict, for the attempts that
\* are in the row.
LEMMA FinishOfKept ==
  ASSUME TypeOK, NEW w \in Workers, worker[w].job \in Jobs, Kept(w),
         FinishWrite(w)
  PROVE  /\ job'[worker[w].job].status = FinishStatus(w)
         /\ job'[worker[w].job].attempts = job[worker[w].job].attempts
  <1>1. job \in [Jobs -> JobRow]
    BY TypeOKRecords DEF Typed
  <1>2. worker[w].seen = "running" /\ FinishStatus(w) # "running"
    BY DEF Kept, FinishWrite, FinishStatus
  <1> QED BY <1>1, <1>2 DEF FinishWrite, JobRow

(***************************************************************************)
(* Attempts is inductive.                                                  *)
(***************************************************************************)
\* A job that becomes free, or is free and stays so, can be claimed again.
LEMMA FreeStays ==
  ASSUME IInv, Attempts, [Next]_vars, faults' = 0, NEW j \in Jobs, Free(j)',
         job'[j].attempts = job[j].attempts
  PROVE  job[j].attempts < MaxAttempts + crashes'
  <1>0. /\ TypeOK /\ WorkerSound /\ Origin /\ faults = 0
        /\ job[j].attempts \in Nat /\ MaxAttempts \in Nat /\ crashes \in Nat
    BY FaultsOnlyGrow, TypeOKRecords, ScanJobsAssumption DEF IInv, Typed, JobRow
  <1>1. crashes' >= crashes
    BY <1>0, CrashesOnlyGrow
  <1>2. CASE Free(j)
    BY <1>0, <1>1, <1>2, CrashesOnlyGrow DEF Attempts
  <1>3. CASE job[j].status \in {"completed", "failed"}
    BY <1>3, FinalJobStep DEF Free
  <1>4. ASSUME NEW w \in Workers, Active(w), worker[w].job = j
        PROVE  job[j].attempts < MaxAttempts + crashes'
    <2>1. Kept(w) /\ job[j].attempts <= MaxAttempts + crashes
      BY <1>0, <1>4 DEF IInv, Claims, Attempts
    <2>2. FinishWrite(w) \/ Crash(w)
      BY <1>0, <1>4, LettingGo DEF Free
    <2>3. CASE Crash(w)
      BY <1>0, <2>1, <2>3 DEF Crash
    <2>4. CASE FinishWrite(w)
      <3>1. FinishStatus(w) \notin {"completed", "failed"}
        BY <1>0, <1>4, <2>1, <2>4, FinishOfKept DEF Free
      <3>2. worker[w].tries < MaxAttempts
        BY <3>1 DEF FinishStatus
      <3>3. worker[w].tries = job[j].attempts
        BY <1>0, <1>4, <2>4 DEF Attempts, FinishWrite
      <3> QED BY <1>0, <1>1, <3>2, <3>3, CrashesOnlyGrow
    <2> QED BY <2>2, <2>3, <2>4
  <1> QED BY <1>2, <1>3, <1>4 DEF Free

\* Every step keeps the bound: a claim takes a job that is free, and whoever
\* makes a job free again has crashed or has found attempts left.
LEMMA AttemptsStay ==
  IInv /\ Attempts /\ [Next]_vars => Attempts'
  <1> SUFFICES ASSUME IInv, Attempts, [Next]_vars, faults' = 0
               PROVE  /\ \A j \in Jobs :
                           /\ job'[j].attempts <= MaxAttempts + crashes'
                           /\ Free(j)' => job'[j].attempts < MaxAttempts + crashes'
                      /\ \A w \in Workers :
                           worker'[w].pc = "settle"
                             => worker'[w].tries = job'[worker'[w].job].attempts
    BY DEF Attempts
  <1>0. /\ TypeOK /\ WorkerSound /\ Origin /\ faults = 0
        /\ worker \in [Workers -> WorkerRecord]
        /\ job \in [Jobs -> JobRow]
        /\ MaxAttempts \in Nat \ {0} /\ crashes \in Nat
    BY FaultsOnlyGrow, TypeOKRecords, ScanJobsAssumption DEF IInv, Typed
  <1>1. crashes' \in Nat /\ crashes' >= crashes
    BY <1>0, CrashesOnlyGrow
  <1>2. ASSUME NEW j \in Jobs
        PROVE  /\ job'[j].attempts <= MaxAttempts + crashes'
               /\ Free(j)' => job'[j].attempts < MaxAttempts + crashes'
    <2>0. job[j].attempts \in Nat /\ job[j].attempts <= MaxAttempts + crashes
      BY <1>0 DEF Attempts, JobRow
    <2>1. CASE job'[j].attempts = job[j].attempts
      <3>1. job'[j].attempts <= MaxAttempts + crashes'
        BY <1>0, <1>1, <2>0, <2>1
      <3> QED BY <2>1, <3>1, FreeStays
    <2>2. CASE job'[j].attempts = 0
      BY <1>0, <1>1, <2>2
    <2>3. ASSUME NEW w \in Workers, Claim(w, j),
                 job'[j].attempts = job[j].attempts + 1
          PROVE  /\ job'[j].attempts <= MaxAttempts + crashes'
                 /\ Free(j)' => job'[j].attempts < MaxAttempts + crashes'
      <3>1. job[j].status \notin {"completed", "failed"}
        BY <1>0, <2>3, ReapedRow DEF Claim, Claimable
      <3>2. \A v \in Workers : Active(v) => worker[v].job # j
        BY <1>0, <2>3, KeptIsNotClaimable DEF IInv, Claims, WorkerSound, Claim
      <3>3. job[j].attempts < MaxAttempts + crashes
        BY <1>0, <3>1, <3>2 DEF Free, Attempts
      <3>4. worker'[w].job = j /\ worker'[w].pc = "load"
        BY <1>0, <2>3 DEF Claim, Idle
      <3>5. ~Free(j)'
        BY <3>4 DEF Free, Active, Beating
      <3> QED BY <1>0, <1>1, <2>0, <2>3, <3>3, <3>5
    <2> QED BY <1>0, <2>1, <2>2, <2>3, AttemptsStep
  <1>3. ASSUME NEW w \in Workers, worker'[w].pc = "settle"
        PROVE  worker'[w].tries = job'[worker'[w].job].attempts
    <2> DEFINE J == worker[w].job
    <2>1. ~\E j \in Jobs : Claim(w, j)
      BY <1>0, <1>3 DEF Claim, Idle
    <2>2. Active(w) /\ worker'[w].job = J
      BY <1>0, <1>3, <2>1, SameJob DEF Active, Finishing
    <2>3. J \in Jobs /\ Kept(w)
      BY <1>0, <2>2 DEF IInv, Claims, WorkerSound
    <2>4. job'[J].attempts = job[J].attempts
      <3>1. J \notin Claimable /\ job[J].status # "absent"
        BY <1>0, <2>3, KeptIsNotClaimable DEF Kept
      <3> QED BY <1>0, <2>3, <3>1, AttemptsStep DEF Claim
    <2>5. worker'[w].tries = job[J].attempts
      <3>1. CASE FinishRead(w)
        BY <1>0, <3>1 DEF FinishRead, WorkerRecord
      <3>2. CASE ~FinishRead(w)
        <4>1. worker[w].pc = "settle" /\ worker'[w].tries = worker[w].tries
          BY <1>0, <1>3, <2>2, <3>2, ReadBefore
        <4> QED BY <1>0, <4>1 DEF Attempts
      <3> QED BY <3>1, <3>2
    <2> QED BY <2>2, <2>4, <2>5
  <1> QED BY <1>2, <1>3

(***************************************************************************)
(* SavedIsPersisted is inductive.                                          *)
(***************************************************************************)
\* If nothing has failed after a step nothing has failed before it.
LEMMA StillNoFault ==
  ASSUME IInv, [Next]_vars, crashes' + faults' = 0
  PROVE  crashes = 0 /\ faults = 0 /\ crashes' = 0 /\ faults' = 0
  <1>1. TypeOK'
    BY TypeStays DEF IInv
  <1>2. /\ crashes \in Nat /\ faults \in Nat
        /\ crashes' \in Nat /\ faults' \in Nat
    BY <1>1 DEF IInv, TypeOK
  <1>3. crashes' = 0 /\ faults' = 0
    <2>1. \A m, n \in Nat : m + n = 0 => m = 0 /\ n = 0
      OBVIOUS
    <2> QED BY <1>2, <2>1
  <1> QED BY <1>2, <1>3, FaultsOnlyGrow, CrashesOnlyGrow DEF IInv

\* A worker that has left a scan without an error completes its job, unless it
\* or a heartbeat stops.
LEMMA PersistedStays ==
  ASSUME IInv, [Next]_vars, crashes' + faults' = 0, NEW s \in Scans,
         Persisted(s)
  PROVE  Persisted(s)'
  <1>0. /\ TypeOK /\ WorkerSound /\ s \in Jobs
        /\ worker \in [Workers -> WorkerRecord]
    BY TypeOKRecords DEF IInv, Typed, Jobs
  <1>1. crashes = 0 /\ crashes' = 0 /\ faults = 0 /\ faults' = 0
    BY StillNoFault
  <1>2. CASE job[s].status = "completed"
    BY <1>0, <1>1, <1>2, FinalJobStep DEF Persisted
  <1>3. ASSUME NEW w \in Workers, worker[w].pc \in Leaving, worker[w].job = s,
               ~worker[w].err
        PROVE  Persisted(s)'
    <2>1. Active(w) /\ Kept(w)
      BY <1>0, <1>1, <1>3 DEF IInv, Claims, Active, Leaving, Beating, Finishing
    <2>2. CASE Crash(w)
      BY <1>0, <1>1, <2>2 DEF Crash
    <2>3. CASE FinishWrite(w)
      <3>1. job'[s].status = FinishStatus(w)
        BY <1>0, <1>3, <2>1, <2>3, FinishOfKept
      <3> QED BY <1>3, <3>1 DEF FinishStatus, Persisted
    <2>4. CASE ~Crash(w) /\ ~FinishWrite(w)
      <3>1. /\ worker'[w].pc \in Leaving
            /\ worker'[w].job = s
            /\ ~worker'[w].err
        BY <1>0, <1>1, <1>3, <2>1, <2>4, StillLeaving DEF Kept, Beating
      <3> QED BY <3>1 DEF Persisted
    <2> QED BY <2>2, <2>3, <2>4
  <1> QED BY <1>2, <1>3 DEF Persisted

\* A result that becomes known was persisted by a worker that leaves.
LEMMA SavedStep ==
  ASSUME IInv, [Next]_vars, NEW s \in Scans, scan'[s].saved, ~scan[s].saved
  PROVE  \E w \in Workers : /\ worker'[w].pc \in Leaving
                            /\ worker'[w].job = s
                            /\ ~worker'[w].err
  <1>0. /\ scan \in [Scans -> ScanRow]
        /\ worker \in [Workers -> WorkerRecord]
    BY TypeOKRecords DEF IInv, Typed
  <1>1. ASSUME NEW c \in Clients, StartCommit(c) PROVE FALSE
    BY <1>0, <1>1 DEF StartCommit, NewScan
  <1>2. ASSUME NEW c \in Clients, CancelCommit(c) PROVE FALSE
    BY <1>0, <1>2 DEF CancelCommit, ScanRow
  <1>3. CASE Purge
    BY <1>3 DEF Purge, NoScan
  <1>4. ASSUME NEW w \in Workers, MarkScan(w) PROVE FALSE
    BY <1>0, <1>4 DEF MarkScan, ScanRow
  <1>5. ASSUME NEW w \in Workers, PersistScan(w)
        PROVE  /\ worker'[w].pc \in Leaving
               /\ worker'[w].job = s
               /\ ~worker'[w].err
    <2>1. connection # "purged" /\ worker[w].job = s
      BY <1>0, <1>5 DEF PersistScan
    <2>2. Leave(w, FALSE)
      BY <1>5, <2>1 DEF PersistScan
    <2> QED BY <1>0, <2>1, <2>2 DEF Leave, Leaving, WorkerRecord
  <1>6. CASE scan' = scan
    BY <1>6
  <1> QED
    BY <1>1, <1>2, <1>3, <1>4, <1>5, <1>6
    DEF Next, Request, Work, Fault, StartLookup, CancelLookup, Toggle,
        EnqueueTest, Claim, ClaimNothing, LoadScan, WatchCancellation,
        RunScan, LoadTest, VerifyTest, Raise, Beat, HeartbeatDies,
        StopHeartbeat, FinishRead, FinishWrite, Crash, Restart,
        BackoffElapses, Tick, vars

\* Every step keeps a saved scan from being executed once more.
LEMMA SavedStays ==
  IInv /\ SavedIsPersisted /\ [Next]_vars => SavedIsPersisted'
  <1> SUFFICES ASSUME IInv, SavedIsPersisted, [Next]_vars,
                      crashes' + faults' = 0, NEW s \in Scans, scan'[s].saved
               PROVE  Persisted(s)'
    BY DEF SavedIsPersisted
  <1>1. crashes + faults = 0
    BY StillNoFault
  <1>2. CASE scan[s].saved
    BY <1>1, <1>2, PersistedStays DEF SavedIsPersisted
  <1>3. CASE ~scan[s].saved
    BY <1>3, SavedStep DEF Persisted
  <1> QED BY <1>2, <1>3
-----------------------------------------------------------------------------
(***************************************************************************)
(* The theorems.                                                           *)
(***************************************************************************)
\* While heartbeats live, a job is claimed at most max_attempts times and once
\* more for every worker that stopped.
THEOREM ClaimsAreBounded == Spec => []AttemptsBounded
  <1>1. Init => Attempts
    BY ScanJobsAssumption DEF Init, Attempts, NoJobRow, Idle
  <1>2. IInv /\ Attempts => AttemptsBounded
    BY DEF Attempts, AttemptsBounded
  <1> QED BY <1>1, <1>2, AttemptsStay, Inductive, PTL DEF Spec

\* Unless a worker stops or a heartbeat dies, no scan whose result is in the
\* database is ever executed again.
THEOREM NoNeedlessRepeat == Spec => []NoRepeatWithoutFault
  <1>1. Init => SavedIsPersisted
    BY DEF Init, SavedIsPersisted, NoScan
  <1>2. IInv /\ SavedIsPersisted => NoRepeatWithoutFault
    <2> SUFFICES ASSUME IInv, SavedIsPersisted, ~(crashes + faults > 0),
                        NEW w \in Workers, worker[w].pc \in Scanning,
                        scan[worker[w].job].saved
                 PROVE  FALSE
      BY DEF NoRepeatWithoutFault, Scanning
    <2> DEFINE s == worker[w].job
    <2>0. crashes + faults = 0 /\ faults = 0
      BY DEF IInv, TypeOK
    <2>1. Active(w) /\ s \in Scans
      BY DEF IInv, WorkerSound, Active, Beating, Scanning
    <2>4. Persisted(s)
      BY <2>0, <2>1 DEF SavedIsPersisted
    <2> HIDE DEF s
    <2>2. CASE job[s].status = "completed"
      BY <2>0, <2>1, <2>2 DEF IInv, Claims, Kept, s
    <2>3. ASSUME NEW v \in Workers, worker[v].pc \in Leaving, worker[v].job = s
          PROVE  FALSE
      <3>1. Active(v)
        BY <2>3 DEF Active, Leaving, Beating, Finishing
      <3>2. v = w
        BY <2>0, <2>1, <2>3, <3>1 DEF IInv, Claims, s
      <3> QED BY <2>3, <3>2 DEF Leaving, Finishing, Scanning
    <2> QED BY <2>2, <2>3, <2>4 DEF Persisted
  <1> QED BY <1>1, <1>2, SavedStays, Inductive, PTL DEF Spec
-----------------------------------------------------------------------------
(***************************************************************************)
(* What a request can rely on, whatever fails.                             *)
(***************************************************************************)
\* Until its result is persisted, a scan that was asked for with a key exists
\* and has the key in its row, where the next request with that key looks.
KeyHeld ==
  \A s \in Scans : scan[s].asked # NoKey /\ ~scan[s].saved
                     => Exists(s) /\ scan[s].key = scan[s].asked

\* Only the row of a scan that exists is flagged.
FlagHasScan == \A s \in Scans : scan[s].cancel => Exists(s)

\* What can become of the row of a scan in a step: nothing, its deletion, its
\* creation for a key that is free, a new status or flag, or its result.
RowStep(s) ==
  \/ scan'[s] = scan[s]
  \/ scan'[s] = NoScan
  \/ \E c \in Clients : /\ StartCommit(c) /\ client[c].scan = s
                        /\ ~KeyTaken(client[c].key)
                        /\ scan' = [scan EXCEPT ![s] = NewScan(client[c].key)]
  \/ /\ Exists(s) /\ scan'[s].status # "absent"
     /\ scan'[s].key = scan[s].key /\ scan'[s].asked = scan[s].asked
     /\ scan'[s].saved = scan[s].saved
     /\ scan[s].cancel => scan'[s].cancel
  \/ /\ scan'[s].status # "absent" /\ scan'[s].saved
     /\ scan'[s].asked = scan[s].asked
     /\ scan'[s].cancel = scan[s].cancel

\* Nothing else does.
LEMMA ScanStep ==
  ASSUME TypeOK, WorkerSound, [Next]_vars, NEW s \in Scans
  PROVE  RowStep(s)
  <1>0. scan \in [Scans -> ScanRow]
    BY TypeOKRecords DEF Typed
  <1> USE DEF RowStep
  <1>1. CASE scan'[s] = scan[s]
    BY <1>1
  <1>2. ASSUME NEW c \in Clients, StartCommit(c) PROVE RowStep(s)
    BY <1>0, <1>2 DEF StartCommit
  <1>3. ASSUME NEW c \in Clients, CancelCommit(c) PROVE RowStep(s)
    <2>1. CASE client[c].scan # s \/ ~Exists(s)
      BY <1>0, <1>1, <1>3, <2>1 DEF CancelCommit
    <2>2. CASE client[c].scan = s /\ Exists(s)
      <3>1. scan' = [scan EXCEPT
                       ![s].cancel = TRUE,
                       ![s].status = IF client[c].seen = "queued"
                                     THEN "cancelled" ELSE @]
        BY <1>3, <2>2 DEF CancelCommit
      <3>2. /\ scan'[s].key = scan[s].key /\ scan'[s].asked = scan[s].asked
            /\ scan'[s].saved = scan[s].saved /\ scan'[s].cancel
            /\ scan'[s].status \in {"cancelled", scan[s].status}
        BY <1>0, <3>1 DEF ScanRow
      <3> QED BY <2>2, <3>2 DEF Exists
    <2> QED BY <2>1, <2>2
  <1>4. CASE Purge
    BY <1>4 DEF Purge
  <1>5. ASSUME NEW w \in Workers, MarkScan(w) PROVE RowStep(s)
    <2>1. CASE worker[w].job # s \/ ~Exists(s)
      BY <1>0, <1>1, <1>5, <2>1 DEF MarkScan
    <2>2. CASE worker[w].job = s /\ Exists(s) /\ scan'[s] # scan[s]
      <3>1. PICK target \in {"cancelled", "running"} :
              scan' = [scan EXCEPT ![s].status = target]
        BY <1>5, <2>2 DEF MarkScan
      <3> QED BY <1>0, <2>2, <3>1 DEF ScanRow
    <2> QED BY <1>1, <2>1, <2>2
  <1>6. ASSUME NEW w \in Workers, PersistScan(w) PROVE RowStep(s)
    <2>1. CASE worker[w].job # s \/ connection = "purged"
      BY <1>0, <1>1, <1>6, <2>1 DEF PersistScan
    <2>2. CASE worker[w].job = s /\ connection # "purged"
      <3>1. worker[w].seen # "absent"
        BY <1>6 DEF PersistScan, WorkerSound, Terminal
      <3>2. scan' = [scan EXCEPT ![s].status = worker[w].seen,
                                 ![s].key = NoKey, ![s].saved = TRUE]
        BY <1>6, <2>2 DEF PersistScan
      <3> QED BY <1>0, <3>1, <3>2 DEF ScanRow
    <2> QED BY <2>1, <2>2
  <1>7. CASE scan' = scan
    BY <1>7
  <1> QED
    BY <1>1, <1>2, <1>3, <1>4, <1>5, <1>6, <1>7
    DEF Next, Request, Work, Fault, StartLookup, CancelLookup, Toggle,
        EnqueueTest, Claim, ClaimNothing, LoadScan, WatchCancellation,
        RunScan, LoadTest, VerifyTest, Raise, Beat, HeartbeatDies,
        StopHeartbeat, FinishRead, FinishWrite, Crash, Restart,
        BackoffElapses, Tick, vars

\* Every step keeps both invariants.
LEMMA RowsStay ==
  ASSUME TypeOK, WorkerSound, [Next]_vars
  PROVE  /\ KeyHeld => KeyHeld'
         /\ FlagHasScan => FlagHasScan'
  <1>0. scan \in [Scans -> ScanRow]
    BY TypeOKRecords DEF Typed
  <1>1. ASSUME NEW s \in Scans, scan'[s] = NoScan
        PROVE  scan'[s].asked = NoKey /\ ~scan'[s].cancel
    BY <1>1 DEF NoScan
  <1>2. ASSUME NEW s \in Scans, NEW k, scan' = [scan EXCEPT ![s] = NewScan(k)]
        PROVE  /\ scan'[s].status # "absent" /\ scan'[s].key = scan'[s].asked
               /\ ~scan'[s].cancel
    BY <1>0, <1>2 DEF NewScan
  <1>3. ASSUME KeyHeld, NEW s \in Scans, scan'[s].asked # NoKey, ~scan'[s].saved
        PROVE  Exists(s)' /\ scan'[s].key = scan'[s].asked
    BY <1>1, <1>2, <1>3, ScanStep DEF RowStep, KeyHeld, Exists
  <1>4. ASSUME FlagHasScan, NEW s \in Scans, scan'[s].cancel
        PROVE  Exists(s)'
    BY <1>1, <1>2, <1>4, ScanStep DEF RowStep, FlagHasScan, Exists
  <1> QED BY <1>3, <1>4 DEF KeyHeld, FlagHasScan

(***************************************************************************)
(* Keys.                                                                   *)
(***************************************************************************)
\* A scan that is made with a key is the only open one with it.
LEMMA KeysStay ==
  ASSUME TypeOK, WorkerSound, KeyHeld, KeyNamesOneOpenScan, [Next]_vars
  PROVE  KeyNamesOneOpenScan'
  <1> SUFFICES ASSUME NEW s \in Scans, NEW r \in Scans, s # r,
                      scan'[s].asked = scan'[r].asked, scan'[s].asked # NoKey,
                      ~scan'[s].saved, ~scan'[r].saved
               PROVE  FALSE
    BY DEF KeyNamesOneOpenScan
  <1>0. scan \in [Scans -> ScanRow]
    BY TypeOKRecords DEF Typed
  <1>1. ASSUME NEW x \in Scans, NEW y \in Scans, x # y, NEW c \in Clients,
               client[c].scan = x, ~KeyTaken(client[c].key),
               scan' = [scan EXCEPT ![x] = NewScan(client[c].key)],
               scan'[x].asked = scan'[y].asked, scan'[x].asked # NoKey,
               ~scan'[y].saved
        PROVE  FALSE
    <2>1. scan'[x].asked = client[c].key /\ scan'[y] = scan[y]
      BY <1>0, <1>1 DEF NewScan
    <2>2. Exists(y) /\ scan[y].key = client[c].key
      BY <1>1, <2>1 DEF KeyHeld
    <2> QED BY <1>1, <2>1, <2>2 DEF KeyTaken
  <1>2. \A x \in {s, r} : \/ scan'[x].asked = scan[x].asked
                             /\ scan'[x].saved = scan[x].saved
                          \/ \E c \in Clients :
                               /\ client[c].scan = x
                               /\ ~KeyTaken(client[c].key)
                               /\ scan' = [scan EXCEPT ![x] = NewScan(client[c].key)]
    BY ScanStep DEF RowStep, NoScan
  <1>3. CASE \A x \in {s, r} : scan'[x].asked = scan[x].asked
                                /\ scan'[x].saved = scan[x].saved
    BY <1>3 DEF KeyNamesOneOpenScan
  <1> QED BY <1>1, <1>2, <1>3

(***************************************************************************)
(* Cancellation.                                                           *)
(***************************************************************************)
\* A worker that may execute a flagged scan without knowing did so before.
LEMMA UnawareBefore ==
  ASSUME TypeOK, [Next]_vars, NEW w \in Workers, NEW s \in Scans,
         scan[s].cancel, Unaware(w, s)'
  PROVE  Unaware(w, s)
  <1>0. worker \in [Workers -> WorkerRecord]
    BY TypeOKRecords DEF Typed
  <1> USE <1>0 DEF Unaware
  <1>1. CASE worker'[w] = worker[w]
    BY <1>1
  <1>2. CASE \E j \in Jobs : Claim(w, j)
    BY <1>2 DEF Claim, Idle
  <1>3. CASE LoadScan(w)
    <2>1. CASE Leave(w, TRUE)
      BY <2>1 DEF Leave, WorkerRecord
    <2>2. CASE ~Leave(w, TRUE)
      <3>1. worker' = [worker EXCEPT ![w].pc = "mark",
                                     ![w].cancel = StopRequested(worker[w].job),
                                     ![w].seen = scan[worker[w].job].status]
        BY <1>3, <2>2 DEF LoadScan
      <3>2. /\ worker'[w].pc = "mark" /\ worker'[w].job = worker[w].job
            /\ worker'[w].cancel = scan[worker[w].job].cancel
        BY <3>1 DEF WorkerRecord, StopRequested
      <3> QED BY <3>2
    <2> QED BY <2>1, <2>2
  <1>4. CASE MarkScan(w)
    BY <1>4 DEF MarkScan, Leave, WorkerRecord
  <1>5. CASE \E outcome \in Outcomes \cup {"cancelled"} : RunScan(w, outcome)
    BY <1>5 DEF RunScan, WorkerRecord
  <1>6. CASE LoadTest(w) \/ PersistScan(w) \/ VerifyTest(w) \/ Raise(w)
    BY <1>6 DEF LoadTest, PersistScan, VerifyTest, Raise, Leave, WorkerRecord
  <1>7. CASE StopHeartbeat(w) \/ FinishRead(w)
    BY <1>7 DEF StopHeartbeat, FinishRead, WorkerRecord
  <1>8. CASE FinishWrite(w) \/ Crash(w) \/ Restart(w)
    BY <1>8 DEF FinishWrite, Crash, Restart, Off, Idle
  <1>9. CASE WatchCancellation(w) \/ Beat(w) \/ HeartbeatDies(w)
    BY <1>9 DEF WatchCancellation, Beat, HeartbeatDies, WorkerRecord
  <1>10. CASE Tick
    BY <1>10 DEF Tick, WorkerRecord
  <1>11. ASSUME NEW v \in Workers, v # w, StepOf(v)
         PROVE  worker'[w] = worker[w]
    BY <1>11, OthersUntouched
  <1>12. CASE Request \/ (\E j \in Jobs : BackoffElapses(j))
              \/ ClaimNothing(w) \/ UNCHANGED vars
    BY <1>12 DEF Request, StartLookup, StartCommit, CancelLookup, CancelCommit,
       Toggle, Purge, EnqueueTest, BackoffElapses, ClaimNothing, vars
  <1> QED
    BY <1>1, <1>2, <1>3, <1>4, <1>5, <1>6, <1>7, <1>8, <1>9, <1>10, <1>11, <1>12
    DEF Next, StepOf, Work, Fault

\* A flag goes only with its scan: a scan that exists is not created anew.
LEMMA FlagStays ==
  ASSUME TypeOK, WorkerSound, Origin, FlagHasScan, [Next]_vars,
         NEW s \in Scans, scan[s].cancel, Exists(s)'
  PROVE  scan'[s].cancel
  <1>1. scan'[s] # NoScan
    BY DEF Exists, NoScan
  <1>2. ASSUME NEW c \in Clients, StartCommit(c), client[c].scan = s
        PROVE  FALSE
    <2>1. job[s].status = "absent"
      BY <1>2 DEF Origin, StartCommit
    <2>2. job[s].status # "absent"
      BY DEF FlagHasScan, Origin
    <2> QED BY <2>1, <2>2
  <1> QED BY <1>1, <1>2, ScanStep DEF RowStep
-----------------------------------------------------------------------------
(***************************************************************************)
(* The theorems.                                                           *)
(***************************************************************************)
LEMMA RowsSound == Spec => [](KeyHeld /\ FlagHasScan)
  <1>1. Init => KeyHeld /\ FlagHasScan
    BY DEF Init, KeyHeld, FlagHasScan, NoScan
  <1>2. IInv /\ KeyHeld /\ FlagHasScan /\ [Next]_vars
          => KeyHeld' /\ FlagHasScan'
    BY RowsStay DEF IInv
  <1> QED BY <1>1, <1>2, Inductive, PTL DEF Spec

\* However requests and workers interleave and whatever stops, of the scans
\* made for one Idempotency-Key at most one has no persisted result.
THEOREM KeyIsForOneScan == Spec => []KeyNamesOneOpenScan
  <1>1. Init => KeyNamesOneOpenScan
    BY DEF Init, KeyNamesOneOpenScan, NoScan
  <1>2. IInv /\ KeyHeld /\ KeyNamesOneOpenScan /\ [Next]_vars
          => KeyNamesOneOpenScan'
    BY KeysStay DEF IInv
  <1> QED BY <1>1, <1>2, RowsSound, Inductive, PTL DEF Spec

\* Once no worker has read past a cancellation none ever executes the scan, for
\* any number of retries, reclaims, restarts and heartbeats that died.
THEOREM CancellationHolds == Spec => CancelledStaysUnexecuted
  <1>1. IInv /\ FlagHasScan /\ [Next]_vars
          => [\A s \in Scans : CancelSettled(s) /\ Exists(s)'
                                 => CancelSettled(s)']_vars
    <2> SUFFICES ASSUME IInv, FlagHasScan, [Next]_vars, NEW s \in Scans,
                        CancelSettled(s), Exists(s)'
                 PROVE  CancelSettled(s)'
      OBVIOUS
    <2>1. scan'[s].cancel
      BY FlagStays DEF IInv, CancelSettled
    <2>2. ASSUME NEW w \in Workers, Unaware(w, s)' PROVE FALSE
      BY <2>2, UnawareBefore DEF IInv, CancelSettled
    <2> QED BY <2>1, <2>2 DEF CancelSettled
  <1> QED BY <1>1, RowsSound, Inductive, PTL DEF Spec, CancelledStaysUnexecuted
=============================================================================
