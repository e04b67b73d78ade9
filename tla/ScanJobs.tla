------------------------------ MODULE ScanJobs ------------------------------
(***************************************************************************)
(* The leased job queue, the scan records it drives, the worker processes   *)
(* that claim jobs and the API handlers that create and cancel scans.       *)
(*                                                                         *)
(* Every action is one database transaction, or one step of a worker       *)
(* between two transactions.  A handler that reads a row in one statement  *)
(* and writes it in a later one is two actions: other processes commit in   *)
(* between (the sessions run at READ COMMITTED and take no row lock when    *)
(* they read), and the ORM writes only the columns whose value differs from *)
(* the value it read.                                                      *)
(*                                                                         *)
(* All scans belong to one cloud connection; a scan and its job share one   *)
(* identity, because scan_start creates them together, one for one.        *)
(***************************************************************************)
EXTENDS Naturals, FiniteSets

CONSTANTS
  Workers,     \* worker processes
  Clients,     \* API requests that can be in progress at once
  Scans,       \* scans that can ever be created, and their jobs
  Tests,       \* connection_test jobs that can ever be created
  Keys,        \* values of the Idempotency-Key header
  NoKey,       \* a request without that header, a NULL column
  NoJob,       \* the job of a worker that holds none
  MaxAttempts, \* jobs.max_attempts
  LeaseTime,   \* length of a lease, in ticks of the clock
  BeatTime,    \* heartbeat period, in the same ticks
  Outcomes,    \* statuses run_scan derives when nobody cancels the scan
  MaxCrashes,  \* bound: how often worker processes may stop
  MaxFaults    \* bound: how often a heartbeat may die while its worker lives

Jobs == Scans \cup Tests

\* core/enums.py ScanStatus, without the two states before the end.
Terminal == {"completed", "partially_completed", "failed", "cancelled"}

\* What run_scan can still derive for a cancelled scan when its own deadline
\* fired first: a target is reported as timed out, so never "completed".
DeadlineOutcomes == Outcomes \ {"completed"}

ASSUME ScanJobsAssumption ==
  /\ MaxAttempts \in Nat \ {0}
  /\ LeaseTime \in Nat /\ BeatTime \in Nat \ {0} /\ BeatTime < LeaseTime
  /\ MaxCrashes \in Nat /\ MaxFaults \in Nat
  /\ Scans \cap Tests = {} /\ NoJob \notin Jobs /\ NoKey \notin Keys
  /\ Outcomes \subseteq Terminal \ {"cancelled"}

VARIABLES
  connection,  \* the cloud_connections row: enabled, disabled or purged
  verified,    \* its last_verified_at is set
  scan,        \* the scans table
  job,         \* the jobs table
  enqueued,    \* number of jobs created so far: the next created_at
  worker,      \* what each worker process holds in memory
  client,      \* what each API request in progress has read
  crashes,     \* worker processes stopped so far
  faults       \* heartbeats died so far

apiVars == <<connection, client>>
vars == <<connection, verified, scan, job, enqueued, worker, client, crashes,
          faults>>
-----------------------------------------------------------------------------
(***************************************************************************)
(* Rows and records.  Of a scan's `asked' and `saved' the first is the key  *)
(* its creator sent and the second whether a result was ever persisted:     *)
(* history, read by no action.                                             *)
(***************************************************************************)
NoScan == [status |-> "absent", key |-> NoKey, cancel |-> FALSE,
           asked |-> NoKey, saved |-> FALSE]
NewScan(k) == [status |-> "queued", key |-> k, cancel |-> FALSE,
               asked |-> k, saved |-> FALSE]

NoJobRow == [status |-> "absent", attempts |-> 0, due |-> FALSE, left |-> 0,
             created |-> 0]
NewJob(n) == [status |-> "queued", attempts |-> 0, due |-> TRUE, left |-> 0,
              created |-> n]

Idle == [pc |-> "idle", job |-> NoJob, beat |-> "off", since |-> 0,
         cancel |-> FALSE, seen |-> "none", tries |-> 0, err |-> FALSE]
Off == [Idle EXCEPT !.pc = "off"]

NoRequest == [op |-> "none", scan |-> NoJob, key |-> NoKey, seen |-> "none"]

\* Where a worker may be while the heartbeat task of its job exists ...
Beating == {"load", "mark", "scan", "persist", "verify", "stop"}
\* ... and afterwards, inside _finish.
Finishing == {"finish", "settle"}
Active(w) == worker[w].pc \in Beating \cup Finishing

ScanStatuses == {"absent", "queued", "running"} \cup Terminal
JobStatuses == {"absent", "queued", "running", "completed", "failed"}

TypeOK ==
  /\ connection \in {"enabled", "disabled", "purged"}
  /\ verified \in BOOLEAN
  /\ scan \in [Scans -> [status : ScanStatuses, key : Keys \cup {NoKey},
                         cancel : BOOLEAN, asked : Keys \cup {NoKey},
                         saved : BOOLEAN]]
  /\ job \in [Jobs -> [status : JobStatuses, attempts : Nat, due : BOOLEAN,
                       left : 0..LeaseTime, created : Nat]]
  /\ enqueued \in Nat
  /\ worker \in [Workers ->
                  [pc : {"off", "idle"} \cup Beating \cup Finishing,
                   job : Jobs \cup {NoJob}, beat : {"off", "on", "lost"},
                   since : 0..BeatTime, cancel : BOOLEAN,
                   seen : {"none"} \cup ScanStatuses \cup JobStatuses,
                   tries : Nat, err : BOOLEAN]]
  /\ client \in [Clients -> [op : {"none", "start", "cancel"},
                             scan : Scans \cup {NoJob},
                             key : Keys \cup {NoKey},
                             seen : {"none"} \cup ScanStatuses]]
  /\ crashes \in Nat /\ faults \in Nat

Init ==
  /\ connection = "enabled"
  /\ verified = FALSE
  /\ scan = [s \in Scans |-> NoScan]
  /\ job = [j \in Jobs |-> NoJobRow]
  /\ enqueued = 0
  /\ worker = [w \in Workers |-> Idle]
  /\ client = [c \in Clients |-> NoRequest]
  /\ crashes = 0 /\ faults = 0
-----------------------------------------------------------------------------
(***************************************************************************)
(* The API.  scan_start looks the connection and the key up, then inserts   *)
(* the scan and its job in one commit.  A replay of a key that is found     *)
(* changes nothing and is no action.                                       *)
(***************************************************************************)
Exists(s) == scan[s].status # "absent"

\* Bug: only scans nobody has claimed yet are looked at.
KeyTakenByQueued(k) ==
  k # NoKey /\ \E s \in Scans : scan[s].status = "queued" /\ scan[s].key = k

KeyTaken(k) == k # NoKey /\ \E s \in Scans : Exists(s) /\ scan[s].key = k

StartLookup(c, s, k) ==
  /\ client[c] = NoRequest
  /\ job[s].status = "absent"
  /\ \A d \in Clients : client[d].scan # s
  /\ connection = "enabled"
  /\ ~KeyTaken(k)
  /\ client' = [client EXCEPT ![c] = [NoRequest EXCEPT !.op = "start",
                                                       !.scan = s, !.key = k]]
  /\ UNCHANGED <<connection, verified, scan, job, enqueued, worker, crashes,
                 faults>>

\* The insert fails when the connection row is gone (foreign key) or the key
\* was taken meanwhile (unique constraint); the connection being disabled
\* meanwhile does not matter.
StartCommit(c) ==
  LET s == client[c].scan
      k == client[c].key
      ok == connection # "purged" /\ ~KeyTaken(k)
  IN  /\ client[c].op = "start"
      /\ client' = [client EXCEPT ![c] = NoRequest]
      /\ scan' = IF ok THEN [scan EXCEPT ![s] = NewScan(k)] ELSE scan
      /\ job' = IF ok THEN [job EXCEPT ![s] = NewJob(enqueued)] ELSE job
      /\ enqueued' = IF ok THEN enqueued + 1 ELSE enqueued
      /\ UNCHANGED <<connection, verified, worker, crashes, faults>>

\* scan_cancel reads the row ...
CancelLookup(c, s) ==
  /\ client[c] = NoRequest
  /\ Exists(s)
  /\ client' = [client EXCEPT ![c] = [NoRequest EXCEPT !.op = "cancel",
                                        !.scan = s, !.seen = scan[s].status]]
  /\ UNCHANGED <<connection, verified, scan, job, enqueued, worker, crashes,
                 faults>>

\* ... and flags it, writing "cancelled" over whatever the status is by now
\* when the status it read was "queued".
CancelCommit(c) ==
  LET s == client[c].scan
  IN  /\ client[c].op = "cancel"
      /\ client' = [client EXCEPT ![c] = NoRequest]
      /\ scan' = IF ~Exists(s) THEN scan ELSE
           [scan EXCEPT ![s].cancel = TRUE,
                        ![s].status = IF client[c].seen = "queued"
                                      THEN "cancelled" ELSE @]
      /\ UNCHANGED <<connection, verified, job, enqueued, worker, crashes,
                     faults>>

\* connection_toggle, and connection_delete without purge (which disables).
Toggle ==
  /\ connection # "purged"
  /\ connection' = IF connection = "enabled" THEN "disabled" ELSE "enabled"
  /\ UNCHANGED <<verified, scan, job, enqueued, worker, client, crashes,
                 faults>>

\* connection_delete with purge: the scans cascade, the jobs stay.
Purge ==
  /\ connection # "purged"
  /\ connection' = "purged"
  /\ verified' = FALSE
  /\ scan' = [s \in Scans |-> NoScan]
  /\ UNCHANGED <<job, enqueued, worker, client, crashes, faults>>

\* connection_test enqueues a job for a connection, enabled or not.
EnqueueTest(t) ==
  /\ connection # "purged"
  /\ job[t].status = "absent"
  /\ job' = [job EXCEPT ![t] = NewJob(enqueued)]
  /\ enqueued' = enqueued + 1
  /\ UNCHANGED <<connection, verified, scan, worker, client, crashes, faults>>
-----------------------------------------------------------------------------
(***************************************************************************)
(* Claiming.  One transaction returns every expired claim to the queue and  *)
(* takes the oldest job that is due.                                       *)
(***************************************************************************)
\* Bug: the reaper forgets lease_until < now.
ExpiredAtOnce(j) == job[j].status = "running"

\* Bug: nobody reaps.
ExpiredNever(j) == FALSE

Expired(j) == job[j].status = "running" /\ job[j].left = 0

Reaped == [j \in Jobs |->
             IF Expired(j) THEN [job[j] EXCEPT !.status = "queued"]
                           ELSE job[j]]

Claimable == {j \in Jobs : Reaped[j].status = "queued" /\ Reaped[j].due}

Claim(w, j) ==
  /\ worker[w].pc = "idle"
  /\ j \in Claimable
  /\ \A i \in Claimable : job[j].created <= job[i].created
  /\ job' = [Reaped EXCEPT ![j].status = "running",
                           ![j].attempts = @ + 1,
                           ![j].left = LeaseTime]
  /\ worker' = [worker EXCEPT ![w] = [Idle EXCEPT !.pc = "load", !.job = j,
                                                  !.beat = "on"]]
  /\ UNCHANGED <<connection, verified, scan, enqueued, client, crashes, faults>>

\* Nothing to claim: the transaction still commits what it returned.
ClaimNothing(w) ==
  /\ worker[w].pc = "idle"
  /\ Claimable = {}
  /\ job' = Reaped
  /\ UNCHANGED <<connection, verified, scan, enqueued, worker, client, crashes,
                 faults>>
-----------------------------------------------------------------------------
(***************************************************************************)
(* Processing a scan.                                                      *)
(***************************************************************************)
\* The worker leaves _process, normally or with an exception.
Leave(w, failed) ==
  worker' = [worker EXCEPT ![w].pc = "stop", ![w].err = failed,
                           ![w].cancel = FALSE, ![w].seen = "none"]

\* Bug: the status is asked instead of the time of the request.
StopRequestedByStatus(s) == scan[s].status = "cancelled"

StopRequested(s) == scan[s].cancel

\* The connection and the scan are read; either missing is an error.
LoadScan(w) ==
  LET s == worker[w].job
  IN  /\ worker[w].pc = "load" /\ s \in Scans
      /\ IF connection = "purged" \/ ~Exists(s)
         THEN Leave(w, TRUE)
         ELSE worker' = [worker EXCEPT ![w].pc = "mark",
                                       ![w].cancel = StopRequested(s),
                                       ![w].seen = scan[s].status]
      /\ UNCHANGED <<connection, verified, scan, job, enqueued, client,
                     crashes, faults>>

\* A scan whose cancellation was read is ended, any other one is started,
\* whatever was committed since the read.  A status equal to the one read is
\* not written; updating a row that is gone raises.
MarkScan(w) ==
  LET s == worker[w].job
      target == IF worker[w].cancel THEN "cancelled" ELSE "running"
      written == target # worker[w].seen
  IN  /\ worker[w].pc = "mark"
      /\ scan' = IF Exists(s) /\ written
                 THEN [scan EXCEPT ![s].status = target] ELSE scan
      /\ IF worker[w].cancel
         THEN Leave(w, ~Exists(s) /\ written)
         ELSE IF ~Exists(s)
         THEN Leave(w, TRUE)
         ELSE worker' = [worker EXCEPT ![w].pc = "scan", ![w].seen = "none"]
      /\ UNCHANGED <<connection, verified, job, enqueued, client, crashes,
                     faults>>

\* The watcher task cancels the token of a scan that is flagged or gone.
WatchCancellation(w) ==
  LET s == worker[w].job
  IN  /\ worker[w].pc = "scan" /\ ~worker[w].cancel
      /\ ~Exists(s) \/ scan[s].cancel
      /\ worker' = [worker EXCEPT ![w].cancel = TRUE]
      /\ UNCHANGED <<connection, verified, scan, job, enqueued, client,
                     crashes, faults>>

\* run_scan returns; its status depends on the token as it is at the end.
RunScan(w, outcome) ==
  /\ worker[w].pc = "scan"
  /\ outcome \in IF worker[w].cancel THEN {"cancelled"} \cup DeadlineOutcomes
                                     ELSE Outcomes
  /\ worker' = [worker EXCEPT ![w].pc = "persist", ![w].cancel = FALSE,
                              ![w].seen = outcome]
  /\ UNCHANGED <<connection, verified, scan, job, enqueued, client, crashes,
                 faults>>

\* persist_scan writes the status over the one in the row, and NULL over its
\* key; without the connection the insert violates a foreign key.
PersistScan(w) ==
  LET s == worker[w].job
  IN  /\ worker[w].pc = "persist"
      /\ scan' = IF connection = "purged" THEN scan ELSE
           [scan EXCEPT ![s].status = worker[w].seen, ![s].key = NoKey,
                        ![s].saved = TRUE]
      /\ Leave(w, connection = "purged")
      /\ UNCHANGED <<connection, verified, job, enqueued, client, crashes,
                     faults>>
-----------------------------------------------------------------------------
(***************************************************************************)
(* Processing a connection test: read, call the provider, write.           *)
(***************************************************************************)
LoadTest(w) ==
  /\ worker[w].pc = "load" /\ worker[w].job \in Tests
  /\ IF connection = "purged" THEN Leave(w, TRUE)
     ELSE worker' = [worker EXCEPT ![w].pc = "verify"]
  /\ UNCHANGED <<connection, verified, scan, job, enqueued, client, crashes,
                 faults>>

VerifyTest(w) ==
  /\ worker[w].pc = "verify"
  /\ verified' = (connection # "purged")
  /\ Leave(w, connection = "purged")
  /\ UNCHANGED <<connection, scan, job, enqueued, client, crashes, faults>>

\* An exception of a provider, of the engine or of the database.
Raise(w) ==
  /\ worker[w].pc \in Beating \ {"stop"}
  /\ Leave(w, TRUE)
  /\ UNCHANGED <<connection, verified, scan, job, enqueued, client, crashes,
                 faults>>
-----------------------------------------------------------------------------
(***************************************************************************)
(* Heartbeat and finish.                                                   *)
(***************************************************************************)
\* A full period has passed: the lease of the job, whoever holds it now, is
\* extended if the job is running.
Beat(w) ==
  LET j == worker[w].job
  IN  /\ worker[w].beat = "on"
      /\ worker[w].since = BeatTime
      /\ job' = IF job[j].status = "running"
                THEN [job EXCEPT ![j].left = LeaseTime] ELSE job
      /\ worker' = [worker EXCEPT ![w].since = 0]
      /\ UNCHANGED <<connection, verified, scan, enqueued, client, crashes,
                     faults>>

\* The task ends with an exception (its UPDATE failed): nothing notices
\* before the worker awaits it.
HeartbeatDies(w) ==
  /\ worker[w].beat = "on"
  /\ faults < MaxFaults
  /\ faults' = faults + 1
  /\ worker' = [worker EXCEPT ![w].beat = "lost", ![w].since = 0]
  /\ UNCHANGED <<connection, verified, scan, job, enqueued, client, crashes>>

\* heartbeat_stop.set(); await heartbeat -- which raises what killed it.
StopHeartbeat(w) ==
  /\ worker[w].pc = "stop"
  /\ worker' = [worker EXCEPT ![w].pc = "finish", ![w].beat = "off",
                              ![w].err = @ \/ worker[w].beat = "lost"]
  /\ UNCHANGED <<connection, verified, scan, job, enqueued, client, crashes,
                 faults>>

FinishRead(w) ==
  LET j == worker[w].job
  IN  /\ worker[w].pc = "finish"
      /\ worker' = [worker EXCEPT ![w].pc = "settle",
                                  ![w].seen = job[j].status,
                                  ![w].tries = job[j].attempts]
      /\ UNCHANGED <<connection, verified, scan, job, enqueued, client,
                     crashes, faults>>

\* Bug: one retry too many.
FinishStatusOffByOne(w) ==
  IF ~worker[w].err THEN "completed"
  ELSE IF worker[w].tries <= MaxAttempts THEN "queued" ELSE "failed"

\* Bug: a job that ran out of attempts is recorded as done.
FinishStatusSwallowed(w) ==
  IF worker[w].err /\ worker[w].tries < MaxAttempts THEN "queued"
                                                    ELSE "completed"

\* Bug: the error is not asked for before retrying.
FinishStatusAlwaysRetry(w) ==
  IF worker[w].tries < MaxAttempts THEN "queued"
  ELSE IF worker[w].err THEN "failed" ELSE "completed"

FinishStatus(w) ==
  IF ~worker[w].err THEN "completed"
  ELSE IF worker[w].tries < MaxAttempts THEN "queued" ELSE "failed"

\* The row is written without asking whose claim it is by now; again only
\* the columns that differ from what was read.
FinishWrite(w) ==
  LET j == worker[w].job
      target == FinishStatus(w)
  IN  /\ worker[w].pc = "settle"
      /\ job' = [job EXCEPT
           ![j].status = IF target = worker[w].seen THEN @ ELSE target,
           ![j].due = IF target = "queued" THEN FALSE ELSE @,
           ![j].left = IF worker[w].seen = "running" THEN 0 ELSE @]
      /\ worker' = [worker EXCEPT ![w] = Idle]
      /\ UNCHANGED <<connection, verified, scan, enqueued, client, crashes,
                     faults>>
-----------------------------------------------------------------------------
(***************************************************************************)
(* Processes and time.                                                     *)
(***************************************************************************)
\* A worker is killed, exits on a signal at the top of its loop, or dies of
\* an exception of _claim or _finish, which worker_loop does not catch.
Crash(w) ==
  /\ worker[w].pc # "off"
  /\ crashes < MaxCrashes
  /\ crashes' = crashes + 1
  /\ worker' = [worker EXCEPT ![w] = Off]
  /\ UNCHANGED <<connection, verified, scan, job, enqueued, client, faults>>

Restart(w) ==
  /\ worker[w].pc = "off"
  /\ worker' = [worker EXCEPT ![w] = Idle]
  /\ UNCHANGED <<connection, verified, scan, job, enqueued, client, crashes,
                 faults>>

\* available_at of a requeued job is reached.
BackoffElapses(j) ==
  /\ job[j].status = "queued" /\ ~job[j].due
  /\ job' = [job EXCEPT ![j].due = TRUE]
  /\ UNCHANGED <<connection, verified, scan, enqueued, worker, client, crashes,
                 faults>>

\* Bug: a lease runs on below zero.
LapsedBelowZero(n) == n - 1

Lapsed(n) == IF n > 0 THEN n - 1 ELSE 0

\* A healthy heartbeat is on time, and a live worker spends at most one
\* heartbeat period in _finish.
Timed(w) == worker[w].beat = "on" \/ worker[w].pc \in Finishing

Tick ==
  /\ \E j \in Jobs : job[j].status = "running"
  /\ \A w \in Workers : Timed(w) => worker[w].since < BeatTime
  /\ worker' = [w \in Workers |->
                  IF Timed(w) THEN [worker[w] EXCEPT !.since = @ + 1]
                              ELSE worker[w]]
  /\ job' = [j \in Jobs |-> [job[j] EXCEPT !.left = Lapsed(@)]]
  /\ UNCHANGED <<connection, verified, scan, enqueued, client, crashes, faults>>
-----------------------------------------------------------------------------
Request ==
  \/ \E c \in Clients, s \in Scans, k \in Keys \cup {NoKey} :
       StartLookup(c, s, k)
  \/ \E c \in Clients : StartCommit(c)
  \/ \E c \in Clients, s \in Scans : CancelLookup(c, s)
  \/ \E c \in Clients : CancelCommit(c)
  \/ Toggle
  \/ Purge
  \/ \E t \in Tests : EnqueueTest(t)

\* What a live worker does by itself, and is scheduled to do.
Work(w) ==
  \/ \E j \in Jobs : Claim(w, j)
  \/ ClaimNothing(w)
  \/ LoadScan(w)
  \/ MarkScan(w)
  \/ \E outcome \in Outcomes \cup {"cancelled"} : RunScan(w, outcome)
  \/ PersistScan(w)
  \/ LoadTest(w)
  \/ VerifyTest(w)
  \/ StopHeartbeat(w)
  \/ FinishRead(w)
  \/ FinishWrite(w)

Fault(w) == Raise(w) \/ HeartbeatDies(w) \/ Crash(w)

Next ==
  \/ Request
  \/ \E w \in Workers :
       Work(w) \/ WatchCancellation(w) \/ Beat(w) \/ Fault(w) \/ Restart(w)
  \/ \E j \in Jobs : BackoffElapses(j)
  \/ Tick

Spec == Init /\ [][Next]_vars

\* A live worker keeps taking its steps and its heartbeat keeps its period, a
\* stopped one is restarted (compose.yaml: restart unless-stopped), a request
\* that was begun is answered and time passes.  Nothing is assumed of new
\* requests or of faults.
Fairness ==
  /\ \A w \in Workers : /\ WF_vars(Work(w))
                        /\ WF_vars(Beat(w))
                        /\ WF_vars(Restart(w))
  /\ \A c \in Clients : WF_vars(StartCommit(c) \/ CancelCommit(c))
  /\ \A j \in Jobs : WF_vars(BackoffElapses(j))
  /\ WF_vars(Tick)

FairSpec == Spec /\ Fairness
-----------------------------------------------------------------------------
(***************************************************************************)
(* Properties.                                                             *)
(***************************************************************************)
Ended(s) == scan[s].status \in {"absent"} \cup Terminal

\* As long as no heartbeat has died, two live workers never hold the same job,
\* from the claim to the commit of _finish: what keeps a worker's claim is
\* only that its heartbeat outruns the lease, since neither _heartbeat nor
\* _finish asks whose claim it is.
SingleExecution ==
  faults = 0 => \A v, w \in Workers :
                  Active(v) /\ Active(w) /\ worker[v].job = worker[w].job
                    => v = w

\* As long as no heartbeat has died, a completed job leaves no scan queued or
\* running: nothing would ever pick such a scan up again.
CompletedJobMeansScanEnded ==
  faults = 0 => \A s \in Scans : job[s].status = "completed" => Ended(s)

\* Retries are bounded by max_attempts and claims by one more for every worker
\* that stopped (the reaper itself counts nothing).
AttemptsBounded ==
  faults = 0 => \A j \in Jobs : job[j].attempts <= MaxAttempts + crashes

\* A scan whose result is in the database is executed again only after a
\* worker stopped or a heartbeat died between persist_scan and _finish.
NoRepeatWithoutFault ==
  \A w \in Workers :
    worker[w].pc \in {"mark", "scan", "persist"} /\ scan[worker[w].job].saved
      => crashes + faults > 0

\* Until the first of them is persisted, at most one scan was created for an
\* Idempotency-Key, however the requests interleave with each other and with
\* the workers.
KeyNamesOneOpenScan ==
  \A s, r \in Scans :
    scan[s].asked = scan[r].asked /\ scan[s].asked # NoKey
      => s = r \/ scan[s].saved \/ scan[r].saved

\* As long as no heartbeat has died, a job that is completed or failed stays
\* so: no late _finish and no reaper brings it back.
FinalJobStays ==
  [][ faults' = 0 => \A j \in Jobs : job[j].status \in {"completed", "failed"}
                                     => job'[j].status = job[j].status ]_vars

\* A worker that has not read a scan's cancellation and may still execute it.
Unaware(w, s) == /\ worker[w].job = s
                 /\ worker[w].pc \in {"mark", "scan", "persist"}
                 /\ worker[w].pc = "mark" => ~worker[w].cancel

CancelSettled(s) == scan[s].cancel /\ \A w \in Workers : ~Unaware(w, s)

\* Once a cancellation is in the database and no worker has read past it, no
\* retry, reclaim or restart executes the scan again.
CancelledStaysUnexecuted ==
  [][ \A s \in Scans : CancelSettled(s) /\ Exists(s)' => CancelSettled(s)' ]_vars

\* Every job that is enqueued ends, whatever stops or fails meanwhile.
JobsEnd ==
  \A j \in Jobs :
    job[j].status = "queued" ~> job[j].status \in {"completed", "failed"}

\* A scan whose cancellation was requested ends, unless its job ran out of
\* attempts first or a heartbeat died (then a worker that lost its claim may
\* complete the job while the scan is still being executed by another one, and
\* if that one stops too the scan stays as it is).
CancelledScansEnd ==
  \A s \in Scans :
    scan[s].cancel ~> Ended(s) \/ job[s].status = "failed" \/ faults > 0

(***************************************************************************)
(* What the documentation says and the code does not do.                   *)
(***************************************************************************)
\* data-flows.md: a job whose lease expired is requeued only while
\* attempts < max_attempts.
AttemptsWithinMax ==
  faults = 0 => \A j \in Jobs : job[j].attempts <= MaxAttempts

\* acceptance-criteria.md, AC-SCAN-10: two requests with one key get one scan.
KeyNamesOneScan ==
  \A s, r \in Scans :
    scan[s].asked = scan[r].asked /\ scan[s].asked # NoKey => s = r
=============================================================================
