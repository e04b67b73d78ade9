----------------------------- MODULE ScanRunner -----------------------------
(***************************************************************************)
(* run_scan: the targets of one scan collected concurrently, each by a task *)
(* of the event loop that has its attempts made by threads of the executor. *)
(*                                                                         *)
(* Between the two sides anything may happen: threads wait for a place in   *)
(* the executor, the token is set while a call is in flight, the deadline   *)
(* cuts tasks off whose threads go on.  Time is counted down in steps.      *)
(***************************************************************************)
EXTENDS ScanResult, Naturals, FiniteSets

CONSTANTS
  Targets,         \* a collector in a scope
  Lazy,            \* targets whose collector iterates the pager of an SDK
  Eager,           \* targets whose collector asks before its first checkpoint
  Stride,          \* how often each asks between two checkpoints at most
  Assets,          \* asset URNs; two targets may list the same
  MaxConcurrent,   \* options.max_concurrent_targets
  Threads,         \* executor threads no earlier scan still holds
  MaxRetries,      \* options.max_retries
  MaxPages,        \* options.max_pages_per_target
  TargetDeadline,  \* options.target_deadline_seconds, in steps
  ScanDeadline     \* options.scan_deadline_seconds, in steps

ASSUME ScanRunnerAssumption ==
  /\ IsFiniteSet(Targets) /\ Lazy \subseteq Targets /\ Eager \subseteq Targets
  /\ Stride \in [Targets -> Nat \ {0}]
  /\ {MaxConcurrent, Threads, MaxPages, TargetDeadline, ScanDeadline}
       \subseteq Nat \ {0}
  /\ MaxRetries \in Nat

VARIABLES
  task,      \* event loop: where one_target of a target is
  retries,   \* its retries so far, which number its attempts too
  errors,    \* categories of its errors
  found,     \* assets it collected and could normalize
  thread,    \* executor: what the thread working for it does
  outcome,   \* what its thread ended with
  free,      \* how often it may still ask before its next checkpoint
  pages,     \* its page budget
  left,      \* time left of its attempt
  scanLeft,  \* time left of the scan
  token,     \* cancellation token
  result,    \* what run_scan returns
  calls,     \* history: calls to the provider its budget is to pay for
  late,      \* history: calls to the provider after the token was set
  asked      \* history: the watcher set the token

loop == <<task, retries, errors, found>>
clock == <<left, scanLeft>>
history == <<calls, late, asked>>
vars == <<loop, thread, outcome, free, pages, clock, token, result, history>>

NoResult == [status |-> "none", target |-> [t \in Targets |-> "none"],
             evaluated |-> {}, findings |-> {}]

Running == result = NoResult

TypeOK ==
  /\ task \in [Targets -> {"waiting", "attempt", "backoff", "done", "cut"}]
  /\ retries \in [Targets -> 0 .. MaxRetries]
  /\ errors \in [Targets -> SUBSET {"service_disabled", "parse_error", "error"}]
  /\ found \in [Targets -> SUBSET Assets]
  /\ thread \in [Targets -> {"none", "queued", "fresh", "between", "calling",
                             "asking", "sleeping", "ended"}]
  /\ outcome \in [Targets -> {"none", "batch", "retryable", "service_disabled",
                              "error"}]
  /\ free \in [Targets -> Nat]
  /\ pages \in [Targets -> 0 .. MaxPages + 1]
  /\ left \in [Targets -> 0 .. TargetDeadline]
  /\ scanLeft \in 0 .. ScanDeadline
  /\ token \in BOOLEAN
  /\ result \in [status : {"none", "completed", "cancelled", "failed",
                           "partially_completed"},
                 target : [Targets -> TargetStatuses \cup {"none"}],
                 evaluated : SUBSET Assets, findings : SUBSET Assets]
  /\ calls \in [Targets -> Nat] /\ late \in [Targets -> Nat]
  /\ asked \in BOOLEAN

Init ==
  /\ task = [t \in Targets |-> "waiting"]
  /\ retries = [t \in Targets |-> 0]
  /\ errors = [t \in Targets |-> {}]
  /\ found = [t \in Targets |-> {}]
  /\ thread = [t \in Targets |-> "none"]
  /\ outcome = [t \in Targets |-> "none"]
  /\ free = [t \in Targets |-> 0]
  /\ pages = [t \in Targets |-> 0]
  /\ left = [t \in Targets |-> 0]
  /\ scanLeft = ScanDeadline
  /\ token = FALSE
  /\ result = NoResult
  /\ calls = [t \in Targets |-> 0] /\ late = [t \in Targets |-> 0]
  /\ asked = FALSE
-----------------------------------------------------------------------------
(***************************************************************************)
(* The executor: what a collector does with its context.                    *)
(***************************************************************************)
InFlight == {t \in Targets : task[t] \in {"attempt", "backoff"}}
Busy == {t \in Targets : thread[t] \in {"fresh", "between", "calling",
                                        "asking", "sleeping"}}

\* What an attempt may ask for before it has looked at its context.
Ahead(t) == IF t \in Eager THEN 1 ELSE 0

\* A queued job gets a thread.
StartThread(t) ==
  /\ thread[t] = "queued"
  /\ Cardinality(Busy) < Threads
  /\ IF task[t] = "backoff"
     THEN thread' = [thread EXCEPT ![t] = "sleeping"] /\ UNCHANGED free
     ELSE /\ thread' = [thread EXCEPT ![t] = "fresh"]
          /\ free' = [free EXCEPT ![t] = Ahead(t)]
  /\ UNCHANGED <<loop, outcome, pages, clock, token, result, history>>

EndThread(t, how) ==
  /\ thread' = [thread EXCEPT ![t] = "ended"]
  /\ outcome' = [outcome EXCEPT ![t] = how]
  /\ free' = [free EXCEPT ![t] = 0]

\* Bug: the context looks at the clock only.
PassesInTime(t) == left[t] > 0

\* CollectionContext.checkpoint
Passes(t) == ~token /\ left[t] > 0

\* Bug: a page more than the budget is fetched.
OverdrawnLate(n) == n > MaxPages + 1

\* PageBudget.add_page
Overdrawn(n) == n > MaxPages

\* The collector is at a checkpoint of its own: before its first call, unless
\* it makes that one without, and before it goes on.
AtCheckpoint(t) ==
  \/ thread[t] = "fresh" /\ t \notin Eager
  \/ thread[t] = "between"

\* The checkpoint lets it go on: it may ask again, and does so later, if ever.
Checkpoint(t) ==
  /\ AtCheckpoint(t)
  /\ Passes(t)
  /\ thread' = [thread EXCEPT ![t] = "between"]
  /\ free' = [free EXCEPT ![t] = Stride[t]]
  /\ UNCHANGED <<loop, outcome, pages, clock, token, result, history>>

\* The checkpoint raises.
Refuse(t) ==
  /\ AtCheckpoint(t)
  /\ ~Passes(t)
  /\ EndThread(t, "error")
  /\ UNCHANGED <<loop, pages, clock, token, result, history>>

\* The provider is asked, for what the budget counts (calling) or about one
\* item of a page (asking), which GCP's collector of buckets does.
Call(t, how) ==
  /\ thread[t] \in {"fresh", "between"}
  /\ free[t] > 0
  /\ free' = [free EXCEPT ![t] = @ - 1]
  /\ thread' = [thread EXCEPT ![t] = how]
  /\ calls' = [calls EXCEPT ![t] = IF how = "calling" THEN @ + 1 ELSE @]
  /\ late' = [late EXCEPT ![t] = IF token THEN @ + 1 ELSE @]
  /\ UNCHANGED <<loop, outcome, pages, clock, token, result, asked>>

\* The provider answers with a page, which a pager's checkpoint after it or
\* the budget may refuse.
Page(t) ==
  LET refused == t \in Lazy /\ ~Passes(t)
      spent == IF refused THEN pages[t] ELSE pages[t] + 1
  IN  /\ thread[t] = "calling"
      /\ pages' = [pages EXCEPT ![t] = spent]
      /\ IF refused \/ Overdrawn(spent) THEN EndThread(t, "error")
         ELSE /\ thread' = [thread EXCEPT ![t] = "between"]
              /\ free' = [free EXCEPT ![t] = IF t \in Lazy THEN Stride[t] ELSE @]
              /\ UNCHANGED outcome
      /\ UNCHANGED <<loop, clock, token, result, history>>

\* The provider answers about one item.
Detail(t) ==
  /\ thread[t] = "asking"
  /\ thread' = [thread EXCEPT ![t] = "between"]
  /\ UNCHANGED <<loop, outcome, free, pages, clock, token, result, history>>

\* The call fails, and with it everything the attempt has listed.
Fail(t, how) ==
  /\ thread[t] \in {"calling", "asking"}
  /\ EndThread(t, how)
  /\ UNCHANGED <<loop, pages, clock, token, result, history>>

\* Nothing is left to list.
Listed(t) ==
  /\ thread[t] = "between"
  /\ EndThread(t, "batch")
  /\ UNCHANGED <<loop, pages, clock, token, result, history>>

Wake(t) ==
  /\ thread[t] = "sleeping"
  /\ EndThread(t, "none")
  /\ UNCHANGED <<loop, pages, clock, token, result, history>>
-----------------------------------------------------------------------------
(***************************************************************************)
(* The event loop: one_target.                                             *)
(***************************************************************************)
\* Bug: every attempt has a budget of its own.
SpentAnew(n) == 0

\* What is spent of the budget when the next attempt begins.
Spent(n) == n

\* A CollectionContext, whose deadline is fixed before a thread is free, and
\* the job for the executor.
Begin(t) ==
  /\ task' = [task EXCEPT ![t] = "attempt"]
  /\ thread' = [thread EXCEPT ![t] = "queued"]
  /\ outcome' = [outcome EXCEPT ![t] = "none"]
  /\ left' = [left EXCEPT ![t] = TargetDeadline]
  /\ pages' = [pages EXCEPT ![t] = Spent(@)]

\* async with semaphore
Acquire(t) ==
  /\ task[t] = "waiting"
  /\ Cardinality(InFlight) < MaxConcurrent
  /\ Begin(t)
  /\ UNCHANGED <<retries, errors, found, free, scanLeft, token, result, history>>

Answered(t) == task[t] = "attempt" /\ thread[t] = "ended"

\* A retryable error: the task has a thread sleep, or, the delay being 0,
\* tries again at once.
Retry(t, delayed) ==
  /\ Answered(t)
  /\ outcome[t] = "retryable"
  /\ retries[t] < MaxRetries
  /\ retries' = [retries EXCEPT ![t] = @ + 1]
  /\ IF delayed
     THEN /\ task' = [task EXCEPT ![t] = "backoff"]
          /\ thread' = [thread EXCEPT ![t] = "queued"]
          /\ UNCHANGED <<outcome, left, pages>>
     ELSE Begin(t)
  /\ UNCHANGED <<errors, found, free, scanLeft, token, result, history>>

Rested(t) ==
  /\ task[t] = "backoff"
  /\ thread[t] = "ended"
  /\ Begin(t)
  /\ UNCHANGED <<retries, errors, found, free, scanLeft, token, result, history>>

Finish(t, category, assets) ==
  /\ task' = [task EXCEPT ![t] = "done"]
  /\ thread' = [thread EXCEPT ![t] = "none"]
  /\ errors' = [errors EXCEPT ![t] = category]
  /\ found' = [found EXCEPT ![t] = assets]
  /\ UNCHANGED <<retries, outcome, free, pages, clock, token, result, history>>

\* Any other error, or one retry too many.
GiveUp(t) ==
  /\ Answered(t)
  /\ \/ outcome[t] \in {"error", "service_disabled"}
     \/ outcome[t] = "retryable" /\ retries[t] = MaxRetries
  /\ Finish(t, {IF outcome[t] = "service_disabled" THEN outcome[t] ELSE "error"}, {})

\* The observations are normalized one by one; `bad' says that some was not.
Normalize(t, assets, bad) ==
  /\ Answered(t)
  /\ outcome[t] = "batch"
  /\ Finish(t, IF bad THEN {"parse_error"} ELSE {}, assets)
-----------------------------------------------------------------------------
(***************************************************************************)
(* The event loop: run_scan.                                               *)
(***************************************************************************)
\* The order of target_results, which is that of a set.
Orders == {rank \in [Targets -> 1 .. Cardinality(Targets)] :
             \A t, u \in Targets : rank[t] = rank[u] => t = u}

\* Of the targets that list an asset the last one supplies its facts and its
\* provenance.
Source(rank, a) ==
  CHOOSE t \in Targets :
    /\ a \in found[t]
    /\ \A u \in Targets : a \in found[u] => rank[u] <= rank[t]

\* Bug: every asset in the result is evaluated.
EvaluatedAll(rank, target) == UNION {found[t] : t \in Targets}

Evaluated(rank, target) ==
  {a \in UNION {found[t] : t \in Targets} : target[Source(rank, a)] = "succeeded"}

\* The result, from the errors of the targets; only an evaluated asset can
\* have findings.
Result(rank, errorsOf, cancelled) ==
  LET target == [t \in Targets |-> TargetStatus(errorsOf[t])]
      evaluated == Evaluated(rank, target)
  IN  [status |-> FinalStatus(target, cancelled), target |-> target,
       evaluated |-> evaluated,
       findings |-> IF cancelled THEN {} ELSE evaluated]

\* All tasks end within the deadline.
Return(rank) ==
  /\ Running
  /\ \A t \in Targets : task[t] = "done"
  /\ result' = Result(rank, errors, token)
  /\ UNCHANGED <<loop, thread, outcome, free, pages, clock, token, history>>

\* Bug: nothing ends a scan whose collectors do not.
OvertimeNever == FALSE

Overtime == scanLeft = 0

\* The deadline cuts the other tasks off.  Jobs that wait for a thread are
\* withdrawn, threads that run go on.
CutOff(rank) ==
  LET pending == {t \in Targets : task[t] # "done"}
  IN  /\ Running
      /\ Overtime
      /\ pending # {}
      /\ token' = TRUE
      /\ task' = [t \in Targets |-> IF t \in pending THEN "cut" ELSE task[t]]
      /\ thread' = [t \in Targets |->
           IF t \in pending /\ thread[t] = "queued" THEN "none" ELSE thread[t]]
      /\ errors' = [t \in Targets |-> IF t \in pending THEN {"error"} ELSE errors[t]]
      /\ result' = Result(rank, errors', FALSE)
      /\ UNCHANGED <<retries, found, outcome, free, pages, clock, history>>
-----------------------------------------------------------------------------
(***************************************************************************)
(* Around it.                                                              *)
(***************************************************************************)
\* watch_cancellation sees that the scan is to be cancelled.
Cancel ==
  /\ Running
  /\ ~token
  /\ token' = TRUE
  /\ asked' = TRUE
  /\ UNCHANGED <<loop, thread, outcome, free, pages, clock, result, calls, late>>

Tick ==
  /\ scanLeft > 0
  /\ scanLeft' = scanLeft - 1
  /\ left' = [t \in Targets |-> IF left[t] > 0 THEN left[t] - 1 ELSE 0]
  /\ UNCHANGED <<loop, thread, outcome, free, pages, token, result, history>>

Executor(t) ==
  \/ StartThread(t) \/ Checkpoint(t) \/ Refuse(t)
  \/ Call(t, "calling") \/ Page(t) \/ Detail(t)
  \/ t \in Lazy /\ Call(t, "asking")
  \/ Listed(t) \/ Wake(t)
  \/ \E how \in {"retryable", "service_disabled", "error"} : Fail(t, how)

EventLoop(t) ==
  \/ Acquire(t) \/ Rested(t) \/ GiveUp(t)
  \/ \E delayed \in BOOLEAN : Retry(t, delayed)
  \/ \E assets \in SUBSET Assets, bad \in BOOLEAN : Normalize(t, assets, bad)

End == \E rank \in Orders : Return(rank) \/ CutOff(rank)

Over == ~Running /\ scanLeft = 0
          /\ \A t \in Targets : thread[t] \in {"none", "ended"}

Next == \/ \E t \in Targets : Executor(t) \/ EventLoop(t)
        \/ End
        \/ Cancel
        \/ Tick
        \/ Over /\ UNCHANGED vars

Spec == Init /\ [][Next]_vars

\* The event loop runs and time passes.  Nothing is assumed of the threads: a
\* provider may never answer.
Fairness == /\ \A t \in Targets : WF_vars(EventLoop(t))
            /\ WF_vars(End)
            /\ WF_vars(Tick)

FairSpec == Spec /\ Fairness
-----------------------------------------------------------------------------
(***************************************************************************)
(* Properties.                                                             *)
(***************************************************************************)
\* Only what a target listed completely is evaluated, whatever order the
\* targets ended in and whoever else listed the same asset.
EvaluatedFromComplete ==
  \A a \in result.evaluated :
    \E t \in Targets : /\ a \in found[t]
                       /\ task[t] = "done"
                       /\ errors[t] = {}

\* A scan that is called completed has evaluated all it has seen, and was
\* neither cut off nor cancelled.
CompletedMissesNothing ==
  result.status = "completed" =>
    /\ result.evaluated = UNION {found[t] : t \in Targets}
    /\ \A t \in Targets : task[t] = "done"
    /\ ~token

\* Retries and pages together bound what one scan lists of a provider: each
\* attempt adds one call that failed at most, and all share one page budget.
\* (What GCP is asked about each bucket no budget counts.)
CallsBounded ==
  \A t \in Targets : calls[t] <= MaxPages + 1 + retries[t]

\* Once the token is set a target asks at most for what its last checkpoint
\* let through, although retries go on, jobs still get a thread and threads
\* outlive the tasks they work for; a collector that asks before it has
\* looked at its context does so once more with every retry.
CancelQuietens ==
  \A t \in Targets :
    late[t] <= Stride[t] + IF t \in Eager THEN retries[t] ELSE 0

\* run_scan returns, even if no provider ever answers.
RunEnds == <>(~Running)

(***************************************************************************)
(* What the documentation says and the code does not do.                   *)
(***************************************************************************)
\* acceptance-criteria.md, AC-SCAN-7: a running scan that is cancelled reaches
\* cancelled, and has no findings.
CancelledIsCancelled ==
  asked /\ ~Running => result.status = "cancelled" /\ result.findings = {}
=============================================================================
