-------------------------- MODULE ScanRunnerProofs --------------------------
(***************************************************************************)
(* Theorems about ScanRunner, for any number of targets, threads, retries,  *)
(* pages and assets, every pair of deadlines and every order in which        *)
(* threads and tasks take their steps.                                     *)
(***************************************************************************)
EXTENDS ScanRunner, FiniteSetTheorems, WellFoundedInduction, TLAPS

(***************************************************************************)
(* The inductive invariant.                                                *)
(***************************************************************************)
\* What the attempts of a target have listed is paid for: by the page budget,
\* which is not overdrawn, and by the retries that followed failures.
Paid(t) == calls[t] <= pages[t] + retries[t] /\ pages[t] <= MaxPages

\* The same with one call in flight, or with one failure not yet retried.
PaidButOne(t) == calls[t] <= pages[t] + retries[t] + 1 /\ pages[t] <= MaxPages

Budget ==
  \A t \in Targets :
    /\ calls[t] <= MaxPages + 1 + retries[t]
    /\ thread[t] \in {"queued", "fresh", "between", "asking", "sleeping"}
         => Paid(t)
    /\ thread[t] = "calling" => PaidButOne(t)
    /\ thread[t] = "ended" /\ outcome[t] = "retryable" => PaidButOne(t)
    /\ task[t] = "waiting" => thread[t] = "none" /\ Paid(t)
    /\ task[t] = "backoff"
         => thread[t] \in {"queued", "sleeping", "ended"} /\ Paid(t)

\* How often a target may ask too late in all.
Limit(t) == Stride[t] + IF t \in Eager THEN retries[t] ELSE 0

\* What a thread has asked too late and what it may still ask without looking
\* at its context are within the limit together.  An attempt that begins
\* brings a call of its own only if it asks ahead, and then the retry that
\* led to it has raised the limit.
Quiet ==
  \A t \in Targets :
    /\ free[t] <= Stride[t]
    /\ ~token => late[t] = 0
    /\ late[t] <= Limit(t)
    /\ thread[t] \in {"fresh", "between", "calling", "asking"}
         => late[t] + free[t] <= Limit(t)
    /\ thread[t] = "queued" \/ task[t] \in {"waiting", "backoff"}
         => late[t] + Ahead(t) <= Limit(t)

\* Once there is a result no task has anything left to do.
Ending == ~Running => \A t \in Targets : task[t] \in {"done", "cut"}

\* A target that is skipped has given up, and so collected nothing.
SkippedIsEmpty ==
  \A t \in Targets : errors[t] = {"service_disabled"} => found[t] = {}

IInv == /\ TypeOK /\ Budget /\ Quiet /\ Ending /\ SkippedIsEmpty
        /\ EvaluatedFromComplete /\ CompletedMissesNothing
-----------------------------------------------------------------------------
(***************************************************************************)
(* The result.                                                             *)
(***************************************************************************)
\* The bounds are natural numbers.
LEMMA Bounds ==
  /\ MaxPages \in Nat /\ MaxRetries \in Nat
  /\ TargetDeadline \in Nat /\ ScanDeadline \in Nat
  /\ IsFiniteSet(Targets) /\ Lazy \subseteq Targets /\ Eager \subseteq Targets
  /\ \A t \in Targets : Stride[t] \in Nat /\ Stride[t] >= 1
  BY ScanRunnerAssumption

\* A set of natural numbers that is not empty has a least element.
LEMMA LeastNatural ==
  ASSUME NEW T \in SUBSET Nat, T # {}
  PROVE  \E x \in T : \A y \in T : x <= y
  <1> DEFINE R == {ss \in Nat \X Nat : ss[1] < ss[2]}
  <1>1. IsWellFoundedOn(R, Nat)
    BY NatLessThanWellFounded, Zenon DEF OpToRel
  <1>2. \E x \in T : \A y \in T : <<y, x>> \notin R
    <2> HIDE DEF R
    <2> QED BY <1>1, WFMin, Zenon
  <1>3. PICK x \in T : \A y \in T : <<y, x>> \notin R
    BY <1>2
  <1>4. ASSUME NEW y \in T PROVE x <= y
    <2>1. ~(y < x)
      BY <1>3
    <2> QED BY <2>1
  <1> QED BY <1>3, <1>4

\* Whatever the order of the targets, what supplies an asset is a target that
\* has collected it.
LEMMA SourceListsIt ==
  ASSUME NEW rank \in Orders, NEW a \in UNION {found[t] : t \in Targets}
  PROVE  Source(rank, a) \in Targets /\ a \in found[Source(rank, a)]
  <1> DEFINE n == Cardinality(Targets)
             Lists == {t \in Targets : a \in found[t]}
             Below == {n - rank[t] : t \in Lists}
  <1>1. n \in Nat
    BY Bounds, FS_CardinalityType
  <1>2. \A t \in Targets : rank[t] \in 1 .. n
    BY DEF Orders
  <1>3. Below \in SUBSET Nat /\ Below # {}
    BY <1>1, <1>2
  <1>4. PICK x \in Below : \A y \in Below : x <= y
    <2> HIDE DEF Below
    <2> QED BY <1>3, LeastNatural
  <1>5. PICK s \in Lists : x = n - rank[s]
    BY <1>4
  <1>6. ASSUME NEW u \in Lists PROVE rank[u] <= rank[s]
    <2>1. n - rank[s] <= n - rank[u]
      BY <1>4, <1>5
    <2> QED BY <1>1, <1>2, <2>1
  <1>7. \E t \in Targets :
          /\ a \in found[t]
          /\ \A u \in Targets : a \in found[u] => rank[u] <= rank[t]
    BY <1>5, <1>6
  <1> QED BY <1>7 DEF Source

\* What the statuses say of the errors.
LEMMA StatusOfErrors ==
  ASSUME NEW e
  PROVE  /\ TargetStatus(e) \in TargetStatuses
         /\ TargetStatus(e) = "succeeded" <=> e = {}
         /\ TargetStatus(e) = "skipped" <=> e = {"service_disabled"}
  BY DEF TargetStatus, TargetStatuses

ResultRecord == [status : {"none", "completed", "cancelled", "failed",
                           "partially_completed"},
                 target : [Targets -> TargetStatuses \cup {"none"}],
                 evaluated : SUBSET Assets, findings : SUBSET Assets]

\* What run_scan returns, of whatever errors, evaluates what was collected.
LEMMA ResultType ==
  ASSUME found \in [Targets -> SUBSET Assets], NEW rank, NEW e,
         NEW cancelled \in BOOLEAN
  PROVE  Result(rank, e, cancelled) \in ResultRecord
  <1> DEFINE target == [t \in Targets |-> TargetStatus(e[t])]
  <1>1. target \in [Targets -> TargetStatuses \cup {"none"}]
    BY StatusOfErrors
  <1>2. FinalStatus(target, cancelled)
          \in {"completed", "cancelled", "failed", "partially_completed"}
    BY DEF FinalStatus
  <1>3. Evaluated(rank, target) \in SUBSET Assets
    BY DEF Evaluated
  <1> HIDE DEF target
  <1>4. Result(rank, e, cancelled)
          = [status |-> FinalStatus(target, cancelled), target |-> target,
             evaluated |-> Evaluated(rank, target),
             findings |-> IF cancelled THEN {} ELSE Evaluated(rank, target)]
    BY DEF Result, target
  <1> QED BY <1>1, <1>2, <1>3, <1>4 DEF ResultRecord

\* An asset is evaluated only if a target without errors has collected it.
LEMMA EvaluatedHasSource ==
  ASSUME NEW rank \in Orders, NEW e, NEW cancelled \in BOOLEAN,
         NEW a \in Result(rank, e, cancelled).evaluated
  PROVE  \E t \in Targets : a \in found[t] /\ e[t] = {}
  <1> DEFINE target == [t \in Targets |-> TargetStatus(e[t])]
             s == Source(rank, a)
  <1>1. a \in UNION {found[t] : t \in Targets} /\ target[s] = "succeeded"
    BY DEF Result, Evaluated
  <1>2. s \in Targets /\ a \in found[s]
    BY <1>1, SourceListsIt
  <1> QED BY <1>1, <1>2, StatusOfErrors

\* A result is completed only if nobody cancelled and every target succeeded
\* or was skipped.
LEMMA CompletedHasNoFailure ==
  ASSUME NEW rank, NEW e, NEW cancelled \in BOOLEAN,
         Result(rank, e, cancelled).status = "completed"
  PROVE  /\ ~cancelled
         /\ \A t \in Targets : e[t] = {} \/ e[t] = {"service_disabled"}
  <1> DEFINE target == [t \in Targets |-> TargetStatus(e[t])]
  <1>1. FinalStatus(target, cancelled) = "completed"
    BY DEF Result
  <1>2. ~cancelled /\ ~Some(target, "failed")
    BY <1>1 DEF FinalStatus
  <1>3. \A t \in Targets : TargetStatus(e[t]) # "failed"
    BY <1>2 DEF Some
  <1> QED BY <1>2, <1>3, StatusOfErrors DEF TargetStatuses
-----------------------------------------------------------------------------
(***************************************************************************)
(* The steps.                                                              *)
(***************************************************************************)
\* Every step keeps the types; that the page budget is overdrawn by one page
\* at most is where they need Budget.
LEMMA TypeStays ==
  TypeOK /\ Budget /\ [Next]_vars => TypeOK'
  <1> SUFFICES ASSUME TypeOK, Budget, [Next]_vars PROVE TypeOK'
    OBVIOUS
  <1> USE Bounds
  <1>1. ASSUME NEW t \in Targets, StartThread(t) PROVE TypeOK'
    BY <1>1 DEF TypeOK, StartThread, Ahead, loop, clock, history
  <1>2. ASSUME NEW t \in Targets, NEW how \in {"calling", "asking"}, Call(t, how)
        PROVE  TypeOK'
    <2>1. free[t] - 1 \in Nat /\ late[t] + 1 \in Nat /\ calls[t] + 1 \in Nat
      BY <1>2 DEF TypeOK, Call
    <2> QED BY <1>2, <2>1 DEF TypeOK, Call, loop, clock
  <1>3. ASSUME NEW t \in Targets, Page(t) PROVE TypeOK'
    <2>1. pages[t] <= MaxPages /\ pages[t] \in Nat
      BY <1>3 DEF TypeOK, Page, Budget, PaidButOne
    <2>2. pages' \in [Targets -> 0 .. MaxPages + 1]
      BY <1>3, <2>1 DEF TypeOK, Page
    <2> QED BY <1>3, <2>2 DEF TypeOK, Page, EndThread, loop, clock, history
  <1>4. ASSUME NEW t \in Targets,
               \/ Checkpoint(t) \/ Refuse(t) \/ Detail(t)
               \/ Listed(t) \/ Wake(t)
               \/ \E how \in {"retryable", "service_disabled", "error"} :
                    Fail(t, how)
        PROVE  TypeOK'
    BY <1>4 DEF TypeOK, Checkpoint, Refuse, Detail, Listed, Wake, Fail,
       EndThread, loop, clock, history
  <1>5. ASSUME NEW t \in Targets, Acquire(t) \/ Rested(t) PROVE TypeOK'
    BY <1>5 DEF TypeOK, Acquire, Rested, Begin, Spent, history
  <1>6. ASSUME NEW t \in Targets, NEW delayed \in BOOLEAN, Retry(t, delayed)
        PROVE  TypeOK'
    <2>1. retries[t] + 1 \in 0 .. MaxRetries
      BY <1>6 DEF TypeOK, Retry
    <2>2. retries' \in [Targets -> 0 .. MaxRetries]
      BY <1>6, <2>1 DEF TypeOK, Retry
    <2>3. CASE delayed
      BY <1>6, <2>2, <2>3 DEF TypeOK, Retry, history
    <2>4. CASE ~delayed
      BY <1>6, <2>2, <2>4 DEF TypeOK, Retry, Begin, Spent, history
    <2> QED BY <2>3, <2>4
  <1>7. ASSUME NEW t \in Targets, GiveUp(t) PROVE TypeOK'
    BY <1>7 DEF TypeOK, GiveUp, Finish, clock, history
  <1>8. ASSUME NEW t \in Targets, NEW assets \in SUBSET Assets,
               NEW bad \in BOOLEAN, Normalize(t, assets, bad)
        PROVE  TypeOK'
    BY <1>8 DEF TypeOK, Normalize, Finish, clock, history
  <1>9. ASSUME NEW rank \in Orders, Return(rank) PROVE TypeOK'
    <2>1. result' \in ResultRecord
      BY <1>9, ResultType DEF TypeOK, Return
    <2> QED BY <1>9, <2>1 DEF TypeOK, Return, ResultRecord, loop, clock, history
  <1>10. ASSUME NEW rank \in Orders, CutOff(rank) PROVE TypeOK'
    <2>1. result' \in ResultRecord
      BY <1>10, ResultType DEF TypeOK, CutOff
    <2> QED BY <1>10, <2>1 DEF TypeOK, CutOff, ResultRecord, clock, history
  <1>11. CASE Cancel
    BY <1>11 DEF TypeOK, Cancel, loop, clock
  <1>12. CASE Tick
    BY <1>12 DEF TypeOK, Tick, loop, history
  <1>13. CASE UNCHANGED vars
    BY <1>13 DEF TypeOK, vars, loop, clock, history
  <1> QED
    BY <1>1, <1>2, <1>3, <1>4, <1>5, <1>6, <1>7, <1>8, <1>9, <1>10, <1>11,
       <1>12, <1>13
    DEF Next, Executor, EventLoop, End

\* Every step keeps what each target has asked for within what it may: only a
\* call that fails is not paid for by a page, and only a retry follows it.
LEMMA BudgetStays ==
  TypeOK /\ Budget /\ [Next]_vars => Budget'
  <1> DEFINE Of(u) ==
        /\ calls[u] <= MaxPages + 1 + retries[u]
        /\ thread[u] \in {"queued", "fresh", "between", "asking", "sleeping"}
             => Paid(u)
        /\ thread[u] = "calling" => PaidButOne(u)
        /\ thread[u] = "ended" /\ outcome[u] = "retryable" => PaidButOne(u)
        /\ task[u] = "waiting" => thread[u] = "none" /\ Paid(u)
        /\ task[u] = "backoff"
             => thread[u] \in {"queued", "sleeping", "ended"} /\ Paid(u)
  <1> SUFFICES ASSUME TypeOK, Budget, [Next]_vars, NEW u \in Targets
               PROVE  Of(u)'
    BY DEF Budget
  <1>0. Of(u)
    BY DEF Budget
  <1>a. /\ calls[u] \in Nat /\ pages[u] \in Nat /\ retries[u] \in Nat
        /\ MaxPages \in Nat /\ MaxRetries \in Nat
    BY Bounds DEF TypeOK
  <1> USE <1>0, <1>a DEF Paid, PaidButOne
  <1>1. ASSUME NEW t \in Targets, StartThread(t) PROVE Of(u)'
    BY <1>1 DEF TypeOK, StartThread, loop, clock, history
  <1>2. ASSUME NEW t \in Targets, NEW how \in {"calling", "asking"}, Call(t, how)
        PROVE  Of(u)'
    <2>1. UNCHANGED <<task, retries, outcome, pages>>
      BY <1>2 DEF Call, loop
    <2>2. CASE u = t
      <3>1. thread[t] \in {"fresh", "between"} /\ Paid(t)
        BY <1>2, <2>2 DEF Call
      <3>2. /\ thread'[t] = how
            /\ calls'[t] = IF how = "calling" THEN calls[t] + 1 ELSE calls[t]
        BY <1>2 DEF TypeOK, Call
      <3>3. task[t] \notin {"waiting", "backoff"}
        BY <1>2, <2>2 DEF Call
      <3> QED BY <2>1, <2>2, <3>1, <3>2, <3>3
    <2>3. CASE u # t
      BY <1>2, <2>1, <2>3 DEF TypeOK, Call
    <2> QED BY <2>2, <2>3
  <1>3. ASSUME NEW t \in Targets, Page(t) PROVE Of(u)'
    <2>1. UNCHANGED <<task, retries, calls>>
      BY <1>3 DEF Page, loop, history
    <2>2. CASE u = t
      <3>1. thread[t] = "calling" /\ PaidButOne(t)
        BY <1>3, <2>2 DEF Page
      <3> QED BY <1>3, <2>1, <2>2, <3>1
        DEF TypeOK, Page, Overdrawn, EndThread
    <2>3. CASE u # t
      BY <1>3, <2>1, <2>3 DEF TypeOK, Page, EndThread
    <2> QED BY <2>2, <2>3
  <1>4. ASSUME NEW t \in Targets,
               \/ Checkpoint(t) \/ Refuse(t) \/ Detail(t)
               \/ Listed(t) \/ Wake(t)
               \/ \E how \in {"retryable", "service_disabled", "error"} :
                    Fail(t, how)
        PROVE  Of(u)'
    BY <1>4 DEF TypeOK, Checkpoint, AtCheckpoint, Refuse, Detail, Listed,
       Wake, Fail, EndThread, loop, clock, history
  <1>5. ASSUME NEW t \in Targets, Acquire(t) \/ Rested(t) PROVE Of(u)'
    BY <1>5 DEF TypeOK, Acquire, Rested, Begin, Spent, history
  <1>6. ASSUME NEW t \in Targets, NEW delayed \in BOOLEAN, Retry(t, delayed)
        PROVE  Of(u)'
    <2>1. CASE delayed
      BY <1>6, <2>1 DEF TypeOK, Retry, Answered, history
    <2>2. CASE ~delayed
      BY <1>6, <2>2 DEF TypeOK, Retry, Answered, Begin, Spent, history
    <2> QED BY <2>1, <2>2
  <1>7. ASSUME NEW t \in Targets, GiveUp(t) PROVE Of(u)'
    BY <1>7 DEF TypeOK, GiveUp, Finish, clock, history
  <1>8. ASSUME NEW t \in Targets, NEW assets \in SUBSET Assets,
               NEW bad \in BOOLEAN, Normalize(t, assets, bad)
        PROVE  Of(u)'
    BY <1>8 DEF TypeOK, Normalize, Finish, clock, history
  <1>9. ASSUME NEW rank \in Orders, Return(rank) PROVE Of(u)'
    BY <1>9 DEF TypeOK, Return, loop, clock, history
  <1>10. ASSUME NEW rank \in Orders, CutOff(rank) PROVE Of(u)'
    BY <1>10 DEF TypeOK, CutOff, clock, history
  <1>11. CASE Cancel \/ Tick \/ UNCHANGED vars
    BY <1>11 DEF Cancel, Tick, vars, loop, clock, history
  <1> QED
    BY <1>1, <1>2, <1>3, <1>4, <1>5, <1>6, <1>7, <1>8, <1>9, <1>10, <1>11
    DEF Next, Executor, EventLoop, End

\* Every step keeps a cancelled scan quiet: asking uses up what the last
\* checkpoint let through, and only a checkpoint that finds no token renews it.
LEMMA QuietStays ==
  TypeOK /\ Budget /\ Quiet /\ [Next]_vars => Quiet'
  <1> DEFINE Of(u) ==
        /\ free[u] <= Stride[u]
        /\ ~token => late[u] = 0
        /\ late[u] <= Limit(u)
        /\ thread[u] \in {"fresh", "between", "calling", "asking"}
             => late[u] + free[u] <= Limit(u)
        /\ thread[u] = "queued" \/ task[u] \in {"waiting", "backoff"}
             => late[u] + Ahead(u) <= Limit(u)
  <1> SUFFICES ASSUME TypeOK, Budget, Quiet, [Next]_vars, NEW u \in Targets
               PROVE  Of(u)'
    BY DEF Quiet
  <1>0. Of(u)
    BY DEF Quiet
  <1>a. /\ late[u] \in Nat /\ free[u] \in Nat /\ retries[u] \in Nat
        /\ Stride[u] \in Nat /\ Stride[u] >= 1
    BY Bounds DEF TypeOK
  <1> USE <1>0, <1>a DEF Limit, Ahead
  <1>1. ASSUME NEW t \in Targets, StartThread(t) PROVE Of(u)'
    BY <1>1 DEF TypeOK, StartThread, loop, clock, history
  <1>2. ASSUME NEW t \in Targets, NEW how \in {"calling", "asking"}, Call(t, how)
        PROVE  Of(u)'
    <2>1. UNCHANGED <<task, retries, token>>
      BY <1>2 DEF Call, loop
    <2>2. CASE u = t
      <3>1. /\ thread[t] \in {"fresh", "between"} /\ free[t] > 0
            /\ thread'[t] = how /\ free'[t] = free[t] - 1
            /\ late'[t] = IF token THEN late[t] + 1 ELSE late[t]
        BY <1>2 DEF TypeOK, Call
      <3>2. task[t] \notin {"waiting", "backoff"}
        BY <3>1 DEF Budget
      <3> QED BY <2>1, <2>2, <3>1, <3>2
    <2>3. CASE u # t
      BY <1>2, <2>1, <2>3 DEF TypeOK, Call
    <2> QED BY <2>2, <2>3
  <1>3. ASSUME NEW t \in Targets, Page(t) PROVE Of(u)'
    BY <1>3 DEF TypeOK, Page, Passes, EndThread, loop, history
  <1>4. ASSUME NEW t \in Targets,
               \/ Checkpoint(t) \/ Refuse(t) \/ Detail(t)
               \/ Listed(t) \/ Wake(t)
               \/ \E how \in {"retryable", "service_disabled", "error"} :
                    Fail(t, how)
        PROVE  Of(u)'
    BY <1>4 DEF TypeOK, Checkpoint, AtCheckpoint, Passes, Refuse, Detail,
       Listed, Wake, Fail, EndThread, loop, history
  <1>5. ASSUME NEW t \in Targets, Acquire(t) \/ Rested(t) PROVE Of(u)'
    BY <1>5 DEF TypeOK, Acquire, Rested, Begin, history
  <1>6. ASSUME NEW t \in Targets, NEW delayed \in BOOLEAN, Retry(t, delayed)
        PROVE  Of(u)'
    <2>1. CASE u = t
      <3>1. retries'[t] = retries[t] + 1 /\ UNCHANGED <<free, token, late>>
        BY <1>6 DEF TypeOK, Retry, history
      <3>2. /\ thread'[t] = "queued"
        BY <1>6 DEF TypeOK, Retry, Begin
      <3> QED BY <2>1, <3>1, <3>2
    <2>2. CASE u # t
      BY <1>6, <2>2 DEF TypeOK, Retry, Begin, history
    <2> QED BY <2>1, <2>2
  <1>7. ASSUME NEW t \in Targets, GiveUp(t) PROVE Of(u)'
    BY <1>7 DEF TypeOK, GiveUp, Finish, history
  <1>8. ASSUME NEW t \in Targets, NEW assets \in SUBSET Assets,
               NEW bad \in BOOLEAN, Normalize(t, assets, bad)
        PROVE  Of(u)'
    BY <1>8 DEF TypeOK, Normalize, Finish, history
  <1>9. ASSUME NEW rank \in Orders, Return(rank) PROVE Of(u)'
    BY <1>9 DEF Return, loop, history
  <1>10. ASSUME NEW rank \in Orders, CutOff(rank) PROVE Of(u)'
    BY <1>10 DEF TypeOK, CutOff, history
  <1>11. CASE Cancel \/ Tick \/ UNCHANGED vars
    BY <1>11 DEF Cancel, Tick, vars, loop, history
  <1> QED
    BY <1>1, <1>2, <1>3, <1>4, <1>5, <1>6, <1>7, <1>8, <1>9, <1>10, <1>11
    DEF Next, Executor, EventLoop, End

\* Every step keeps a skipped target empty: what gives up has collected
\* nothing, and what is cut off is not skipped.
LEMMA SkippedStaysEmpty ==
  TypeOK /\ SkippedIsEmpty /\ [Next]_vars => SkippedIsEmpty'
  <1> SUFFICES ASSUME TypeOK, SkippedIsEmpty, [Next]_vars, NEW u \in Targets,
                      errors'[u] = {"service_disabled"}
               PROVE  found'[u] = {}
    BY DEF SkippedIsEmpty
  <1>1. CASE errors'[u] = errors[u] /\ found'[u] = found[u]
    BY <1>1 DEF SkippedIsEmpty
  <1>2. ASSUME NEW t \in Targets, GiveUp(t) PROVE found'[u] = {}
    <2>1. CASE u = t
      BY <1>2, <2>1 DEF TypeOK, GiveUp, Finish
    <2>2. CASE u # t
      BY <1>1, <1>2, <2>2 DEF TypeOK, GiveUp, Finish
    <2> QED BY <2>1, <2>2
  <1>3. ASSUME NEW t \in Targets, NEW assets \in SUBSET Assets,
               NEW bad \in BOOLEAN, Normalize(t, assets, bad)
        PROVE  found'[u] = {}
    <2>1. u # t
      BY <1>3 DEF TypeOK, Normalize, Finish
    <2> QED BY <1>1, <1>3, <2>1 DEF TypeOK, Normalize, Finish
  <1>4. ASSUME NEW rank \in Orders, CutOff(rank) PROVE found'[u] = {}
    <2>1. errors'[u] = errors[u]
      BY <1>4 DEF TypeOK, CutOff
    <2> QED BY <1>1, <1>4, <2>1 DEF CutOff
  <1> QED
    BY <1>1, <1>2, <1>3, <1>4
    DEF Next, Executor, EventLoop, End, StartThread, Checkpoint, Call, Refuse,
        Page, Detail, Listed, Wake, Fail, Acquire, Rested, Retry, Return, Cancel, Tick, vars, loop

\* Once there is a result nothing the result was made of changes.
LEMMA ResultStays ==
  ASSUME TypeOK, Ending, ~Running, [Next]_vars
  PROVE  UNCHANGED <<loop, token, result>>
  <1>1. \A t \in Targets : task[t] \in {"done", "cut"}
    BY DEF Ending
  <1>2. ASSUME NEW t \in Targets, EventLoop(t) PROVE FALSE
    BY <1>1, <1>2 DEF EventLoop, Acquire, Rested, GiveUp, Retry, Normalize,
       Answered
  <1>3. ASSUME NEW t \in Targets, Executor(t)
        PROVE  UNCHANGED <<loop, token, result>>
    BY <1>3 DEF Executor, StartThread, Checkpoint, Call, Refuse, Page, Detail,
       Listed, Wake, Fail
  <1>4. CASE End \/ Cancel
    BY <1>4 DEF End, Return, CutOff, Cancel
  <1>5. CASE Tick \/ UNCHANGED vars
    BY <1>5 DEF Tick, vars
  <1> QED BY <1>2, <1>3, <1>4, <1>5 DEF Next

\* How the result comes to be.
LEMMA ResultArises ==
  ASSUME Running, ~Running', [Next]_vars
  PROVE  \E rank \in Orders : Return(rank) \/ CutOff(rank)
  BY DEF Running, NoResult, Next, Executor, EventLoop, End, StartThread,
     Checkpoint, Call, Refuse, Page, Detail, Listed, Wake, Fail, Acquire, Rested, GiveUp, Finish, Retry,
     Normalize, Begin, Cancel, Tick, vars

\* What a result says when it is made of the errors and of what was collected.
LEMMA ResultIsSound ==
  ASSUME TypeOK, SkippedIsEmpty, NEW rank \in Orders, NEW e,
         NEW cancelled \in BOOLEAN,
         \A t \in Targets : e[t] = {} \/ e[t] = {"service_disabled"}
                              => e[t] = errors[t] /\ task[t] = "done"
  PROVE  LET r == Result(rank, e, cancelled)
         IN  /\ \A a \in r.evaluated :
                  \E t \in Targets : /\ a \in found[t]
                                     /\ task[t] = "done"
                                     /\ errors[t] = {}
                                     /\ e[t] = {}
             /\ r.status = "completed" =>
                  /\ r.evaluated = UNION {found[t] : t \in Targets}
                  /\ \A t \in Targets : task[t] = "done"
                  /\ ~cancelled
  <1> DEFINE r == Result(rank, e, cancelled)
             target == [t \in Targets |-> TargetStatus(e[t])]
  <1>1. ASSUME NEW a \in r.evaluated
        PROVE  \E t \in Targets : /\ a \in found[t]
                                  /\ task[t] = "done"
                                  /\ errors[t] = {}
                                  /\ e[t] = {}
    <2> HIDE DEF r
    <2>1. PICK t \in Targets : a \in found[t] /\ e[t] = {}
      BY EvaluatedHasSource DEF r
    <2> QED BY <2>1
  <1>2. ASSUME r.status = "completed"
        PROVE  /\ r.evaluated = UNION {found[t] : t \in Targets}
               /\ \A t \in Targets : task[t] = "done"
               /\ ~cancelled
    <2>1. ~cancelled /\ \A t \in Targets : e[t] = {} \/ e[t] = {"service_disabled"}
      BY <1>2, CompletedHasNoFailure
    <2>2. \A t \in Targets : task[t] = "done"
      BY <2>1
    <2>3. r.evaluated = {a \in UNION {found[t] : t \in Targets} :
                           target[Source(rank, a)] = "succeeded"}
      BY DEF Result, Evaluated
    <2>4. ASSUME NEW a \in UNION {found[t] : t \in Targets}
          PROVE  target[Source(rank, a)] = "succeeded"
      <3> DEFINE s == Source(rank, a)
      <3>1. s \in Targets /\ a \in found[s]
        BY SourceListsIt
      <3> HIDE DEF s
      <3>2. e[s] = {}
        BY <2>1, <3>1 DEF SkippedIsEmpty
      <3>3. target[s] = "succeeded"
        BY <3>1, <3>2, StatusOfErrors
      <3> QED BY <3>3 DEF s
    <2>5. r.evaluated = UNION {found[t] : t \in Targets}
      <3> HIDE DEF r, target
      <3> QED BY <2>3, <2>4
    <2> QED BY <2>1, <2>2, <2>5
  <1> QED BY <1>1, <1>2

\* Every step keeps the result true: it is when it is made, and nothing it was
\* made of changes afterwards.
LEMMA ResultStaysSound ==
  IInv /\ [Next]_vars => /\ Ending' /\ EvaluatedFromComplete'
                         /\ CompletedMissesNothing'
  <1> SUFFICES ASSUME IInv, [Next]_vars
               PROVE  /\ Ending' /\ EvaluatedFromComplete'
                      /\ CompletedMissesNothing'
    OBVIOUS
  <1>1. CASE Running'
    BY <1>1 DEF Running, NoResult, Ending, EvaluatedFromComplete,
       CompletedMissesNothing
  <1>2. CASE ~Running
    <2>1. UNCHANGED <<loop, token, result>>
      BY <1>2, ResultStays DEF IInv
    <2> QED BY <1>2, <2>1 DEF IInv, Running, NoResult, Ending,
        EvaluatedFromComplete, CompletedMissesNothing, loop
  <1>3. ASSUME NEW rank \in Orders, Return(rank), ~Running'
        PROVE  /\ Ending' /\ EvaluatedFromComplete'
               /\ CompletedMissesNothing'
    <2> DEFINE r == Result(rank, errors, token)
    <2>1. /\ UNCHANGED <<task, errors, found, token>> /\ result' = r
          /\ \A t \in Targets : task[t] = "done"
      BY <1>3 DEF Return, loop
    <2>2. /\ \A a \in r.evaluated :
               \E t \in Targets : /\ a \in found[t]
                                  /\ task[t] = "done"
                                  /\ errors[t] = {}
          /\ r.status = "completed" =>
               /\ r.evaluated = UNION {found[t] : t \in Targets}
               /\ ~token
      <3>1. TypeOK /\ SkippedIsEmpty /\ token \in BOOLEAN
        BY DEF IInv, TypeOK
      <3>2. \A t \in Targets :
              errors[t] = {} \/ errors[t] = {"service_disabled"}
                => errors[t] = errors[t] /\ task[t] = "done"
        BY <2>1
      <3> QED BY <3>1, <3>2, ResultIsSound
    <2> HIDE DEF r
    <2> QED BY <2>1, <2>2 DEF Ending, EvaluatedFromComplete,
        CompletedMissesNothing
  <1>4. ASSUME NEW rank \in Orders, CutOff(rank), ~Running'
        PROVE  /\ Ending' /\ EvaluatedFromComplete'
               /\ CompletedMissesNothing'
    <2> DEFINE r == Result(rank, errors', FALSE)
               pending == {t \in Targets : task[t] # "done"}
    <2>1. /\ found' = found /\ result' = r /\ pending # {}
          /\ \A t \in Targets :
               /\ t \in pending => task'[t] = "cut" /\ errors'[t] = {"error"}
               /\ t \notin pending => task'[t] = task[t] /\ errors'[t] = errors[t]
      BY <1>4 DEF CutOff
    <2>2. \A t \in Targets : errors'[t] = {} \/ errors'[t] = {"service_disabled"}
            => errors'[t] = errors[t] /\ task[t] = "done" /\ task'[t] = "done"
      BY <2>1
    <2>3. /\ \A a \in r.evaluated :
               \E t \in Targets : /\ a \in found[t]
                                  /\ task[t] = "done"
                                  /\ errors[t] = {}
                                  /\ errors'[t] = {}
          /\ r.status = "completed" => \A t \in Targets : task[t] = "done"
      <3>1. TypeOK /\ SkippedIsEmpty /\ FALSE \in BOOLEAN
        BY DEF IInv
      <3>2. \A t \in Targets :
              errors'[t] = {} \/ errors'[t] = {"service_disabled"}
                => errors'[t] = errors[t] /\ task[t] = "done"
        BY <2>2
      <3> QED BY <3>1, <3>2, ResultIsSound
    <2> HIDE DEF r
    <2>4. Ending'
      BY <2>1 DEF Ending
    <2>5. EvaluatedFromComplete'
      BY <2>1, <2>2, <2>3 DEF EvaluatedFromComplete
    <2>6. CompletedMissesNothing'
      BY <2>1, <2>3 DEF CompletedMissesNothing
    <2> QED BY <2>4, <2>5, <2>6
  <1> QED BY <1>1, <1>2, <1>3, <1>4, ResultArises
-----------------------------------------------------------------------------
(***************************************************************************)
(* The theorems.                                                           *)
(***************************************************************************)
LEMMA Inductive == Spec => []IInv
  <1>1. Init => IInv
    <2> SUFFICES ASSUME Init PROVE IInv
      OBVIOUS
    <2>1. TypeOK
      <3>1. NoResult \in ResultRecord
        BY DEF NoResult, ResultRecord
      <3>2. result \in ResultRecord
        BY <3>1 DEF Init
      <3>3. /\ ScanDeadline \in 0 .. ScanDeadline
            /\ 0 \in 0 .. MaxRetries /\ 0 \in 0 .. MaxPages + 1
            /\ 0 \in 0 .. TargetDeadline
        BY Bounds
      <3> QED BY <3>2, <3>3 DEF Init, TypeOK, ResultRecord
    <2>2. Budget
      BY Bounds DEF Init, Budget, Paid
    <2>3. Quiet
      BY Bounds DEF Init, Quiet, Limit, Ahead
    <2>4. Ending /\ EvaluatedFromComplete /\ CompletedMissesNothing
      BY DEF Init, NoResult, Running, Ending, EvaluatedFromComplete,
         CompletedMissesNothing
    <2>5. SkippedIsEmpty
      BY DEF Init, SkippedIsEmpty
    <2> QED BY <2>1, <2>2, <2>3, <2>4, <2>5 DEF IInv
  <1>2. IInv /\ [Next]_vars => IInv'
    BY TypeStays, BudgetStays, QuietStays, SkippedStaysEmpty, ResultStaysSound
    DEF IInv
  <1> QED BY <1>1, <1>2, PTL DEF Spec

\* The variables keep their types: in particular a page budget is overdrawn by
\* one page at most and no target is retried more often than max_retries.
THEOREM TypeCorrect == Spec => []TypeOK
  <1>1. IInv => TypeOK
    BY DEF IInv
  <1> QED BY <1>1, Inductive, PTL

\* However the targets end and whoever else listed the same asset, what
\* run_scan evaluates was listed by a target that succeeded.
THEOREM OnlyCompleteEvaluated == Spec => []EvaluatedFromComplete
  <1>1. IInv => EvaluatedFromComplete
    BY DEF IInv
  <1> QED BY <1>1, Inductive, PTL

\* A completed scan was neither cancelled nor cut off, and has evaluated
\* everything any of its targets has seen.
THEOREM CompletedIsComplete == Spec => []CompletedMissesNothing
  <1>1. IInv => CompletedMissesNothing
    BY DEF IInv
  <1> QED BY <1>1, Inductive, PTL

\* Whatever fails and is retried, a target never lists more of its provider
\* than its page budget, one page more and one page for every retry.
THEOREM ProviderCallsBounded == Spec => []CallsBounded
  <1>1. IInv => CallsBounded
    BY DEF IInv, Budget, CallsBounded
  <1> QED BY <1>1, Inductive, PTL

\* After the token is set a target asks its provider no more often than between
\* two checkpoints, over all its attempts and abandoned threads, and once more
\* per retry if its collector asks before it has looked at its context.
THEOREM CancellationQuietens == Spec => []CancelQuietens
  <1>1. IInv => CancelQuietens
    BY DEF IInv, Quiet, Limit, CancelQuietens
  <1> QED BY <1>1, Inductive, PTL
=============================================================================
