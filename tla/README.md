# MultiCloudShield: specification and proofs

TLA+ modules, TLC configurations and TLAPS proofs for MultiCloudShield, a
service that scans cloud accounts (AWS, Azure, GCP, IBM Cloud) for
misconfigurations. An API accepts scan requests, worker processes claim them
from a PostgreSQL job queue, run the collectors of the providers, evaluate
policies on what was collected and merge the results into a table of findings
that people then triage.

Paths below are relative to `src/multicloudshield/` unless they start with
`docs/`.

To check a model: `tlc -config <file>.cfg <module>.tla`, with the pairs listed
under [Runs](#runs). To check the proofs: `tlapm <module>.tla`, for each module
whose name ends with `Proofs`.

## The system

### Components

| Component | Code | State | Operations |
|---|---|---|---|
| API | `api/main.py` | rows of `scans`, `jobs`, `cloud_connections`, `findings` | `scan_start`, `scan_cancel`, `connection_test`, `connection_toggle`, `connection_delete`, finding status changes, queries |
| Worker | `worker/main.py` | the claimed job, a heartbeat task, a watcher task, a cancellation token | `_claim` (with the reaper), `_heartbeat`, `_process`, `_finish`, `worker_loop` |
| Scan engine | `engine/runner.py`, `engine/retry.py`, `providers/base.py` | one asyncio task per target, executor threads, page budget, deadlines | `run_scan`, `one_target`, `_collect_target` with retries, aggregation |
| Persistence | `persistence/repository.py`, `persistence/models.py` | the tables | `persist_scan`, `change_finding_status`, queries |
| Reconciliation reference | `engine/reconciliation.py` | none | `reconcile_findings` |
| Policy engine | `policy/engine.py`, `policy/verdict.py`, `policy/loader.py`, the bundle | none | evaluate a policy on the facts of an asset |
| Facts and normalization | `facts/`, `providers/normalize.py` | none | build and validate assets and facts |
| Provider adapters | `providers/aws`, `azure`, `gcp`, `ibm`, `demo` | SDK clients | 25 collectors that list resources page by page, ask about each of them, derive facts |
| Allow-list, registry | `providers/allowlist.py`, `providers/registry.py` | constant tables | refuse an operation that is not read-only |
| Authentication | `api/auth.py`, `api/main.py` | users, sessions, API tokens, failed-login counters | login with lockout, logout, tokens |
| Command line | `cli/app.py` | none | the engine and the store in one process |
| Export, identity, redaction, configuration, logging | `engine/export.py`, `core/`, `config/`, `logging.py` | none | formatting, hashing, start-up values |
| Web application | `web/` of the repository | none on the server | a client of the API |

### How they interact

The API and the workers share nothing but the database. `scan_start` inserts a
scan and its job in one commit. A worker claims a job with `SELECT ... FOR
UPDATE SKIP LOCKED`, which gives it a lease; a heartbeat task extends the lease
while `_process` works. A cancellation is a column of the scan row
(`cancellation_requested_at`) that the API sets and a watcher task of the
worker polls; it sets a token that the collectors look at between calls to the
provider. `run_scan` runs on the event loop of the worker and hands every
attempt at a target to a thread of the executor; `persist_scan` writes what it
returns in one transaction; `_finish` writes the job in another. People change
finding statuses through the API while scans write the same rows. A collector
reads an account that belongs to somebody else and changes while it is read; all
that joins its calls is the code that derives facts from their answers, and the
policy engine reads nothing but those facts.

### What is hard

* **Leases.** Nothing but the lease keeps two workers from executing one job:
  `_heartbeat` and `_finish` update the job by its id and never ask whose claim
  it is.
* **Handlers of two statements.** `scan_cancel`, `scan_start`, the worker's
  start of a scan, `_finish` and `change_finding_status` read a row and write
  it later, and the sessions take no lock when they read. The ORM writes only
  columns that differ from the values read, so the outcome depends on the read.
* **Crashes.** A worker can stop between the commit of `persist_scan` and that
  of `_finish`; then a saved scan is executed again.
* **Threads that outlive their tasks.** An asyncio task can be cancelled, the
  thread that makes the call to the provider cannot. It goes on with a context
  whose token has been set.
* **Partial results.** A target that failed says nothing of its assets, and a
  finding must not be resolved because of it. Two targets may list the same
  asset, and the one that ended last supplies its facts.
* **Torn reads.** The facts of one bucket come from up to seven calls, those of a
  firewall from the pages of two listings. There need not be a moment at which
  all the answers were true.
* **Three values.** Everything that could not be read is to be `unknown` and get
  no verdict; every provider has its own words for "never set", "not
  applicable" and "no", its own errors for settings that do not exist, and
  answers that lack a value.
* **Merging.** One finding is written by repeated attempts at one scan, by
  several scans and by people.

### What makes each component correct

| Component | Correct if |
|---|---|
| Queue and worker | no job is executed by two live workers; a finished job stays finished; a completed job leaves no scan queued or running; attempts are bounded; every job ends; a cancelled scan is not executed again |
| API | an idempotency key names one scan; a cancelled scan ends |
| Engine | only completely listed targets are evaluated; a completed scan missed nothing; the calls made to a provider are bounded; a cancellation quietens the collectors; the scan ends even if a provider never answers |
| Store | a status set by a scan is what the last scan that counted saw; no scan touches a decision of a person; the SQL does what the reference function does; the trail of decisions is right; an unsuccessful scan changes nothing |
| Adapters, policy engine | a failing and a passing verdict were deserved at some time during the collection; what existed throughout is listed, what was wrong throughout is found; what could not be read gets no verdict; only a deletion makes a collection fail |
| Authentication (not modelled) | a lockout is reached and ends; a revoked session or token is refused |

`PROJECT.json` lists the hazards of the code line by line with the properties
that would notice each of them going wrong.

## Modules

```
ScanJobs ------- MCScanJobs              Findings (abstract)
   |                                         ^ implements
ScanJobsProofs                            ScanStore ---- MCScanStore
   |                                      |      |
ScanClaimsProofs                     ScanResult  ScanStoreProofs
   |                                      |
ScanAttemptsProofs                   ScanRunner
                                      |      |
                            MCScanRunner   ScanRunnerProofs

             Providers
  ______________|_______________________________________________________
  |         |         |         |          |            |              |
Aws-      Azure-    Gcp-      Ibm-      Policies  Configurations   Posture
Collectors Collectors Collectors Collectors  |          |        (reference)
  |_________|_________|_________|__________|____________|______________|
                      |
                  Collectors ---------- MCCollectors
                   |      |                  |
   CollectorsProofs      Agreement ----- MCAgreement
             |               |
             |        AgreementProofs
             |_______________|
                     |
               VerdictsProofs
```

The second group meets the first where a collection ends: `ScanRunner` has a
collection as steps that may fail, be cut off or be retried, and takes what it
observed as nondeterministic input; `Collectors` has one collection that is not
cut off, and asks whether what it observed is true. `ScanStore` in turn takes
any verdict.

### ScanJobs: the queue, the workers and the API

One action is one transaction, or one step of a worker between two
transactions.

| Action | Code |
|---|---|
| `StartLookup`, `StartCommit` | `scan_start`: look up the connection and the key; insert scan and job |
| `CancelLookup`, `CancelCommit` | `scan_cancel`: read the row; set the flag, and `cancelled` if `queued` was read |
| `Toggle`, `Purge`, `EnqueueTest` | `connection_toggle`, `connection_delete`, `connection_test` |
| `Claim`, `ClaimNothing` | `_claim`: return expired claims to the queue, take the oldest job that is due |
| `LoadScan`, `MarkScan`, `WatchCancellation`, `RunScan`, `PersistScan` | the `scan` branch of `_process` |
| `LoadTest`, `VerifyTest` | the `connection_test` branch |
| `Raise` | an exception anywhere in `_process` |
| `Beat`, `HeartbeatDies`, `StopHeartbeat` | `_heartbeat`, and awaiting it in `worker_loop` |
| `FinishRead`, `FinishWrite` | `_finish`: read the row; write status, lease and back-off |
| `Crash`, `Restart`, `BackoffElapses`, `Tick` | processes and the clock |

A scan and its job have one identity because `scan_start` creates them
together. `left` is the time until `lease_until` in ticks, `due` says that
`available_at` is past, `created` orders the queue as `created_at` does. A
lease is `LeaseTime` ticks and a heartbeat period `BeatTime`; the code has ten
minutes and one (`worker/main.py:43`, `:52`), and the proofs use only that the
period is shorter. `Tick` does
not pass a heartbeat that is due: a live worker's heartbeat is on time, and it
spends at most one period in `_finish`. What breaks that in reality (a blocked
event loop, a failed UPDATE) is `HeartbeatDies`, and the safety properties of
the claims are stated for `faults = 0`. With a dead heartbeat they are false,
because `_finish` does not ask whose claim it is.

`saved` and `asked` of a scan row are history that only properties read.

### ScanResult: what a scan makes of its errors

The status of a target and of a scan from the error categories of the targets.
`ScanRunner`, which builds the result, and `ScanStore`, which persists it, both
extend it.

### ScanRunner: run_scan

The event loop has one task per target behind a semaphore (`Acquire`, `Retry`,
`Rested`, `GiveUp`, `Normalize`), and the executor has a bounded number of
threads (`StartThread`, `Checkpoint`, `Refuse`, `Call`, `Page`, `Detail`, `Fail`,
`Listed`, `Wake`).
`Return` and `CutOff` are the two ways `run_scan` ends: with all tasks, or at
the deadline. `Cancel` is the watcher, `Tick` the clock.

A collector looks at its context (`CollectionContext.checkpoint`) from time to
time, and `free` is how often it may ask the provider before it does so again.
Three disciplines are told apart:

* A target passes a checkpoint, asks `Stride` times at most, and comes to the next
  one. `Stride` is 1 for most collectors; 2 for `ibm.iam.identity`,
  which asks for the MFA report right after the last page of service IDs; 3 for
  `ibm.cos.buckets` (ACL, policy, status of a bucket) and for
  `gcp.storage.buckets` (two calls about the last bucket of a page, and the next
  page).
* A *lazy* target iterates a pager of an SDK, which fetches the next page before
  the loop body with its checkpoint runs (all of GCP, most of Azure): `Page` of
  such a target looks at the context after the answer.
* An *eager* target asks once before its first checkpoint, in every attempt:
  `ibm.iam.policies` for the roles (`providers/ibm/iam.py:97`) and
  `ibm.iam.identity` for the account settings (`:218`). So each retry of it
  brings a call even if the token was set long before.

`calls` counts what the budget is to pay for, the pages a listing asks for. Calls
about one item of a page are `asking`; they count for `late` and not for
`calls`, since the page budget of `gcp.storage.buckets` is not charged for them.

`Threads` is how many executor threads no earlier scan still holds. Threads
that hang survive their scan; the executor across scans is not modelled.

### Findings and ScanStore: the findings of a connection

`Findings` is the abstract specification: the status of each finding and who
gave it, changed by scans (absent to open, open to resolved, resolved to open,
nothing else) and by people (anything). Without the author the specification
would be too weak: a scan that reopens a suppressed finding would pass for a
person who does. `ScanStore` is what the code does: results in the hands
of workers (`Collect`, `Lose`), merged by `persist_scan` (`Persist`), and
`change_finding_status` as a read and a write (`ReadFinding`, `WriteFinding`).
`Persist` is one action: its transaction updates the rows of all policies
before it touches a finding, so two of them are serialized from there on, and
it touches one finding in one statement.

A *control* is a policy about an asset, which is what a fingerprint names.
`TargetOf` is the target that collects its asset. `witness` is history: what
the last scan that counted saw of a control.

### Providers, the collectors of each provider, Policies

`Providers` has what all adapters share: three-valued facts, collectors as
programs of calls, and firewall rules. A program (`Lister`, `Reader`) says which
calls a collector makes before its listing, for every thing of a page, and
after the listing, and which *aspects* of a configuration each answer tells.
`AwsCollectors` (6 collectors), `AzureCollectors` (7), `GcpCollectors` (6) and
`IbmCollectors` (6, one of them as two programs) give these programs in the
order of the code, and derive the facts from what the calls have told, with the
names of the code's helpers (`_all_public_blocks` is `AllPublicBlocks`,
`_rule_posture` is `AwsOpens` and `IbmOpens`). Data is cut to what policies tell
apart: a bucket policy is the set of the kinds of its statements, a port range
its two ends, the protocol of a rule `tcp`, `udp`, `icmp` or `all`, a password
policy `strong`, `weak`, `absent` or `odd`. What an answer may lack is a value
too: `shapeless` is an answer of AWS without the mapping that holds the settings,
`{"absent"}` an ACL without grants or a GCP policy without bindings.

The rules of a security group come from two answers at AWS and IBM (`rules1`,
`rules2`), which stand for the pages of the listing, and from one at Azure; so do
the API keys of IBM's service IDs (`keys1`, `keys2`).

`Policies` is the catalog (`policy/bundle/catalog.yaml`) with its predicates, in
four groups (storage, network, the other common policies, the policies of one
provider), and `Evaluate`, which is `evaluate_policy`: not applicable, insufficient data, fail,
pass.

### Configurations: what an account may be

The configurations a thing may have under each collector (`ThingConfigs`), and
the account itself (`AccountConfigs`): every combination of the values that the
adapters tell apart, with values for what an answer may lack. `Consistent` says
what a provider derives by itself: the status of a bucket policy follows from
the policy, the MFA report of a user from the status of the user. The module
models the providers, not code of the repository. `Collectors` takes the
configurations of a subject as a constant and assumes (`ConfigsAssumption`) no
more than that they are among these; the proofs range over all of them.

### Posture: the reference

What each policy means of a *configuration*: `good`, `bad` or `open`. It is written from
the titles of the catalog and the meaning the providers give to their settings,
and uses no operator of the collectors or the catalog. A firewall rule that
lacks something stands for all rules that have it (`Completions`), so it is
`bad` only if all of them are. Nothing in it models code.

### Collectors: an account that changes while it is read

| State | Meaning |
|---|---|
| `subject` | the collector, and the policy that is followed |
| `world`, `past`, `changes` | the configuration of every thing that exists; all worlds there were since the collection began; how often it changed |
| `todo` | the steps that are left, in order: calls about everything, the listing from a cursor on, the calls about the things of a page |
| `listed`, `seen` | what was listed, and what the answers have told of each thing; answers of different times are joined here, as in the dictionaries and local variables of the collectors |
| `outcome` | running, complete, or given up because something was not found |

| Action | Code |
|---|---|
| `SweepAll` | a call about everything: `get_account_summary`, `describe_security_group_rules`, `list_api_keys` |
| `ListPage` | a page of `_paginate`, `_paged` and the pagers of the SDKs, with the loop over its items |
| `Skip` | a call that is not made because of an earlier answer: the rotation of a key that supports none, the MFA status of a user whose report has it |
| `Answered` | the answer of a call about one thing |
| `NotFound` | a "not found" error: `_optional_call` and `missing_codes` of AWS and `get_bucket_policy` of IBM take it for a setting that was never made, every other call gives the collection up |
| `Reconfigure`, `Create`, `Delete` | what the owners of the account do meanwhile |

A page ends after any thing, a token is taken for a cursor, and things are
listed in the order of their numbers; a thing that was deleted does not come
back under its old identity. One change sets one aspect of one thing, and with
it the status that follows from it.

### Agreement: where the code and the reference agree

The reference and the code disagree about some configurations even when nothing
changes; they are listed [below](#where-code-and-documentation-differ). `Agreement`
names them: `Followed` says which policies read a fact of a collector, `Agreed`
excludes the configurations, and `AgreementAssumption` is all that the verdicts
need of an account. TLC evaluates it for the accounts of `MCCollectors`, and
`VerdictsProofs` shows that nothing else is missing from it: for every other
account the verdicts are warranted. The exclusions are

| Collector | Policy | Excluded |
|---|---|---|
| all firewalls but Azure's | `MCS-NET-*` | rules that lack a direction, an action, a source, or ports that can be read |
| AWS security groups | `MCS-NET-*` | rules that deny: there are none |
| AWS, GCP, IBM firewalls | `MCS-NET-*` | rules for all protocols that name ports; at AWS also TCP and UDP rules that name none: there are neither |
| AWS security groups | `MCS-NET-001`, `-003` | inbound rules from anywhere for ICMP, or for UDP on ports of the policies: the adapter does not look at the protocol |
| Azure | `MCS-NET-*` | the same, and rules for all ports of UDP or ICMP |
| IBM | `MCS-NET-*` | the same; ICMP is all ports to the adapter |
| AWS, GCP | `MCS-NET-002` | TCP ranges that are all ports (0-65535 and 1-65535) |
| Azure | `MCS-NET-002` | the range 1-65535, which is not all ports to the adapter |
| AWS, GCP, IBM | `MCS-NET-003` | ranges that reach only the ports that one adapter alone takes for those of data stores (9200 and 11211 at AWS, 9200 at GCP, 2049, 2379, 2380, 9200 and 9300 at IBM) |
| GCP buckets | `MCS-STOR-001` | grants of the creator role |
| GCP buckets | `MCS-STOR-001`, `-002` | policies without bindings |
| GCP keys | `MCS-KMS-001` | purposes other than encryption and the asymmetric ones (MAC, raw encryption, none) |
| AWS account | `MCS-AWS-S3-001`, `MCS-IAM-*`, `MCS-AWS-IAM-*` | a public access block or a password policy without its mapping |
| IBM buckets | all | ACLs without grants, or that let everybody write ACLs; policies that have a conditional statement beside one that lets everybody read or write |
| IBM service IDs | `MCS-IAM-002` | keys without a date |
| IBM users, account | `MCS-IAM-001`, `MCS-IBM-IAM-001` | a missing MFA value |

## Runs

| Run | Configuration | Shows |
|---|---|---|
| `jobs_safety` | `MCScanJobs_safety.cfg` | types; one worker per job; completed jobs leave ended scans; attempts bounded by `MaxAttempts` plus crashes; a saved scan repeated only after a fault; final jobs stay final; a cancelled scan is not executed again |
| `jobs_keys` | `MCScanJobs_keys.cfg` | one scan per key until the first is persisted, whatever the interleaving of two requests, a worker and a connection test |
| `jobs_liveness` | `MCScanJobs_liveness.cfg` | every job ends and every cancelled scan ends, with two crashes |
| `store_findings` | `MCScanStore.cfg` | types; statuses follow evidence; the refinement of `Findings`; agreement with `reconcile_findings`; first scan kept; decisions audited; unsuccessful scans silent |
| `runner_safety` | `MCScanRunner_safety.cfg` | types; only complete targets evaluated; completed means nothing missed; calls bounded; calls after a cancellation bounded; and, under fairness, `run_scan` ends though no provider need answer |
| `collectors` | `MCAgreement.cfg` | types; failing and passing verdicts deserved; nothing missed that stayed, nothing overlooked that was wrong throughout; nothing known that was never so; only a deletion makes a collection fail |
| `jobs_doc_reaper`, `jobs_doc_key`, `store_doc_absent`, `store_doc_trail`, `runner_doc_cancel`, `collectors_doc_missing` | `*_doc_*.cfg` | six statements of the documentation that the code does not keep, see [Findings](#where-code-and-documentation-differ) |

Every property of a passing run has a mutant of a mapped definition, written
beside that definition and marked `Bug:`, under which the same run finds the
property violated.

### Bounds, and why they are enough

*Queue.* Two workers are enough for every race over a claim, since a claim is
lost to one other worker. One scan is enough for the safety run, because jobs
meet only in the order in which they are claimed; `jobs_keys` has two scans, two
requests and a test job, which is where rows meet. `MaxAttempts` is 2 in the safety run
(one retry and the last attempt) and 3, the code's value, in the liveness run,
with two crashes. `LeaseTime` 2 and `BeatTime` 1 leave exactly one period of
slack, the tightest proportion the assumption allows. `MaxCrashes` and
`MaxFaults` bound how often processes and heartbeats fail; the safety run
allows two crashes and a dead heartbeat, in any order.

*Store.* One control, because `persist_scan` treats controls independently (and
the proofs are for any number). Two scans, so that one can be persisted between
the collection and the commit of the other; repeated attempts are free. One
person and one decision: the code treats the four decisions alike. The second
target is one the control has nothing to do with, so that a scan may succeed in
part in both ways.

*Runner.* Two targets, which may list the same asset and compete for one thread.
One of them is lazy and asks once between two checkpoints, the other is eager and
asks twice: that is the least in which each discipline differs from the others. One retry, two pages, a target deadline of one step and a
scan deadline of two: an attempt can time out, be retried and be cut off. The
semaphore has a place for each, so a target waits for a thread but never for a
place (the code has 16 places).
The run has 1.2 million states.

*Collectors.* Every collector with every policy that reads a fact of it, and the
collectors that no policy reads with one policy, so that every program runs.
Two things, because answers are joined within a thing or between a thing and the
next, and a page boundary needs two. The account and one thing have every value
of the aspects the policy depends on (two for firewalls: rules on two pages);
the other thing is plain or, where all things of an account are judged together
(GCP firewalls), harmless or open. Two changes, because with one every joined fact was
true before it or after it; the wrong verdicts described
[below](#what-two-changes-do) need two. Boundary values are in:
ages of 90 and 91 days, single ports and full ranges, protocols, statements with and
without conditions, missing and unreadable answers. The run has 1.1 million
states.

The run is of `MCAgreement`, which puts the accounts of `MCCollectors` under the
assumption of [`Agreement`](#agreement-where-the-code-and-the-reference-agree): what
is excluded there is not in the values of the run. Answers that lack a value the code
makes up (`Forms`) are in `collectors_doc_missing` only, which is a run of
`MCCollectors`.

Symmetry is used in safety runs only (workers, requests and scans that nothing
tells apart).

### Fairness

`ScanJobs!Fairness` is weak fairness of a live worker's own steps, its
heartbeat, its restart (`compose.yaml` restarts the worker unless it was
stopped), the second half of a request, back-offs and time. Weak fairness
suffices because none of these steps is disabled again and again by others:
`_claim` polls every second. Nothing is assumed of new requests, faults,
provider errors or the watcher, which may always be too late.

`ScanRunner!Fairness` is weak fairness of the event loop, of the end of
`run_scan` and of the clock. Nothing is assumed of executor threads: a provider
may never answer, and `RunEnds` holds because of the deadline alone. It is about
`run_scan` from where its tasks are made: `resolve_scopes` (`engine/runner.py:64`)
is called before that, on the event loop and without a deadline, and makes calls at
AWS. A provider that does not answer there blocks the worker with all its tasks;
the queue sees that as a heartbeat that dies. In the same way `JobsEnd` takes the
calls of `verify_access` (`worker/main.py:126`) to return, which have no
timeout; the liveness run has no connection tests.

## Proofs

TLAPS checks these for every value of the constants that satisfies the modules'
assumptions.

| Theorem | Statement |
|---|---|
| `ScanJobsProofs!TypeCorrect` | `Spec => []TypeOK` |
| `ScanClaimsProofs!OneWorkerPerJob` | `Spec => []SingleExecution` |
| `ScanClaimsProofs!CompletedScanEnded` | `Spec => []CompletedJobMeansScanEnded` |
| `ScanClaimsProofs!FinalJobs` | `Spec => FinalJobStays` |
| `ScanAttemptsProofs!ClaimsAreBounded` | `Spec => []AttemptsBounded` |
| `ScanAttemptsProofs!NoNeedlessRepeat` | `Spec => []NoRepeatWithoutFault` |
| `ScanAttemptsProofs!KeyIsForOneScan` | `Spec => []KeyNamesOneOpenScan` |
| `ScanAttemptsProofs!CancellationHolds` | `Spec => CancelledStaysUnexecuted` |
| `ScanStoreProofs!StoreTypes` | `Spec => []TypeOK` |
| `ScanStoreProofs!EvidenceFollowed` | `Spec => []ScanStatusFollowsEvidence` |
| `ScanStoreProofs!StoreImplementsFindings` | `Spec => Lifecycle`, the refinement of `Findings` |
| `ScanStoreProofs!PersistAgrees` | `Spec => PersistReconciles` |
| `ScanStoreProofs!FirstSeenKept` | `Spec => FirstSeenFixed` |
| `ScanStoreProofs!DecisionsRecorded` | `Spec => DecisionsAudited` |
| `ScanStoreProofs!UnsuccessfulIsSilent` | `Spec => UnsuccessfulScanIsSilent` |
| `ScanRunnerProofs!TypeCorrect` | `Spec => []TypeOK` |
| `ScanRunnerProofs!OnlyCompleteEvaluated` | `Spec => []EvaluatedFromComplete` |
| `ScanRunnerProofs!CompletedIsComplete` | `Spec => []CompletedMissesNothing` |
| `ScanRunnerProofs!ProviderCallsBounded` | `Spec => []CallsBounded` |
| `ScanRunnerProofs!CancellationQuietens` | `Spec => []CancelQuietens` |
| `CollectorsProofs!NothingMissedEver` | `Spec => []NothingMissed` |
| `CollectorsProofs!FailureIsCaused` | `Spec => []FailureHasCause` |
| `CollectorsProofs!NothingMadeUp` | `Spec => []KnownWasSo` |
| `CollectorsProofs!KnowledgeIsGrounded` | `Spec => [](Ground /\ Knowing)`, the invariant behind the verdicts |
| `VerdictsProofs!FailsAreWarranted` | `Spec => []FailWarranted` |
| `VerdictsProofs!PassesAreWarranted` | `Spec => []PassWarranted` |
| `VerdictsProofs!NothingIsOverlooked` | `Spec => []NothingOverlooked` |
| `VerdictsProofs!CollectionsAreTyped` | `Spec => []TypeOK` |

**The claims.** `SingleExecution` is not inductive: a second worker may claim a
job only when its lease has run out, so the invariant must say how much of a
lease is left. `Kept(w)` says, of an active worker, that its job is marked
running, its heartbeat lives and

    job[worker[w].job].left + worker[w].since >= LeaseTime

that is, what is gone of the lease is at most what has passed of the heartbeat
period. `since <= BeatTime < LeaseTime` then leaves the lease above zero, so the
job is not `Expired` and nobody claims it. A `Tick` takes one from `left` and
adds one to `since`; a `Beat` restores both; an exclusive claim (`Claims`) keeps
another worker's `FinishWrite` away from the row. Keeping exclusiveness and
`Kept` together is what makes them inductive. `Origin` adds that only jobs that
exist are worked on, `WorkerSound` what a worker holds at each point of its
program (`TypeOK` alone lets it persist a status that is none), `Settled` that
a worker about to report success has ended its scan. The whole is

    IInv == TypeOK /\ WorkerSound /\ Origin /\ Claims /\ Settled

The assumption that matters is `BeatTime < LeaseTime`.

**The attempts.** `AttemptsBounded` needs a reserve: a job that may still be
claimed and that nobody works on (`Free`) has been claimed *fewer* than
`MaxAttempts + crashes` times, so its next claim does not pass the bound. A job
becomes `Free` in two ways. Its worker crashes, which raises the bound; or its
worker finishes it with an error and the row is not failed, which happens only
when fewer attempts than `MaxAttempts` were read. That the attempts read in
`FinishRead` are still those of the row when `FinishWrite` decides by them is
the second half of `Attempts`, and rests on the exclusive claim.
`NoRepeatWithoutFault` rests on `SavedIsPersisted`: without faults, a saved
scan has a completed job or a worker that is on its way to complete it, and
both keep every other worker from loading it.

**The requests.** `KeyHeld` says where the next request with a key looks: a scan
that was asked for with a key and is not saved exists and has the key in its
row. So the unique index (`KeyTaken` in `StartCommit`) refuses a second one,
although the lookup was made in an earlier transaction. `RowStep` lists what can
become of a row in one step. `CancelledStaysUnexecuted` follows because no such
step takes a flag back while the scan exists, and a worker that loads a flagged
row knows of the flag.

**The findings.** `IInv == Typed /\ ResultSound /\ RequestSound /\
ScanStatusFollowsEvidence`. `ResultSound` ties the verdicts of a result to its
targets (only assets of targets that succeeded are evaluated) and its status to
its targets, so a `pass` that resolves also counts as evidence, and a `fail` is
dropped by a cancelled scan, which counts for nothing. The refinement follows
step by step: `Persist` maps to `Scan`, `WriteFinding` to `Decide` or a stutter,
everything else to a stutter. The action properties follow from the same
invariant. `PersistAgrees` is the one that needs it most: `persist_scan` asks
for the target of an evaluation before it resolves a finding and
`reconcile_findings` does not, and the two agree only because no asset of an
unsuccessful target is ever evaluated.

**The engine.** The budget is shared by attempts of one target that follow each
other, and a call that is in flight has not been paid for. `Budget` says for each
state of a target's task and thread whether what it has asked for is covered by
the pages it has got and its retries (`Paid`) or lacks one (`PaidButOne`); a retry
pays for the call that failed, and a page for the call that brought it. `Quiet`
adds up what a target has asked since the token was set and what its thread may
still ask before it looks at its context (`free`), and keeps the sum within
`Limit`: `Stride`, and one call for each retry of an eager target. A checkpoint
renews `free` only while the token is not set, when the sum is `Stride` alone; an
attempt that begins later brings a call of its own only if the target is eager,
and then the retry that led to it has raised the limit. `EvaluatedFromComplete` and
`CompletedMissesNothing` look at the state in which the result was built, so
`Ending` keeps it: once there is a result no task has anything left to do.
`Source` chooses, in the order in which the targets ended, who supplies an asset;
that there is always one to choose (`SourceListsIt`) needs the set of targets to
be finite.

**The collections.** The invariant is about what is left to do, in the state it is
left in. A step of the listing may be in `todo` only with a cursor up to which
everything is listed that was there all the time (`Listings`); when no step of
the listing is left, that is all of it (`ListedAll`). Each change of the account
makes `past` larger and the claim weaker, each page moves the cursor. Calls
about things may be left only about things that were listed (`Askings`). That a
call about a thing that is still there never gives the collection up is
`NeverMade`: for every collector and every call it makes, the code that the
provider has for "never set" is among those the collector expects. It goes
through the programs of all collectors, so a call that is added to one without
its `missing_codes` breaks the proof.

`KnownWasSo` is about the other side of the same codes: what is taken for a
setting that was never made must be the value such a setting counts as
(`MissingIsSo`), and nothing may be taken for anything when the thing itself is
gone. IBM does so once (`GoneIsEmpty`), and the property says where. That the
exception stays one needs `Configured`: what is known of was there once, and what
was there and is gone does not come back. The proof uses `ConfigsAssumption`: a
thing has the settings its collector may be told it lacks, and an AWS bucket
without a policy has no public policy.

**The verdicts.** The argument has three layers.

1. *One world* (`AgreementProofs`). For each collector and each policy that
   reads a fact of it: if what is known of a thing is what one configuration
   says, the verdict on its facts is right about that configuration (`Right`:
   `fail` if and only if it is `bad`, `pass` only if it is `good`).
   This is where the facts of the collectors meet the reference, value by value,
   for every set of rules, statements, keys and settings. Firewalls need most of
   it: the verdict on a set of rules is compared with all completions of all of
   them.
2. *What is known* (`CollectorsProofs`). `Knowing` relates the state of a
   collection to the past of the account. `Informed`: of what is listed, each call
   of the program has told, or is left in `todo`, or was not worth making.
   `Swept`: a call about everything that is done has told of whatever was there
   all the time. `Whole`: the collectors that read a thing with one answer know
   it as it was at one time (`AtOnce`: Azure's security groups and vaults, GCP's rules
   and keys; the groups of AWS and IBM are not among them, as their rules come in
   pages). `SupportStays` and `KmsOrder`: the rotation of a key
   is known only if it supports one. `FewChanges`: after one change `past` has
   two worlds, and they differ in one thing and, but for a status that follows, in
   one aspect of it.
3. *The two together* (`VerdictsProofs`). A verdict that reads one aspect is
   right about the world the aspect was read in (`OneAspect`), one that reads one
   answer about the world of that answer (`ReadWhole`). For the verdicts that join
   answers, `FewChanges` leaves two worlds, and the aspects that did not change
   are those of both: `TwoAspects` for the buckets, `GcpProjectSettled` for all rules of
   a project, `AwsGroupsSettled` and `IbmGroupsSettled` for rules on two pages,
   `ServiceIdKeysSettled` for keys on two pages. IBM buckets need a case
   for each order of the three answers and for the policy that is taken for
   empty because the bucket is gone (`CosSettled`).

`NothingOverlooked` needs, besides, that what was there all the time is listed
(`NothingMissedEver`) and that the parts of a thing that can be bad are observed
(`Covered`). `Reported` excludes a storage account without a container, of which
the code has nothing to report its settings of.

`CollectionsAreTyped` follows from the same invariant: a fact is a value of its
model either whatever was read, or because what was read is from a
configuration. Its least obvious part is the age of the oldest key, a maximum over
a set, which exists because ages are bounded (`Oldest`).

What the proofs assume of an account is `ConfigsAssumption` and, for the
verdicts, `AgreementAssumption`; of the number of changes nothing but that it is
a number (`Judged` says where one change is allowed at most).

The attempt to prove the verdicts changed the model where it was wrong or said too
little: two `CASE` expressions (`EncryptionPosture`, `AzureRulePosture`) had arms
that overlap, so that their value was not determined, and follow now the order of
the conditions in the code; empty storage accounts are excluded by `Reported`
instead of by the values of the run; and the exclusions of `Agreement`, which
were a choice of values, are now all the proofs need.

Only model-checked: liveness (`JobsEnd`, `CancelledScansEnd`, `RunEnds`), since
fairness and ENABLED are out of the prover's reach, and the statements of the
documentation that the code does not keep. Every safety property of every
passing run has a theorem.

## Where code and documentation differ

* **The reaper does not look at attempts** (`jobs_doc_reaper`).
  `docs/architecture/data-flows.md:219` says expired jobs are requeued only
  while `attempts < max_attempts`. `_claim` requeues them all, so a job whose
  workers keep stopping is executed again and again. `AttemptsBounded` states
  what does hold: one attempt more for every worker that stopped.
* **A key is forgotten when its scan is saved** (`jobs_doc_key`).
  `docs/planning/acceptance-criteria.md:100-102` promises one scan per key;
  `persist_scan` overwrites the key with NULL. `KeyNamesOneOpenScan` states what
  holds until then.
* **A finding of a deleted asset stays open** (`store_doc_absent`).
  `docs/architecture/data-flows.md:302` and `:310-311` and
  `docs/architecture/domain-model.md:479` say that an asset that is absent from a
  complete collection resolves its findings. `persist_scan`
  (`persistence/repository.py:391`) and `reconcile_findings` resolve for a `PASS` only,
  and an asset that is gone has no evaluation. `ScanStatusFollowsEvidence` states
  what does hold: a status set by a scan is what the last *evaluation* saw.
* **The trail may name a status the finding no longer had** (`store_doc_trail`).
  `docs/planning/acceptance-criteria.md:175-177` promises the two ends of any
  transition. `change_finding_status` records as `from_status` what it read before
  a scan changed the row. `DecisionsAudited` states what does hold of the other
  end.
* **The deadline beats a cancellation** (`runner_doc_cancel`).
  `docs/planning/acceptance-criteria.md:87-90` promises that a cancelled running
  scan becomes `cancelled` and changes no finding; a scan that is cancelled and
  then cut off by its deadline is `failed` or `partially_completed` and keeps
  its findings.
* **What an answer lacks gets a verdict** (`collectors_doc_missing`).
  `docs/architecture/data-flows.md:247` says missing input yields
  `TriState.UNKNOWN`. At IBM, `_tri_state` (`providers/ibm/iam.py:27`) turns a missing
  value into the text `none`, which is one of its words for no: account settings
  without the value fail `MCS-IBM-IAM-001`, and a user whose report lacks it fails
  `MCS-IAM-001` without `get_mfa_status` being asked. An ACL without `Grants`
  (`providers/ibm/cos.py:23`) and a GCP policy without bindings
  (`providers/gcp/adapter.py:336`) grant nothing and pass. At AWS an answer without
  the mapping `PublicAccessBlockConfiguration` (`providers/aws/adapter.py:397`,
  `:471`) blocks nothing, one without `PasswordPolicy` (`:777`) demands nothing, and
  the account fails.

Other disagreements that were met while modelling and have no run of their own:

* a job that runs out of attempts leaves its scan `running`: `_finish`
  (`worker/main.py:72`) writes the job only, and
  `docs/architecture/domain-model.md:219` has `running --> failed` when retries are
  exhausted;
* a scan that reopens a resolved finding adds no row to the trail: the upsert
  (`persistence/repository.py:371`) changes the status inside the statement, and
  `docs/planning/acceptance-criteria.md:179-181` promises a recorded transition;
* all IBM buckets are said to be encrypted by the provider, so `MCS-STOR-003`
  fails for each of them; `docs/guides/ibm.md:63-65` says that customer-managed
  keys remain unknown;
* asymmetric GCP keys get `insufficient_data`; `docs/guides/gcp.md:84-86` says
  "not applicable";
* `MCS-AWS-CT-001` looks at log validation only, the coverage matrix also names
  multi-region trails; `MCS-IAM-001` judges every principal, the matrix says
  interactive ones;
* TCP rules for ports 0-65535 are "all ports" at Azure and IBM and not at AWS
  and GCP, those for ports 1-65535 at IBM only; ports that cannot be read are no
  port at AWS and GCP and every port at IBM;
* which ports are those of data stores differs: 9200 is one everywhere but at
  Azure, 11211 at AWS only, 2049, 2379, 2380 and 9300 at IBM only;
* an IBM bucket whose ACL everybody may write counts as publicly writable; a
  conditional statement beside one that lets everybody read counts as
  letting everybody write, and the other way round;
* protocols: AWS looks at the protocol of a rule only if it is `-1`, Azure never;
  to IBM ICMP is all ports (`providers/ibm/network.py:31`); to GCP UDP without
  ports is all ports of all protocols for `MCS-NET-002`
  (`providers/gcp/adapter.py:484`). So a rule for ping or DNS may fail a policy
  about administration or data stores;
* GCP keys for MAC or raw encryption, and those without a purpose, count as
  keys that support rotation (`providers/gcp/adapter.py:702`) and fail
  `MCS-KMS-001` if they are not rotated;
* `docs/architecture/data-flows.md:219` has a heartbeat every 30 seconds, the code
  one a minute;
* `docs/architecture/data-flows.md:303` marks findings as stale that cannot be
  judged, and `docs/architecture/domain-model.md:484-485` lets suppressions and
  acceptances expire; no code does either;
* IBM ignores keys whose date cannot be read, AWS takes one such key for an
  unknown age;
* a GCP bucket whose objects everybody may create but not read counts as publicly
  readable; an Azure container is judged by its own access level although its
  account may forbid public access;
* IBM reads the first ten thousand users of the MFA report and says nothing of
  the others.

### What two changes do

`FailWarranted` and `PassWarranted` cover one change of the account during a
collection for every collector, and any number (two here) for most. They allow
only one where the code joins answers of different times, and TLC finds the wrong
verdict if they allow two:

* *A failing verdict that was never deserved*: `aws.s3.buckets`,
  `gcp.storage.buckets`, `ibm.cos.buckets` under `MCS-STOR-001` and `-002`. The
  setting that blocks public access and the policy are answers of their own. If
  access is blocked first and the policy is opened then, and the collector asks
  for the one before and for the other after, it sees the open half of each.
* *A passing verdict that was never deserved*: `ibm.cos.buckets`,
  `aws.ec2.security_groups`, `gcp.compute.firewalls`, `ibm.vpc.security_groups`,
  `ibm.vpc.network_acls` and `ibm.iam.identity`. A rule that is opened
  on a page already read while one on a page to come is closed is never seen,
  although the group was open throughout; so are the ACL and the policy of a
  bucket, and the old keys of a service ID.
* `ibm.cos.buckets` needs only *one* change for a wrong finding if a bucket policy
  has conditions: `get_bucket_policy` does not look at conditions and
  `get_bucket_policy_status` corrects it, and between the two the policy may be
  replaced. `Conditional` makes the properties ask for no change there.

A second collection repairs each of them, and nothing in the code promises
otherwise.

## Not modelled

* *Limits of facts and texts* (`facts/`, `providers/normalize.py`): sizes, depths and
  the sanitizing of texts. That an observation may be refused by them is a
  choice in `ScanRunner`.
* *`verify_access` and `resolve_scopes`* of the adapters: calls without a later
  step that depends on their order. Their failure is `Raise` in `ScanJobs`; that
  they may never return is in no run (see [Fairness](#fairness)).
* *The executor across scans*: threads that hang outlive their scan and are a
  constant of `ScanRunner`.
* *The credential report of AWS, locations outside the allow-list as a property of
  their own, IBM encryption*: read by no policy or decided by a
  constant. A location outside the allow-list is an aspect (`here`) of a thing.
* *An error of IBM's policy status for a bucket that has no policy*
  (`providers/ibm/cos.py:165`): IBM is taken to answer. If it did not, the target
  would fail.
* *The demo adapter*: a fixed estate.
* *Authentication*: one request reads and writes one user or session. The only
  state that requests share is the failed-login counter, which is read,
  incremented and written without a lock (`api/main.py:232`); increments of
  concurrent requests are lost, which needs no model to see.
* *Assets shared between connections*: assets are unique per organization, so a
  purge of one connection reaches, through the asset, findings of another.
  Whether a purge of a connection with findings succeeds at all depends on the order in
  which PostgreSQL runs the cascades of one statement
  (`findings.evidence_id` restricts, `persistence/models.py:315`), which the
  repository does not determine. `ScanStore` covers one connection.
* *The read API, export, command line, web application, identity hashing,
  redaction, configuration, logging*: no state that anything above depends on.
* *Database internals*: order of cascades, deadlocks between transactions,
  isolation levels above READ COMMITTED.
* *Statistics and order in lists* of results.

## Plan

1. *Done.* `ScanJobs`, its invariants, liveness and the proofs of its claims;
   `ScanResult`, `Findings` and `ScanStore` with the refinement proved;
   `ScanRunner`.
2. *Done.* Policies and the collectors of AWS, Azure, GCP and IBM Cloud, with
   `Posture` as the reference and an account that changes between calls.
3. *Done.* Proofs of the other safety properties of `ScanJobs`, of all of
   those of `ScanRunner`, and of those of `Collectors` that are about the course of a
   collection.
4. *Done.* The verdicts and the types of `Collectors`, for every account on which the
   code and the reference agree.
5. Left: an abstract specification of the queue (a job is claimed, given back,
   ended) that `ScanJobs` implements; assets of several connections (who owns
   the row, what a purge takes with it); the executor across scans (threads that
   hang outlive their scan).
