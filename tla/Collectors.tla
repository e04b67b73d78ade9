----------------------------- MODULE Collectors -----------------------------
(***************************************************************************)
(* A collection by one collector of one target, while the account it reads  *)
(* changes.                                                                *)
(*                                                                         *)
(* The account is "world": the configuration of every thing that exists;    *)
(* thing 0 is the account itself and always exists.  The collector learns   *)
(* it call by call, so what it knows of a thing ("seen") may never have     *)
(* been true at one time.  At the end it has the observations of what it    *)
(* listed, and the policy that is followed is evaluated on them.           *)
(*                                                                         *)
(* Failing calls other than "not found", retries, limits and deadlines are  *)
(* in ScanRunner: there a collection is its steps, here what they tell.    *)
(***************************************************************************)
EXTENDS AwsCollectors, AzureCollectors, GcpCollectors, IbmCollectors, Policies,
        Configurations, Posture

CONSTANTS
  Things,         \* the things an account may have, numbers from 1
  Subjects,       \* pairs <<collector, policy>>
  Configs(_, _),  \* the configurations a thing may have under a subject
  MaxChanges      \* bound: changes of the account during one collection

ASSUME ThingsAssumption == Things \subseteq Nat \ {0}

ASSUME BoundAssumption == MaxChanges \in Nat

ASSUME SubjectsAssumption ==
  \A s \in Subjects : s[1] \in AwsNames \cup AzureNames \cup GcpNames \cup IbmNames

\* The configurations of a subject may be fewer than those of its collector.
ASSUME ConfigsAssumption ==
  \A s \in Subjects :
    /\ \A t \in Things : \A c \in Configs(s, t) :
         c \in ThingConfigs(s[1]) /\ Consistent(s[1], c)
    /\ Configs(s, 0) \subseteq AccountConfigs(s[1])

VARIABLES subject, world, past, changes, todo, listed, seen, outcome

vars == <<subject, world, past, changes, todo, listed, seen, outcome>>

collector == subject[1]
policy == subject[2]

Program ==
  CASE collector \in AwsNames   -> AwsProgram(collector)
    [] collector \in AzureNames -> AzureProgram(collector)
    [] collector \in GcpNames   -> GcpProgram(collector)
    [] collector \in IbmNames   -> IbmProgram(collector)
-----------------------------------------------------------------------------
(***************************************************************************)
(* The steps that are left to do: a call about everything, the listing from *)
(* a cursor on, the calls about the things of a page.                      *)
(***************************************************************************)
Sweep(call)        == [step |-> "sweep", call |-> call]
List(cursor)       == [step |-> "list", cursor |-> cursor]
Ask(things, calls) == [step |-> "ask", things |-> things, calls |-> calls]

Sweeps(calls) == [i \in DOMAIN calls |-> Sweep(calls[i])]
Asks(things)  == IF things = {} \/ Program.each = <<>> THEN <<>>
                 ELSE <<Ask(things, Program.each)>>

Steps ==
  Sweeps(Program.before) \o (IF Program.lists THEN <<List(0)>> ELSE <<>>)
    \o Sweeps(Program.after)

Running == outcome = "running"

Exists(t) == t \in DOMAIN world

\* All ways the things that exist may be configured.
Worlds(existing) ==
  LET ways == [t \in existing |-> Configs(subject, t)]
  IN {w \in [existing -> UNION {ways[t] : t \in existing}] : \A t \in existing : w[t] \in ways[t]}

Init ==
  /\ subject \in Subjects
  /\ \E existing \in SUBSET Things : world \in Worlds(existing \cup {0})
  /\ past = {world}
  /\ changes = 0
  /\ todo = Steps
  /\ listed = {}
  /\ seen = [t \in Things \cup {0} |-> <<>>]
  /\ outcome = "running"

\* The providers have a code of their own for a setting that was never made.
\* IBM's policy status is taken to answer for a bucket without a policy: the
\* collector expects no code there.
NoSuch(operation, config) ==
  CASE operation = "get_bucket_policy" -> config.policy = {}
    [] operation = "get_bucket_policy_status" /\ collector = "aws.s3.buckets" -> config.policy = {}
    [] operation \in {"get_public_access_block", "get_account_public_access_block"} ->
         config.block = "absent"
    [] operation = "get_bucket_encryption" -> config.encryption = {"absent"}
    [] operation = "get_account_password_policy" -> config.password_policy = "absent"
    [] OTHER -> FALSE

\* Bug: a bucket without default encryption is not expected.
ToleratesTooLittle(operation, exists) ==
  CASE collector = "ibm.cos.buckets" -> operation = "get_bucket_policy"
    [] OTHER -> exists /\ operation \in {"get_bucket_policy_status", "get_bucket_policy",
                  "get_public_access_block", "get_account_public_access_block",
                  "get_account_password_policy"}

\* Bug: a bucket that is gone is taken for one without the setting.
ToleratesDeleted(operation, exists) ==
  CASE collector = "ibm.cos.buckets" -> operation = "get_bucket_policy"
    [] OTHER -> operation \in {"get_bucket_policy_status", "get_bucket_policy",
                  "get_public_access_block", "get_account_public_access_block",
                  "get_bucket_encryption", "get_account_password_policy"}

\* missing_codes of the AWS calls: the setting may be missing, not the bucket.
\* IBM takes any "not found" of a bucket's policy for an empty one.
Tolerates(operation, exists) ==
  CASE collector = "ibm.cos.buckets" -> operation = "get_bucket_policy"
    [] OTHER -> exists /\ operation \in {"get_bucket_policy_status", "get_bucket_policy",
                  "get_public_access_block", "get_account_public_access_block",
                  "get_bucket_encryption", "get_account_password_policy"}

\* What such a setting counts as.
Missing == [policy |-> {}, public |-> FALSE, block |-> "absent",
            encryption |-> {"absent"}, password_policy |-> "absent"]

\* What an answer tells, added to what is known.
Added(known, answer) ==
  [a \in DOMAIN known \cup DOMAIN answer |->
     IF a \in DOMAIN answer THEN answer[a] ELSE known[a]]

Learn(t, aspects) ==
  Added(seen[t], [a \in aspects \cap DOMAIN world[t] |-> world[t][a]])

\* _optional_call of AWS, get_bucket_policy of IBM
LearnMissing(t, aspects) == Added(seen[t], [a \in aspects |-> Missing[a]])
-----------------------------------------------------------------------------
Done(rest) == IF rest = <<>> THEN "complete" ELSE "running"

\* The next step, whatever it finds out.
Advance(rest) ==
  /\ todo' = rest
  /\ outcome' = Done(rest)
  /\ UNCHANGED <<subject, world, past, changes>>

(***************************************************************************)
(* A call about everything: the settings of the account, or a list of       *)
(* parts (rules, keys) that name the thing they belong to.                 *)
(***************************************************************************)
SweepAll ==
  /\ Running /\ Head(todo).step = "sweep"
  /\ LET call == Head(todo).call IN
       IF NoSuch(call.operation, world[0])
       THEN /\ Tolerates(call.operation, TRUE)
            /\ seen' = [seen EXCEPT ![0] = LearnMissing(0, call.reads)]
       ELSE seen' = [t \in DOMAIN seen |-> IF Exists(t) THEN Learn(t, call.reads) ELSE seen[t]]
  /\ UNCHANGED listed
  /\ Advance(Tail(todo))

\* Bug: the first page is taken for all.
MoreIgnored(rest) == FALSE

\* The answer has a token for another page.
More(rest) == rest # {}

\* What is listed and not passed over: Azure looks at the location, CloudTrail
\* at the home region of a trail.
Kept(config) == "here" \in DOMAIN config => LocationAllowed(config)

(***************************************************************************)
(* A page of the listing: what follows the cursor, up to any thing or all   *)
(* of it.  The things of the page are asked about before the next page.    *)
(***************************************************************************)
ListPage ==
  /\ Running /\ Head(todo).step = "list"
  /\ LET there == {t \in DOMAIN world \ {0} : t > Head(todo).cursor}
     IN \E last \in there \cup {0} :
          LET page == {t \in there : t <= last}
              kept == {t \in page : Kept(world[t])}
              next == IF More(there \ page) THEN <<List(last)>> ELSE <<>>
          IN /\ IF Program.paged THEN there # {} => page # {} ELSE page = there
             /\ listed' = listed \cup kept
             /\ seen' = [t \in DOMAIN seen |->
                           IF t \in kept THEN Learn(t, Program.item) ELSE seen[t]]
             /\ Advance(Asks(kept) \o next \o Tail(todo))

\* What is asked for only if it is worth it.
Needed(t, operation) ==
  CASE operation = "get_key_rotation_status" -> seen[t].supports = "yes"
    [] operation = "get_mfa_status"          -> IbmTri(seen[t].report) = "unknown"
    [] OTHER                                 -> TRUE

(***************************************************************************)
(* A call about one thing: the next call about the first thing that is left *)
(* of a page, or the first call about the thing that follows it.           *)
(***************************************************************************)
Asking(t) ==
  /\ Running /\ Head(todo).step = "ask"
  /\ t \in Head(todo).things /\ \A u \in Head(todo).things : t <= u

NextCall == Head(Head(todo).calls)

AfterCall(t) ==
  LET ask == Head(todo)
  IN (IF Len(ask.calls) > 1 THEN <<Ask(ask.things, Tail(ask.calls))>>
      ELSE Asks(ask.things \ {t})) \o Tail(todo)

Skip(t) ==
  /\ Asking(t) /\ ~Needed(t, NextCall.operation)
  /\ UNCHANGED <<listed, seen>>
  /\ Advance(AfterCall(t))

Answers(t, operation) == Exists(t) /\ ~NoSuch(operation, world[t])

Answered(t) ==
  /\ Asking(t) /\ Needed(t, NextCall.operation)
  /\ Answers(t, NextCall.operation)
  /\ seen' = [seen EXCEPT ![t] = Learn(t, NextCall.reads)]
  /\ UNCHANGED listed
  /\ Advance(AfterCall(t))

NotFound(t) ==
  /\ Asking(t) /\ Needed(t, NextCall.operation)
  /\ ~Answers(t, NextCall.operation)
  /\ IF Tolerates(NextCall.operation, Exists(t))
     THEN /\ seen' = [seen EXCEPT ![t] = LearnMissing(t, NextCall.reads)]
          /\ Advance(AfterCall(t))
     ELSE /\ outcome' = "missing"
          /\ todo' = <<>>
          /\ UNCHANGED <<subject, world, past, changes, seen>>
  /\ UNCHANGED listed
-----------------------------------------------------------------------------
(***************************************************************************)
(* Changes of the account during the collection.  What a status tells       *)
(* follows the setting it is the status of.                                *)
(***************************************************************************)
Rigid   == {"here", "supports", "purpose"}
Follows == {"public", "report"}

Becomes(w) ==
  /\ Running /\ changes < MaxChanges
  /\ world' = w
  /\ past' = past \cup {w}
  /\ changes' = changes + 1
  /\ UNCHANGED <<subject, todo, listed, seen, outcome>>

Reconfigure ==
  \E t \in DOMAIN world : \E c \in Configs(subject, t) :
    LET differ == {a \in DOMAIN c : c[a] # world[t][a]}
    IN /\ differ \cap Rigid = {} /\ \E a \in differ : differ \ Follows = {a}
       /\ Becomes([world EXCEPT ![t] = c])

Create ==
  \E t \in Things : \E c \in Configs(subject, t) :
    /\ \A w \in past : t \notin DOMAIN w
    /\ Becomes([i \in DOMAIN world \cup {t} |-> IF i = t THEN c ELSE world[i]])

Delete ==
  \E t \in DOMAIN world \ {0} : Becomes([i \in DOMAIN world \ {t} |-> world[i]])

Next ==
  \/ SweepAll \/ ListPage
  \/ \E t \in Things : Skip(t) \/ Answered(t) \/ NotFound(t)
  \/ Reconfigure \/ Create \/ Delete

Spec == Init /\ [][Next]_vars
-----------------------------------------------------------------------------
(***************************************************************************)
(* What comes out of a collection that is complete.                        *)
(***************************************************************************)
Observed(t) ==
  CASE Program.provider = "aws" -> AwsObservations(collector, t, seen[t])
    [] Program.provider = "azure" -> IF t = 0 THEN {} ELSE AzureObservations(collector, seen[t])
    [] Program.provider = "gcp" ->
         GcpObservations(collector, t, [i \in listed \cup {0} |-> seen[i]])
    [] Program.provider = "ibm" -> IbmObservations(collector, t, seen[t])

Verdict(o) == Evaluate(Catalog(policy), Program.provider, o.type, o.facts)
-----------------------------------------------------------------------------
FactType(fact) ==
  CASE fact = "encryption_at_rest" ->
         {"customer_managed", "provider_managed", "none", "unknown"}
    [] fact = "credential_age_days" -> NoAge..MaxAge
    [] OTHER -> TriStates

\* The types in "produces" of a collector that a policy may apply to, and
\* the others.
Produces ==
  CASE collector \in {"aws.s3.buckets", "azure.storage.containers", "gcp.storage.buckets",
                     "ibm.cos.buckets"} -> Buckets
    [] collector \in {"aws.ec2.security_groups", "azure.network.security_groups",
                     "gcp.compute.firewalls", "ibm.vpc.security_groups",
                     "ibm.vpc.network_acls"} -> Firewalls
    [] collector \in {"aws.s3.account", "azure.inventory.resources", "gcp.inventory.assets",
                     "ibm.inventory.resources"} -> Accounts
    [] collector \in {"aws.iam.principals", "ibm.iam.identity", "ibm.iam.identity.users"} ->
         Principals \cup Accounts
    [] collector \in {"azure.authorization.role_assignments", "ibm.iam.policies"} ->
         {"identity.policy_binding"}
    [] collector = "gcp.iam.project_policy" -> {"identity.policy_binding"} \cup Accounts
    [] collector \in {"aws.cloudtrail.trails", "gcp.logging.audit_config"} ->
         {"logging.audit_trail"}
    [] collector = "azure.monitor.diagnostic_settings" -> {"logging.diagnostic_setting"}
    [] collector \in {"aws.kms.keys", "gcp.kms.keys"} -> {"kms.key"}
    [] collector = "azure.keyvault.vaults" -> {"kms.vault"}
    [] collector = "azure.storage.accounts" -> {"object_storage.account"}

Complete == outcome = "complete"

\* What is observed is of a type the collector may produce, and its facts
\* are values of the fact models.
TypeOK ==
  /\ outcome \in {"running", "complete", "missing"}
  /\ listed \subseteq Things
  /\ changes \in 0..MaxChanges
  /\ world \in past
  /\ Complete =>
       \A t \in listed \cup {0} : \A o \in Observed(t) :
         /\ o.type \in Produces
         /\ \A f \in DOMAIN o.facts : o.facts[f] \in FactType(f)

\* Whatever is known of a thing, while the collection runs and after it, was so
\* at some time: nothing is made up for what could not be read.  But IBM takes
\* the policy of a bucket that was deleted for an empty one.
KnownWasSo ==
  \A t \in Things \cup {0} : \A a \in DOMAIN seen[t] :
    \/ \E w \in past : t \in DOMAIN w /\ a \in DOMAIN w[t] /\ w[t][a] = seen[t][a]
    \/ /\ collector = "ibm.cos.buckets" /\ a = "policy" /\ seen[t][a] = {}
       /\ ~Exists(t)

(***************************************************************************)
(* Some facts are put together from several answers, and there is no time   *)
(* at which all answers were given.  With two changes in between, such a    *)
(* fact may be one that never held; with one change it was true before or   *)
(* after it.  IBM asks twice about one setting, and for a policy whose      *)
(* conditions it does not look at then trusts a status that may be the      *)
(* status of another policy: there one change is too many.                 *)
(***************************************************************************)
FailsJoin  == {"aws.s3.buckets", "gcp.storage.buckets", "ibm.cos.buckets"}
PassesJoin == {"ibm.cos.buckets", "aws.ec2.security_groups", "gcp.compute.firewalls",
               "ibm.vpc.security_groups", "ibm.vpc.network_acls", "ibm.iam.identity"}

\* The policies whose fact is put together that way.
Joining == {"STOR-001", "STOR-002", "NET-001", "NET-002", "NET-003", "IAM-002"}

Conditional ==
  /\ collector = "ibm.cos.buckets"
  /\ \E w \in past : \E t \in DOMAIN w \ {0} : "guarded" \in w[t].policy

Judged(joining) ==
  /\ Complete
  /\ collector \in joining /\ policy \in Joining
       => changes <= IF Conditional THEN 0 ELSE 1

TruthIn(w, t, part) == IF t \in DOMAIN w THEN Truth(collector, policy, t, part, w) ELSE "none"

\* A failing verdict was deserved at some time during the collection: no
\* finding is made up from answers of different times.
FailWarranted ==
  Judged(FailsJoin) =>
    \A t \in listed \cup {0} : \A o \in Observed(t) :
      Verdict(o) = "fail" => \E w \in past : TruthIn(w, t, o.part) = "bad"

\* A passing verdict was deserved at some time during the collection, unless
\* the thing was gone by then: what cannot be read never passes.
PassWarranted ==
  Judged(PassesJoin) =>
    \A t \in listed \cup {0} : \A o \in Observed(t) :
      Verdict(o) = "pass" => \E w \in past : TruthIn(w, t, o.part) \in {"good", "none"}

\* What existed all the time is listed, whatever else changed.
Throughout(t) == \A w \in past : t \in DOMAIN w /\ Kept(w[t])

NothingMissed ==
  Complete /\ Program.lists => \A t \in Things : Throughout(t) => t \in listed

\* A storage account without a container has nothing to report its settings of.
Reported(config) == "access" \in DOMAIN config => config.access # "gone"

\* What violated the policy all the time gets a failing verdict, whatever else
\* changed.
NothingOverlooked ==
  Judged(PassesJoin) =>
    \A t \in Things \cup {0}, part \in 0..2 :
      (Throughout(t) /\ \A w \in past : Reported(w[t]) /\ TruthIn(w, t, part) = "bad") =>
        \E o \in Observed(t) : o.part = part /\ Verdict(o) = "fail"

\* A collection is given up for something that is not found only if
\* something it listed was deleted: a setting that was never made is not an
\* error.
FailureHasCause ==
  outcome = "missing" => \E t \in listed : ~Exists(t)

\* docs/architecture/data-flows.md:247: "Missing or unreadable input yields
\* `TriState.UNKNOWN`, never a default of `False`/`True`".  So what lacks the
\* value a policy is about gets no verdict from it.
MissingIsUnknown ==
  Complete =>
    \A t \in listed \cup {0} : \A o \in Observed(t) :
      Verdict(o) \in {"pass", "fail"} =>
        \E w \in past : TruthIn(w, t, o.part) # "open"
=============================================================================
