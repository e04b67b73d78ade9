-------------------------- MODULE AgreementProofs --------------------------
(***************************************************************************)
(* The verdicts on an account that does not change: what the collectors     *)
(* derive from the configuration of a thing, and the policies make of it,   *)
(* is what the reference says of the configuration, for every one that      *)
(* Agreement admits.                                                       *)
(***************************************************************************)
EXTENDS Agreement, WellFoundedInduction, TLAPS

\* A verdict is right about a truth: it fails what is bad, and passes only
\* what is good.
Right(verdict, truth) ==
  /\ verdict = "fail" <=> truth = "bad"
  /\ verdict = "pass" => truth = "good"

\* The verdict of policy p on an asset of some facts.
Says(p, provider, type, facts) == Evaluate(Catalog(p), provider, type, facts)

\* What observations say of thing t is right about world w.
Deserved(obs, provider, k, p, t, w) ==
  \A o \in obs : Right(Says(p, provider, o.type, o.facts), Truth(k, p, t, o.part, w))

\* Each part of a thing that is bad in world w is observed.
Covered(obs, k, p, t, w) ==
  \A part \in 0..2 : Truth(k, p, t, part, w) = "bad" => \E o \in obs : o.part = part
-----------------------------------------------------------------------------
(***************************************************************************)
(* The catalog, and what a verdict says of the fact that a policy reads.    *)
(***************************************************************************)
LEMMA StorageEntries ==
  /\ Catalog("STOR-001") = Policy(Everywhere, Buckets, "public_read_access", "yes_is_fail")
  /\ Catalog("STOR-002") = Policy(Everywhere, Buckets, "public_write_access", "yes_is_fail")
  /\ Catalog("STOR-003") = Policy(Everywhere, Buckets, "encryption_at_rest", "not_customer_managed")
  /\ Catalog("STOR-004") = Policy(Everywhere, Buckets, "access_logging_enabled", "no_is_fail")
  /\ Catalog("STOR-005") = Policy(Everywhere, Buckets, "tls_required", "no_is_fail")
  BY DEF Catalog, StoragePolicies, NetworkPolicies, OtherPolicies, StoragePolicy

LEMMA NetworkEntries ==
  /\ Catalog("NET-001") = Policy(Everywhere, Firewalls, "unrestricted_admin_ingress", "yes_is_fail")
  /\ Catalog("NET-002") = Policy(Everywhere, Firewalls, "unrestricted_all_ports", "yes_is_fail")
  /\ Catalog("NET-003") = Policy(Everywhere, Firewalls, "unrestricted_datastore_ingress", "yes_is_fail")
  BY DEF Catalog, StoragePolicies, NetworkPolicies, OtherPolicies, NetworkPolicy

LEMMA OtherEntries ==
  /\ Catalog("IAM-001") = Policy(Everywhere, Principals, "mfa_enabled", "no_is_fail")
  /\ Catalog("IAM-002") = Policy({"aws", "ibm"}, Principals, "credential_age_days", "age_over_90")
  /\ Catalog("LOG-001") = Policy({"aws", "azure", "gcp"}, Logs \cup Accounts,
                                 "audit_logging_enabled", "no_is_fail")
  /\ Catalog("KMS-001") = Policy({"aws", "azure", "gcp"}, Keys, "rotation_enabled", "no_is_fail")
  BY DEF Catalog, StoragePolicies, NetworkPolicies, OtherPolicies, OtherPolicy

LEMMA ProviderEntries ==
  /\ Catalog("AWS-S3-001") = Policy({"aws"}, Accounts, "block_public_access_all", "no_is_fail")
  /\ Catalog("AWS-IAM-001") = Policy({"aws"}, Principals, "root_access_keys_active", "yes_is_fail")
  /\ Catalog("AWS-IAM-002") = Policy({"aws"}, Principals, "password_policy_strong", "no_is_fail")
  /\ Catalog("AWS-CT-001") = Policy({"aws"}, Logs, "validation_enabled", "no_is_fail")
  /\ Catalog("AZ-STOR-001") = Policy({"azure"}, Buckets, "allow_shared_key_access", "yes_is_fail")
  /\ Catalog("AZ-KV-001") = Policy({"azure"}, Keys, "soft_delete_enabled", "no_is_fail")
  /\ Catalog("AZ-KV-002") = Policy({"azure"}, Keys, "purge_protection_enabled", "no_is_fail")
  /\ Catalog("GCP-STOR-001") = Policy({"gcp"}, Buckets, "uniform_bucket_level_access", "no_is_fail")
  /\ Catalog("GCP-STOR-002") = Policy({"gcp"}, Buckets, "public_access_prevention", "no_is_fail")
  /\ Catalog("IBM-IAM-001") = Policy({"ibm"}, Accounts, "account_mfa_enforced", "no_is_fail")
  BY DEF Catalog, StoragePolicies, NetworkPolicies, OtherPolicies, ProviderPolicy

LEMMA YesIsFail ==
  ASSUME NEW p, NEW providers, NEW types, NEW fact,
         Catalog(p) = Policy(providers, types, fact, "yes_is_fail"),
         NEW provider \in providers, NEW type \in types, NEW facts, fact \in DOMAIN facts
  PROVE  /\ Says(p, provider, type, facts) = "fail" <=> facts[fact] = "yes"
         /\ Says(p, provider, type, facts) = "pass" <=> facts[fact] \notin {"yes", "unknown"}
  BY DEF Says, Evaluate, Applies, Known, Violates, Policy

LEMMA NoIsFail ==
  ASSUME NEW p, NEW providers, NEW types, NEW fact,
         Catalog(p) = Policy(providers, types, fact, "no_is_fail"),
         NEW provider \in providers, NEW type \in types, NEW facts, fact \in DOMAIN facts
  PROVE  /\ Says(p, provider, type, facts) = "fail" <=> facts[fact] = "no"
         /\ Says(p, provider, type, facts) = "pass" <=> facts[fact] \notin {"no", "unknown"}
  BY DEF Says, Evaluate, Applies, Known, Violates, Policy

LEMMA OwnKeyOrFail ==
  ASSUME NEW p, NEW providers, NEW types, NEW fact,
         Catalog(p) = Policy(providers, types, fact, "not_customer_managed"),
         NEW provider \in providers, NEW type \in types, NEW facts, fact \in DOMAIN facts
  PROVE  /\ Says(p, provider, type, facts) = "fail"
              <=> facts[fact] \notin {"customer_managed", "unknown"}
         /\ Says(p, provider, type, facts) = "pass" <=> facts[fact] = "customer_managed"
  BY DEF Says, Evaluate, Applies, Known, Violates, Policy

LEMMA OldIsFail ==
  ASSUME NEW p, NEW providers, NEW types, NEW fact,
         Catalog(p) = Policy(providers, types, fact, "age_over_90"),
         NEW provider \in providers, NEW type \in types, NEW facts, fact \in DOMAIN facts,
         facts[fact] \in Int
  PROVE  /\ Says(p, provider, type, facts) = "fail" <=> facts[fact] > 90
         /\ Says(p, provider, type, facts) = "pass" <=> facts[fact] \in 0..90 \/ facts[fact] < NoAge
  BY DEF Says, Evaluate, Applies, Known, Violates, Policy, NoAge

\* A policy that does not apply, or whose fact is not there or not known, has
\* nothing to say.
LEMMA NothingSaid ==
  ASSUME NEW p, NEW providers, NEW types, NEW fact, NEW predicate,
         Catalog(p) = Policy(providers, types, fact, predicate),
         NEW provider, NEW type, NEW facts,
         \/ provider \notin providers \/ type \notin types \/ fact \notin DOMAIN facts
         \/ predicate # "age_over_90" /\ facts[fact] = "unknown"
         \/ predicate = "age_over_90" /\ facts[fact] = NoAge
  PROVE  Says(p, provider, type, facts) \notin {"fail", "pass"}
  BY DEF Says, Evaluate, Applies, Known, Violates, Policy

\* Values that answers may lack, and values they always have.
LEMMA WishedYes ==
  ASSUME NEW p, NEW providers, NEW types, NEW fact,
         Catalog(p) = Policy(providers, types, fact, "no_is_fail"),
         NEW provider \in providers, NEW type \in types, NEW facts, fact \in DOMAIN facts,
         facts[fact] \in TriStates
  PROVE  Right(Says(p, provider, type, facts), Wanted(facts[fact], "yes"))
  BY NoIsFail DEF Right, Wanted, Judge, TriStates

LEMMA WishedNo ==
  ASSUME NEW p, NEW providers, NEW types, NEW fact,
         Catalog(p) = Policy(providers, types, fact, "yes_is_fail"),
         NEW provider \in providers, NEW type \in types, NEW facts, fact \in DOMAIN facts,
         facts[fact] \in TriStates
  PROVE  Right(Says(p, provider, type, facts), Wanted(facts[fact], "no"))
  BY YesIsFail DEF Right, Wanted, Judge, TriStates

LEMMA SetOrNot ==
  ASSUME NEW p, NEW providers, NEW types, NEW fact,
         Catalog(p) = Policy(providers, types, fact, "no_is_fail"),
         NEW provider \in providers, NEW type \in types, NEW facts, fact \in DOMAIN facts,
         NEW b \in BOOLEAN, facts[fact] = Is(b)
  PROVE  Right(Says(p, provider, type, facts), Judge(b, TRUE))
  BY NoIsFail DEF Right, Judge, Is, TriState
-----------------------------------------------------------------------------
(***************************************************************************)
(* The reference.                                                          *)
(***************************************************************************)
Net == {"NET-001", "NET-002", "NET-003"}

\* The truth about a thing that is its own and only part.
LEMMA TruthOfOne ==
  ASSUME NEW k, NEW p, p \notin Net \cup {"LOG-001"}, NEW t, NEW w, NEW part
  PROVE  Truth(k, p, t, part, w) =
           IF part = 0 /\ DOMAIN w[t] # {} THEN TruthOfThing(k, p, w[t]) ELSE "open"
  BY DEF Truth, Net

LEMMA TruthOfLog ==
  ASSUME NEW k, NEW t, NEW w, NEW part
  PROVE  Truth(k, "LOG-001", t, part, w) =
           IF DOMAIN w[t] \cap {"logging", "settings"} # {} THEN LogTruth(k, w[t], part) ELSE "open"
  BY DEF Truth

LEMMA TruthOfRules ==
  ASSUME NEW k, NEW p \in Net, NEW t, NEW w, NEW part
  PROVE  Truth(k, p, t, part, w) =
           IF IF k = "gcp.compute.firewalls" THEN part = 0 ELSE t # 0
           THEN RulesTruth(RulesOf(k, t, part, w), p) ELSE "open"
  BY DEF Truth, Net

\* A thing with one observation, of itself.
LEMMA OneObservation ==
  ASSUME NEW k, NEW p, p \notin Net \cup {"LOG-001"}, NEW t, NEW w, DOMAIN w[t] # {},
         NEW provider, NEW type, NEW facts,
         Right(Says(p, provider, type, facts), TruthOfThing(k, p, w[t]))
  PROVE  /\ Deserved({Observation(0, type, facts)}, provider, k, p, t, w)
         /\ Covered({Observation(0, type, facts)}, k, p, t, w)
<1> DEFINE o == Observation(0, type, facts)
<1>1. o.part = 0 /\ o.type = type /\ o.facts = facts
  BY DEF Observation
<1> HIDE DEF o
<1>2. \A part : Truth(k, p, t, part, w) = IF part = 0 THEN TruthOfThing(k, p, w[t]) ELSE "open"
  BY TruthOfOne
<1>3. Deserved({o}, provider, k, p, t, w)
  BY <1>1, <1>2 DEF Deserved
<1>4. Covered({o}, k, p, t, w)
  BY <1>1, <1>2 DEF Covered
<1>5. QED
  BY <1>3, <1>4 DEF o

LEMMA OneLog ==
  ASSUME NEW k, k # "azure.monitor.diagnostic_settings", NEW t, NEW w, "logging" \in DOMAIN w[t],
         NEW provider, NEW type, NEW facts,
         Right(Says("LOG-001", provider, type, facts), Wanted(w[t].logging, "yes"))
  PROVE  /\ Deserved({Observation(0, type, facts)}, provider, k, "LOG-001", t, w)
         /\ Covered({Observation(0, type, facts)}, k, "LOG-001", t, w)
<1> DEFINE o == Observation(0, type, facts)
<1>1. o.part = 0 /\ o.type = type /\ o.facts = facts
  BY DEF Observation
<1> HIDE DEF o
<1>2. \A part : Truth(k, "LOG-001", t, part, w) =
                  IF part = 0 THEN Wanted(w[t].logging, "yes") ELSE "open"
  BY TruthOfLog DEF LogTruth
<1>3. Deserved({o}, provider, k, "LOG-001", t, w)
  BY <1>1, <1>2 DEF Deserved
<1>4. Covered({o}, k, "LOG-001", t, w)
  BY <1>1, <1>2 DEF Covered
<1>5. QED
  BY <1>3, <1>4 DEF o

\* A thing with a second observation, of which nothing is said.
LEMMA TwoObservations ==
  ASSUME NEW k, NEW p, p \notin Net \cup {"LOG-001"}, NEW t, NEW w, DOMAIN w[t] # {},
         NEW provider, NEW type, NEW facts, NEW type2, NEW facts2,
         Right(Says(p, provider, type, facts), TruthOfThing(k, p, w[t])),
         Says(p, provider, type2, facts2) \notin {"fail", "pass"}
  PROVE  LET obs == {Observation(0, type, facts), Observation(1, type2, facts2)}
         IN Deserved(obs, provider, k, p, t, w) /\ Covered(obs, k, p, t, w)
<1> DEFINE o1 == Observation(0, type, facts)
           o2 == Observation(1, type2, facts2)
<1>1. o1.part = 0 /\ o1.type = type /\ o1.facts = facts
  BY DEF Observation
<1>2. o2.part = 1 /\ o2.type = type2 /\ o2.facts = facts2
  BY DEF Observation
<1> HIDE DEF o1, o2
<1>3. \A part : Truth(k, p, t, part, w) = IF part = 0 THEN TruthOfThing(k, p, w[t]) ELSE "open"
  BY TruthOfOne
<1>4. Right(Says(p, provider, type2, facts2), "open")
  BY DEF Right
<1>5. Deserved({o1, o2}, provider, k, p, t, w)
  BY <1>1, <1>2, <1>3, <1>4 DEF Deserved
<1>6. Covered({o1, o2}, k, p, t, w)
  BY <1>1, <1>3 DEF Covered
<1>7. QED
  BY <1>5, <1>6 DEF o1, o2

\* Nothing is said of what has no aspects, and nothing is wrong with it.
LEMMA NothingToSay ==
  ASSUME NEW k, NEW p, NEW t, NEW w, DOMAIN w[t] = {},
         p \notin Net \/ (k # "gcp.compute.firewalls" /\ t = 0),
         NEW provider, NEW obs,
         \A o \in obs : Says(p, provider, o.type, o.facts) \notin {"fail", "pass"}
  PROVE  Deserved(obs, provider, k, p, t, w) /\ Covered(obs, k, p, t, w)
<1>1. \A part : Truth(k, p, t, part, w) = "open"
  <2>1. CASE p = "LOG-001"
    BY <2>1, TruthOfLog
  <2>2. CASE p \in Net
    BY <2>2, TruthOfRules
  <2>3. CASE p \notin Net \cup {"LOG-001"}
    BY <2>3, TruthOfOne
  <2>4. QED
    BY <2>1, <2>2, <2>3
<1>2. QED
  BY <1>1 DEF Deserved, Covered, Right
-----------------------------------------------------------------------------
(***************************************************************************)
(* Firewall rules.                                                         *)
(***************************************************************************)
\* The fact that a policy about rules reads.
OpenTo(p) ==
  CASE p = "NET-001" -> "unrestricted_admin_ingress"
    [] p = "NET-002" -> "unrestricted_all_ports"
    [] p = "NET-003" -> "unrestricted_datastore_ingress"

LEMMA NetEntry ==
  ASSUME NEW p \in Net
  PROVE  Catalog(p) = Policy(Everywhere, Firewalls, OpenTo(p), "yes_is_fail")
  BY NetworkEntries DEF Net, OpenTo

\* A rule that lacks nothing stands for itself.
LEMMA NothingToFill ==
  ASSUME NEW r \in FirewallRules, r.ports # "odd",
         "absent" \notin {r.direction, r.access, r.source}
  PROVE  Completions(r) = {r}
<1>1. Completion(r, r.direction, r.access, r.source, r.ports) = r
  BY DEF FirewallRules, Completion
<1>2. /\ Filled(r.direction, "absent", {"in", "out"}) = {r.direction}
      /\ Filled(r.access, "absent", {"allow", "deny"}) = {r.access}
      /\ Filled(r.source, "absent", {"world", "private"}) = {r.source}
      /\ Filled(r.ports, "odd", {"any", "none"}) = {r.ports}
  BY DEF Filled
<1>3. Completions(r) = {Completion(r, d, a, s, p) :
          d \in {r.direction}, a \in {r.access}, s \in {r.source}, p \in {r.ports}}
  BY <1>2 DEF Completions
<1>4. QED
  BY <1>1, <1>3

\* Rules that lack nothing expose or do not.
LEMMA RulesRight ==
  ASSUME NEW p \in Net, NEW provider \in Everywhere, NEW type \in Firewalls, NEW facts,
         OpenTo(p) \in DOMAIN facts, NEW rules, \A r \in rules : Completions(r) = {r},
         facts[OpenTo(p)] = Is(\E r \in rules : Exposes(r, p))
  PROVE  Right(Says(p, provider, type, facts), RulesTruth(rules, p))
<1>1. RulesTruth(rules, p) = IF \E r \in rules : Exposes(r, p) THEN "bad" ELSE "good"
  BY DEF RulesTruth, Judge
<1>2. facts[OpenTo(p)] = IF \E r \in rules : Exposes(r, p) THEN "yes" ELSE "no"
  BY DEF Is, TriState
<1>3. /\ Says(p, provider, type, facts) = "fail" <=> facts[OpenTo(p)] = "yes"
      /\ Says(p, provider, type, facts) = "pass" <=> facts[OpenTo(p)] \notin {"yes", "unknown"}
  <2> DEFINE fact == OpenTo(p)
  <2>1. Catalog(p) = Policy(Everywhere, Firewalls, fact, "yes_is_fail") /\ fact \in DOMAIN facts
    BY NetEntry
  <2> HIDE DEF fact
  <2>2. /\ Says(p, provider, type, facts) = "fail" <=> facts[fact] = "yes"
        /\ Says(p, provider, type, facts) = "pass" <=> facts[fact] \notin {"yes", "unknown"}
    BY <2>1, YesIsFail
  <2>3. QED
    BY <2>2 DEF fact
<1>4. QED
  BY <1>1, <1>2, <1>3 DEF Right

LEMMA PartsOfRules ==
  ASSUME NEW A, NEW B
  PROVE  /\ DOMAIN RuleParts(<<A, B>>)
              = {0} \cup (IF A = {} THEN {} ELSE {1}) \cup (IF B = {} THEN {} ELSE {2})
         /\ \A i \in DOMAIN RuleParts(<<A, B>>) :
              RuleParts(<<A, B>>)[i] = IF i = 0 THEN A \cup B ELSE IF i = 1 THEN A ELSE B
<1> DEFINE rules == <<A, B>>
<1>1. DOMAIN rules = {1, 2} /\ rules[1] = A /\ rules[2] = B
  OBVIOUS
<1> HIDE DEF rules
<1>2. UNION {rules[j] : j \in DOMAIN rules} = A \cup B
  BY <1>1
<1>3. {j \in DOMAIN rules : rules[j] # {}}
        = (IF A = {} THEN {} ELSE {1}) \cup (IF B = {} THEN {} ELSE {2})
  BY <1>1
<1> DEFINE there == {j \in DOMAIN rules : rules[j] # {}}
<1>4. /\ DOMAIN RuleParts(rules) = {0} \cup there
      /\ \A i \in DOMAIN RuleParts(rules) :
           RuleParts(rules)[i] = IF i = 0 THEN UNION {rules[j] : j \in DOMAIN rules} ELSE rules[i]
  BY DEF RuleParts
<1>5. \A i \in DOMAIN RuleParts(rules) : i \in {0, 1, 2}
  BY <1>3, <1>4
<1>6. \A i \in DOMAIN RuleParts(rules) :
        RuleParts(rules)[i] = IF i = 0 THEN A \cup B ELSE IF i = 1 THEN A ELSE B
  BY <1>1, <1>2, <1>4, <1>5
<1>7. QED
  BY <1>3, <1>4, <1>6 DEF rules

\* A thing of two rules, observed as a whole and by its rules.
LEMMA RuleSetDeserved ==
  ASSUME NEW k, k # "gcp.compute.firewalls", NEW p \in Net, NEW t, t # 0, NEW w,
         NEW provider, NEW facts,
         NEW parts, parts = RuleParts(<<w[t].rules1, w[t].rules2>>),
         NEW obs, obs = {Observation(i, RuleType(i), facts[i]) : i \in DOMAIN parts},
         \A i \in DOMAIN parts :
           Right(Says(p, provider, RuleType(i), facts[i]), RulesTruth(parts[i], p))
  PROVE  Deserved(obs, provider, k, p, t, w) /\ Covered(obs, k, p, t, w)
<1> DEFINE A == w[t].rules1
           B == w[t].rules2
<1>0. parts = RuleParts(<<A, B>>)
  OBVIOUS
<1> HIDE DEF A, B
<1>1. /\ DOMAIN parts = {0} \cup (IF A = {} THEN {} ELSE {1}) \cup (IF B = {} THEN {} ELSE {2})
      /\ \A i \in DOMAIN parts : parts[i] = IF i = 0 THEN A \cup B ELSE IF i = 1 THEN A ELSE B
  <2> DEFINE q == RuleParts(<<A, B>>)
  <2>1. /\ DOMAIN q = {0} \cup (IF A = {} THEN {} ELSE {1}) \cup (IF B = {} THEN {} ELSE {2})
        /\ \A i \in DOMAIN q : q[i] = IF i = 0 THEN A \cup B ELSE IF i = 1 THEN A ELSE B
    BY PartsOfRules
  <2>2. parts = q
    BY <1>0
  <2> HIDE DEF q
  <2>3. QED
    BY <2>1, <2>2
<1> USE DEF A, B
<1>2. \A i \in {0, 1, 2} : Truth(k, p, t, i, w) = RulesTruth(RulesOf(k, t, i, w), p)
  BY TruthOfRules
<1>3. \A i \in {0, 1, 2} : RulesOf(k, t, i, w) = IF i = 0 THEN A \cup B ELSE IF i = 1 THEN A ELSE B
  BY DEF RulesOf
<1> HIDE DEF A, B
<1>4. \A o \in obs : \E i \in DOMAIN parts : o.part = i /\ o.type = RuleType(i) /\ o.facts = facts[i]
  BY DEF Observation
<1>5. \A i \in DOMAIN parts : \E o \in obs : o.part = i
  <2>1. TAKE i \in DOMAIN parts
  <2>2. Observation(i, RuleType(i), facts[i]) \in obs
    OBVIOUS
  <2>3. Observation(i, RuleType(i), facts[i]).part = i
    BY DEF Observation
  <2>4. QED
    BY <2>2, <2>3
<1>6. Deserved(obs, provider, k, p, t, w)
  <2>1. \A i \in DOMAIN parts : Truth(k, p, t, i, w) = RulesTruth(parts[i], p)
    BY <1>1, <1>2, <1>3
  <2>2. QED
    BY <1>4, <2>1 DEF Deserved
<1>7. Covered(obs, k, p, t, w)
  <2>1. \A i \in {0, 1, 2} \ DOMAIN parts : Truth(k, p, t, i, w) # "bad"
    <3>1. \A i \in {0, 1, 2} \ DOMAIN parts : RulesOf(k, t, i, w) = {}
      BY <1>1, <1>3
    <3>2. RulesTruth({}, p) = "good"
      BY DEF RulesTruth, Judge
    <3>3. QED
      BY <1>2, <3>1, <3>2
  <2>2. 0..2 = {0, 1, 2}
    OBVIOUS
  <2>3. QED
    BY <1>5, <2>1, <2>2 DEF Covered
<1>8. QED
  BY <1>6, <1>7

LEMMA RuleFields ==
  ASSUME NEW r \in FirewallRules
  PROVE  /\ r.direction \in Directions /\ r.access \in Accesses /\ r.source \in Sources
         /\ r.protocol \in Protocols
         /\ r.ports \in PortKinds /\ r.low \in PortNumbers /\ r.high \in PortNumbers
  BY DEF FirewallRules

\* A rule that lets everybody in for a protocol the policy is not about: one of
\* UDP, for ports nobody looks for.
LEMMA NotCarried ==
  ASSUME NEW p \in Net, NEW k, k # "gcp.compute.firewalls",
         k = "aws.ec2.security_groups" => p # "NET-002",
         NEW r, AgreedRule(k, p, r), r.protocol \notin Carriers(p),
         r.direction = "in", r.access = "allow", r.source = "world"
  PROVE  /\ p \in {"NET-001", "NET-003"} /\ r.protocol = "udp" /\ r.ports = "range"
         /\ ~Overlaps(r, Admin) /\ ~Overlaps(r, Datastore) /\ ~Overlaps(r, OwnDatastorePorts(k))
<1>1. /\ r.protocol = "udp" /\ r.ports = "range"
      /\ ~Overlaps(r, Admin \cup Datastore \cup OwnDatastorePorts(k))
  BY DEF AgreedRule, AgreedProtocol
<1>2. p # "NET-002"
  BY <1>1 DEF Carriers
<1>3. QED
  BY <1>1, <1>2 DEF Net, Overlaps

LEMMA Reaching ==
  ASSUME NEW r
  PROVE  /\ Reaches(r, "NET-001") <=> Overlaps(r, Admin)
         /\ Reaches(r, "NET-002") <=> r.low <= 1 /\ r.high = 65535
         /\ Reaches(r, "NET-003") <=> Overlaps(r, Datastore)
  BY DEF Reaches

\* What a rule of AWS opens is what it exposes.
AwsPorts(p) ==
  CASE p = "NET-001" -> AwsAdminPorts
    [] p = "NET-002" -> {}
    [] p = "NET-003" -> AwsDatastorePorts

LEMMA AwsRule ==
  ASSUME NEW p \in Net, NEW r \in FirewallRules, AgreedRule("aws.ec2.security_groups", p, r)
  PROVE  Completions(r) = {r} /\ (AwsOpens(r, AwsPorts(p)) <=> Exposes(r, p))
<1>1. r.ports # "odd" /\ "absent" \notin {r.direction, r.access, r.source} /\ r.access = "allow"
  BY DEF AgreedRule
<1>2. r.ports \in {"any", "range"}
  BY <1>1, RuleFields DEF PortKinds
<1>3. ASSUME r.ports = "range"
      PROVE  Overlaps(r, AwsPorts(p)) <=> Reaches(r, p)
  <2>1. CASE p = "NET-001"
    BY <2>1, Reaching DEF AwsPorts, AwsAdminPorts, Admin
  <2>2. CASE p = "NET-002"
    BY <1>3, <2>2, Reaching DEF AwsPorts, Overlaps, AgreedRule
  <2>3. CASE p = "NET-003"
    <3>1. AwsDatastorePorts = Datastore \cup OwnDatastorePorts("aws.ec2.security_groups")
      BY DEF AwsDatastorePorts, Datastore, OwnDatastorePorts
    <3>2. Overlaps(r, Datastore) \/ ~Overlaps(r, OwnDatastorePorts("aws.ec2.security_groups"))
      BY <1>3, <2>3 DEF AgreedRule
    <3>3. Overlaps(r, AwsDatastorePorts) <=> Overlaps(r, Datastore)
      BY <3>1, <3>2 DEF Overlaps
    <3>4. QED
      BY <2>3, <3>3, Reaching DEF AwsPorts
  <2>4. QED
    BY <2>1, <2>2, <2>3 DEF Net
<1>4. /\ r.direction \in {"in", "out"} /\ r.protocol \in {"all", "tcp", "udp", "icmp"}
      /\ r.protocol = "all" => r.ports = "any"
      /\ r.protocol \in {"tcp", "udp"} => r.ports = "range"
  BY <1>1, <1>2, RuleFields DEF AgreedRule, AgreedForm, Directions, Protocols
<1>5. ASSUME r.direction = "in", r.source = "world"
      PROVE  AwsOpens(r, AwsPorts(p)) <=> Exposes(r, p)
  <2>1. CASE r.protocol \in {"all", "tcp"}
    BY <1>1, <1>3, <1>4, <1>5, <2>1 DEF AwsOpens, Exposes, Carriers
  <2>2. CASE r.protocol \in {"udp", "icmp"} /\ p = "NET-002"
    <3>1. r.ports = "range" => ~Overlaps(r, AwsPorts(p)) /\ ~Reaches(r, p)
      BY <1>3, <2>2 DEF AwsPorts, Overlaps
    <3>2. r.ports = "any" => r.protocol \notin Carriers(p)
      BY <1>4, <2>2 DEF Carriers
    <3>3. QED
      BY <1>2, <2>2, <3>1, <3>2 DEF AwsOpens, Exposes
  <2>3. CASE r.protocol \in {"udp", "icmp"} /\ p # "NET-002"
    <3>1. r.protocol \notin Carriers(p)
      BY <2>3 DEF Carriers
    <3>2. /\ p \in {"NET-001", "NET-003"}
          /\ ~Overlaps(r, Admin) /\ ~Overlaps(r, Datastore)
      BY <1>1, <1>5, <2>3, <3>1, NotCarried
    <3>3. r.ports = "range" => ~Overlaps(r, AwsPorts(p))
      BY <1>3, <3>2, Reaching
    <3>4. QED
      BY <2>3, <3>1, <3>3 DEF AwsOpens, Exposes
  <2>4. QED
    BY <1>4, <2>1, <2>2, <2>3
<1>6. AwsOpens(r, AwsPorts(p)) <=> Exposes(r, p)
  BY <1>4, <1>5 DEF AwsOpens, Exposes
<1>7. QED
  BY <1>1, <1>6, NothingToFill

LEMMA AwsRules ==
  ASSUME NEW p \in Net, NEW type \in Firewalls, NEW rules \in SUBSET FirewallRules,
         \A r \in rules : AgreedRule("aws.ec2.security_groups", p, r)
  PROVE  Right(Says(p, "aws", type, AwsFirewallFacts(rules)), RulesTruth(rules, p))
<1> DEFINE facts == AwsFirewallFacts(rules)
<1>1. OpenTo(p) \in DOMAIN facts /\ facts[OpenTo(p)] = Is(\E r \in rules : AwsOpens(r, AwsPorts(p)))
  BY DEF AwsFirewallFacts, OpenTo, AwsPorts, Net
<1> HIDE DEF facts
<1>2. \A r \in rules : Completions(r) = {r} /\ (AwsOpens(r, AwsPorts(p)) <=> Exposes(r, p))
  BY AwsRule
<1>3. facts[OpenTo(p)] = Is(\E r \in rules : Exposes(r, p))
  BY <1>1, <1>2
<1>4. Right(Says(p, "aws", type, facts), RulesTruth(rules, p))
  BY <1>1, <1>2, <1>3, RulesRight DEF Everywhere
<1>5. QED
  BY <1>4 DEF facts
-----------------------------------------------------------------------------
(***************************************************************************)
(* The ages of keys.                                                       *)
(***************************************************************************)
Ages == NoAge..MaxAge

LEMMA AgeRange ==
  /\ MaxAge \in Nat /\ NoAge = -1
  /\ \A a : a \in Ages <=> a \in Int /\ NoAge <= a /\ a <= MaxAge
<1>1. MaxAge \in Nat
  BY SMT DEF MaxAge
<1>2. NoAge = -1
  BY DEF NoAge
<1>3. QED
  BY <1>1, <1>2, SMT DEF Ages

LEMMA Oldest ==
  ASSUME NEW S \in SUBSET Ages, S # {}
  PROVE  Max(S) \in S /\ \A a \in S : a <= Max(S)
<1> DEFINE R == {q \in Nat \X Nat : q[1] < q[2]}
           T == {MaxAge - a : a \in S}
<1>1. \A a \in S : a \in Int /\ -1 <= a /\ a <= MaxAge
  BY AgeRange
<1>2. T \subseteq Nat /\ T # {}
  BY <1>1, AgeRange
<1>3. PICK x \in T : \A y \in T : <<y, x>> \notin R
  <2>1. IsWellFoundedOn(R, Nat)
    BY NatLessThanWellFounded, Zenon DEF OpToRel
  <2> HIDE DEF R, T
  <2>2. QED
    BY <1>2, <2>1, WFMin, Zenon
<1>4. PICK m \in S : x = MaxAge - m
  BY <1>3
<1>5. \A a \in S : m >= a
  <2>1. TAKE a \in S
  <2>2. MaxAge - a \in T
    OBVIOUS
  <2>3. <<MaxAge - a, x>> \notin R
    BY <1>3, <2>2
  <2>4. MaxAge - a \in Nat /\ x \in Nat
    BY <1>2, <2>2
  <2>5. ~(MaxAge - a < x)
    BY <2>3, <2>4
  <2>6. QED
    BY <1>1, <1>4, <2>5, AgeRange
<1>6. Max(S) \in S /\ \A a \in S : Max(S) >= a
  <2> DEFINE P(x1) == \A y \in S : x1 >= y
  <2>1. \E x1 \in S : P(x1)
    BY <1>5
  <2>2. Max(S) = CHOOSE x1 \in S : P(x1)
    BY DEF Max
  <2> HIDE DEF P
  <2>3. Max(S) \in S /\ P(Max(S))
    BY <2>1, <2>2, Zenon
  <2>4. QED
    BY <2>3 DEF P
<1>7. QED
  BY <1>1, <1>6

\* The oldest of the keys is over 90 days old if one of them is.
LEMMA AgeRight ==
  ASSUME NEW provider \in {"aws", "ibm"}, NEW facts, "credential_age_days" \in DOMAIN facts,
         NEW ages \in SUBSET Ages,
         \/ NoAge \in ages /\ facts["credential_age_days"] = NoAge
         \/ ages = {} /\ facts["credential_age_days"] \in {0, NoAge}
         \/ NoAge \notin ages /\ ages # {} /\ facts["credential_age_days"] = Max(ages)
  PROVE  Right(Says("IAM-002", provider, "identity.principal", facts),
               IF NoAge \in ages THEN "open" ELSE Judge(\A a \in ages : a <= 90, TRUE))
<1> DEFINE age == facts["credential_age_days"]
<1>1. age \in Int =>
        /\ Says("IAM-002", provider, "identity.principal", facts) = "fail" <=> age > 90
        /\ Says("IAM-002", provider, "identity.principal", facts) = "pass"
             <=> age \in 0..90 \/ age < NoAge
  BY OtherEntries, OldIsFail DEF Principals
<1> HIDE DEF age
<1>2. CASE NoAge \in ages /\ age = NoAge
  BY <1>1, <1>2 DEF NoAge, Right
<1>3. CASE ages = {} /\ age \in {0, NoAge}
  BY <1>1, <1>3 DEF NoAge, Right, Judge
<1>4. CASE NoAge \notin ages /\ ages # {} /\ age = Max(ages)
  <2>1. age \in ages /\ \A a \in ages : a <= age
    BY <1>4, Oldest
  <2>2. age \in Int /\ -1 <= age /\ \A a \in ages : a \in Int
    BY <2>1, AgeRange
  <2>3. (\A a \in ages : a <= 90) <=> age <= 90
    BY <2>1, <2>2
  <2>4. age # -1
    BY <1>4, <2>1 DEF NoAge
  <2>5. QED
    BY <1>1, <1>4, <2>2, <2>3, <2>4 DEF NoAge, Right, Judge
<1>5. QED
  BY <1>2, <1>3, <1>4 DEF age
-----------------------------------------------------------------------------
(***************************************************************************)
(* AWS.  What an answer tells of one setting is all a policy asks for, but  *)
(* for the public access of a bucket and the rules of a security group.    *)
(***************************************************************************)
LEMMA S3Encryption ==
  ASSUME NEW c \in ThingConfigs("aws.s3.buckets"), NEW s, s.encryption = c.encryption
  PROVE  Right(Says("STOR-003", "aws", "object_storage.bucket", S3BucketFacts(s)),
               TruthOfThing("aws.s3.buckets", "STOR-003", c))
<1> DEFINE facts == S3BucketFacts(s)
           rules == c.encryption
<1>1. "encryption_at_rest" \in DOMAIN facts /\ facts["encryption_at_rest"] = EncryptionPosture(rules)
  BY DEF S3BucketFacts
<1>2. rules \in EncryptionRules
  BY DEF ThingConfigs
<1>3. TruthOfThing("aws.s3.buckets", "STOR-003", c)
        = Judge("own_kms" \in rules, rules \cap {"absent", "aes", "aws_kms"} # {})
  BY DEF TruthOfThing, EncryptionTruth
<1> HIDE DEF facts, rules
<1>4. /\ Says("STOR-003", "aws", "object_storage.bucket", facts) = "fail"
           <=> EncryptionPosture(rules) \notin {"customer_managed", "unknown"}
      /\ Says("STOR-003", "aws", "object_storage.bucket", facts) = "pass"
           <=> EncryptionPosture(rules) = "customer_managed"
  BY <1>1, StorageEntries, OwnKeyOrFail DEF Everywhere, Buckets
<1>5. Right(Says("STOR-003", "aws", "object_storage.bucket", facts),
            Judge("own_kms" \in rules, rules \cap {"absent", "aes", "aws_kms"} # {}))
  <2>1. CASE rules = {"absent"}
    <3>1. EncryptionPosture(rules) = "none" /\ "own_kms" \notin rules /\ "absent" \in rules
      BY <2>1 DEF EncryptionPosture
    <3>2. QED
      BY <1>4, <3>1 DEF Right, Judge
  <2>2. CASE rules # {"absent"} /\ "own_kms" \in rules
    <3>1. EncryptionPosture(rules) = "customer_managed"
      BY <2>2 DEF EncryptionPosture
    <3>2. QED
      BY <1>4, <2>2, <3>1 DEF Right, Judge
  <2>3. CASE rules # {"absent"} /\ "own_kms" \notin rules
    <3>1. "absent" \notin rules
      BY <1>2, <2>3 DEF EncryptionRules
    <3>2. EncryptionPosture(rules) =
            IF rules \cap {"aes", "aws_kms"} # {} THEN "provider_managed" ELSE "unknown"
      BY <2>3 DEF EncryptionPosture
    <3>3. rules \cap {"absent", "aes", "aws_kms"} # {} <=> rules \cap {"aes", "aws_kms"} # {}
      BY <3>1
    <3>4. QED
      BY <1>4, <2>3, <3>2, <3>3 DEF Right, Judge
  <2>4. QED
    BY <2>1, <2>2, <2>3
<1>6. QED
  BY <1>3, <1>5 DEF facts, rules

LEMMA S3Logging ==
  ASSUME NEW c \in ThingConfigs("aws.s3.buckets"), NEW s, s.logging = c.logging
  PROVE  Right(Says("STOR-004", "aws", "object_storage.bucket", S3BucketFacts(s)),
               TruthOfThing("aws.s3.buckets", "STOR-004", c))
<1> DEFINE facts == S3BucketFacts(s)
<1>1. "access_logging_enabled" \in DOMAIN facts /\ facts["access_logging_enabled"] = Is(c.logging)
  BY DEF S3BucketFacts
<1>2. c.logging \in BOOLEAN
  BY DEF ThingConfigs
<1>3. TruthOfThing("aws.s3.buckets", "STOR-004", c) = Judge(c.logging, TRUE)
  BY DEF TruthOfThing
<1> HIDE DEF facts
<1>4. Right(Says("STOR-004", "aws", "object_storage.bucket", facts), Judge(c.logging, TRUE))
  BY <1>1, <1>2, StorageEntries, SetOrNot DEF Everywhere, Buckets
<1>5. QED
  BY <1>3, <1>4 DEF facts

LEMMA S3Tls ==
  ASSUME NEW c \in ThingConfigs("aws.s3.buckets"), NEW s, s.policy = c.policy
  PROVE  Right(Says("STOR-005", "aws", "object_storage.bucket", S3BucketFacts(s)),
               TruthOfThing("aws.s3.buckets", "STOR-005", c))
<1> DEFINE facts == S3BucketFacts(s)
<1>1. /\ "tls_required" \in DOMAIN facts
      /\ facts["tls_required"] = TriState("unreadable" \in c.policy, "tls" \in c.policy)
  BY DEF S3BucketFacts
<1>2. TruthOfThing("aws.s3.buckets", "STOR-005", c)
        = Judge("tls" \in c.policy, "unreadable" \notin c.policy)
  BY DEF TruthOfThing
<1> HIDE DEF facts
<1>3. Right(Says("STOR-005", "aws", "object_storage.bucket", facts),
            Judge("tls" \in c.policy, "unreadable" \notin c.policy))
  BY <1>1, StorageEntries, NoIsFail DEF Everywhere, Buckets, Right, Judge, TriState
<1>4. QED
  BY <1>2, <1>3 DEF facts

LEMMA S3AccountBlock ==
  ASSUME NEW c \in AccountConfigs("aws.s3.account"), AgreedAccount("aws.s3.account", c),
         NEW s, s.block = c.block
  PROVE  Right(Says("AWS-S3-001", "aws", "account.scope", S3AccountFacts(s)),
               TruthOfThing("aws.s3.account", "AWS-S3-001", c))
<1> DEFINE facts == S3AccountFacts(s)
<1>1. /\ "block_public_access_all" \in DOMAIN facts
      /\ facts["block_public_access_all"] = AllPublicBlocks(c.block)
  BY DEF S3AccountFacts
<1>2. c.block \in Blocks \ {"shapeless"}
  BY DEF AccountConfigs, AgreedAccount
<1>3. TruthOfThing("aws.s3.account", "AWS-S3-001", c)
        = Judge(c.block = "all", c.block \in {"absent", "some"})
  BY DEF TruthOfThing
<1> HIDE DEF facts
<1>4. Right(Says("AWS-S3-001", "aws", "account.scope", facts),
            Judge(c.block = "all", c.block \in {"absent", "some"}))
  BY <1>1, <1>2, ProviderEntries, NoIsFail DEF Accounts, Right, Judge, AllPublicBlocks, TriState, Blocks
<1>5. QED
  BY <1>3, <1>4 DEF facts

LEMMA RootMfa ==
  ASSUME NEW c \in AccountConfigs("aws.iam.principals"), NEW s, s.root_mfa = c.root_mfa
  PROVE  Right(Says("IAM-001", "aws", "identity.principal", RootFacts(s)),
               TruthOfThing("aws.iam.principals", "IAM-001", c))
<1> DEFINE facts == RootFacts(s)
<1>1. "mfa_enabled" \in DOMAIN facts /\ facts["mfa_enabled"] = c.root_mfa
  BY DEF RootFacts
<1>2. c.root_mfa \in TriStates /\ DOMAIN c = {"root_keys", "root_mfa", "password_policy"}
  BY DEF AccountConfigs
<1>3. TruthOfThing("aws.iam.principals", "IAM-001", c) = Wanted(c.root_mfa, "yes")
  BY <1>2 DEF TruthOfThing
<1> HIDE DEF facts
<1>4. Right(Says("IAM-001", "aws", "identity.principal", facts), Wanted(c.root_mfa, "yes"))
  BY <1>1, <1>2, OtherEntries, WishedYes DEF Everywhere, Principals
<1>5. QED
  BY <1>3, <1>4 DEF facts

LEMMA RootKeys ==
  ASSUME NEW c \in AccountConfigs("aws.iam.principals"), NEW s, s.root_keys = c.root_keys
  PROVE  Right(Says("AWS-IAM-001", "aws", "identity.principal", RootFacts(s)),
               TruthOfThing("aws.iam.principals", "AWS-IAM-001", c))
<1> DEFINE facts == RootFacts(s)
<1>1. "root_access_keys_active" \in DOMAIN facts /\ facts["root_access_keys_active"] = c.root_keys
  BY DEF RootFacts
<1>2. c.root_keys \in TriStates /\ DOMAIN c = {"root_keys", "root_mfa", "password_policy"}
  BY DEF AccountConfigs
<1>3. TruthOfThing("aws.iam.principals", "AWS-IAM-001", c) = Wanted(c.root_keys, "no")
  BY <1>2 DEF TruthOfThing
<1> HIDE DEF facts
<1>4. Right(Says("AWS-IAM-001", "aws", "identity.principal", facts), Wanted(c.root_keys, "no"))
  BY <1>1, <1>2, ProviderEntries, WishedNo DEF Principals
<1>5. QED
  BY <1>3, <1>4 DEF facts

LEMMA PasswordPolicy ==
  ASSUME NEW c \in AccountConfigs("aws.iam.principals"), AgreedAccount("aws.iam.principals", c),
         NEW s, s.password_policy = c.password_policy
  PROVE  Right(Says("AWS-IAM-002", "aws", "identity.principal", RootFacts(s)),
               TruthOfThing("aws.iam.principals", "AWS-IAM-002", c))
<1> DEFINE facts == RootFacts(s)
<1>1. /\ "password_policy_strong" \in DOMAIN facts
      /\ facts["password_policy_strong"] = PasswordPolicyStrong(c.password_policy)
  BY DEF RootFacts
<1>2. /\ c.password_policy \in {"absent", "weak", "strong", "odd"}
      /\ DOMAIN c = {"root_keys", "root_mfa", "password_policy"}
  BY DEF AccountConfigs, AgreedAccount
<1>3. TruthOfThing("aws.iam.principals", "AWS-IAM-002", c)
        = Judge(c.password_policy = "strong", c.password_policy \in {"absent", "weak"})
  BY <1>2 DEF TruthOfThing
<1> HIDE DEF facts
<1>4. Right(Says("AWS-IAM-002", "aws", "identity.principal", facts),
            Judge(c.password_policy = "strong", c.password_policy \in {"absent", "weak"}))
  BY <1>1, <1>2, ProviderEntries, NoIsFail DEF Principals, Right, Judge, PasswordPolicyStrong, TriState
<1>5. QED
  BY <1>3, <1>4 DEF facts

\* Keys of the root account have no age, and what the account summary says is
\* about no principal.
LEMMA RootAges ==
  ASSUME NEW c \in AccountConfigs("aws.iam.principals"), NEW s
  PROVE  Right(Says("IAM-002", "aws", "identity.principal", RootFacts(s)),
               TruthOfThing("aws.iam.principals", "IAM-002", c))
<1> DEFINE facts == RootFacts(s)
<1>1. facts["credential_age_days"] = NoAge
  BY DEF RootFacts
<1>2. DOMAIN c = {"root_keys", "root_mfa", "password_policy"}
  BY DEF AccountConfigs
<1>3. TruthOfThing("aws.iam.principals", "IAM-002", c) = "open"
  BY <1>2 DEF TruthOfThing
<1> HIDE DEF facts
<1>4. Says("IAM-002", "aws", "identity.principal", facts) \notin {"fail", "pass"}
  BY <1>1, OtherEntries, NothingSaid
<1>5. QED
  BY <1>3, <1>4 DEF facts, Right

LEMMA SummaryIsSilent ==
  ASSUME NEW p \in {"IAM-001", "IAM-002", "AWS-IAM-001", "AWS-IAM-002"}, NEW facts
  PROVE  Says(p, "aws", "account.scope", facts) \notin {"fail", "pass"}
  BY OtherEntries, ProviderEntries, NothingSaid DEF Principals

\* Facts of a user.
LEMMA UserMfa ==
  ASSUME NEW c \in ThingConfigs("aws.iam.principals"), NEW s, s.mfa = c.mfa
  PROVE  Right(Says("IAM-001", "aws", "identity.principal", UserFacts(s)),
               TruthOfThing("aws.iam.principals", "IAM-001", c))
<1> DEFINE facts == UserFacts(s)
<1>1. "mfa_enabled" \in DOMAIN facts /\ facts["mfa_enabled"] = Is(c.mfa)
  BY DEF UserFacts
<1>2. c.mfa \in BOOLEAN /\ DOMAIN c = {"mfa", "keys"}
  BY DEF ThingConfigs
<1>3. TruthOfThing("aws.iam.principals", "IAM-001", c) = Judge(c.mfa, TRUE)
  BY <1>2 DEF TruthOfThing
<1> HIDE DEF facts
<1>4. Right(Says("IAM-001", "aws", "identity.principal", facts), Judge(c.mfa, TRUE))
  BY <1>1, <1>2, OtherEntries, SetOrNot DEF Everywhere, Principals
<1>5. QED
  BY <1>3, <1>4 DEF facts

LEMMA UserKeys ==
  ASSUME NEW c \in ThingConfigs("aws.iam.principals"), NEW s, s.keys = c.keys
  PROVE  Right(Says("IAM-002", "aws", "identity.principal", UserFacts(s)),
               TruthOfThing("aws.iam.principals", "IAM-002", c))
<1> DEFINE facts == UserFacts(s)
           used  == {j \in c.keys : j.active}
           ages  == {k.age : k \in used}
<1>1. "credential_age_days" \in DOMAIN facts /\ facts["credential_age_days"] = CredentialAge(c.keys)
  BY DEF UserFacts
<1>2. c.keys \in SUBSET AccessKeys /\ DOMAIN c = {"mfa", "keys"}
  BY DEF ThingConfigs
<1>3. CredentialAge(c.keys) = IF ages = {} THEN 0 ELSE IF NoAge \in ages THEN NoAge ELSE Max(ages)
  BY DEF CredentialAge
<1>4. ages \in SUBSET Ages
  BY <1>2 DEF AccessKeys, Ages
<1>5. TruthOfThing("aws.iam.principals", "IAM-002", c) =
        IF \E j \in used : j.age = NoAge THEN "open" ELSE Judge(\A j \in used : j.age <= 90, TRUE)
  BY <1>2 DEF TruthOfThing, KeysTruth
<1>6. (\E j \in used : j.age = NoAge) <=> NoAge \in ages
  OBVIOUS
<1>7. (\A j \in used : j.age <= 90) <=> \A a \in ages : a <= 90
  OBVIOUS
<1> HIDE DEF facts, used, ages
<1>8. Right(Says("IAM-002", "aws", "identity.principal", facts),
            IF NoAge \in ages THEN "open" ELSE Judge(\A a \in ages : a <= 90, TRUE))
  BY <1>1, <1>3, <1>4, AgeRight
<1>9. TruthOfThing("aws.iam.principals", "IAM-002", c) =
        IF NoAge \in ages THEN "open" ELSE Judge(\A a \in ages : a <= 90, TRUE)
  BY <1>5, <1>6, <1>7
<1>10. QED
  BY <1>8, <1>9 DEF facts

LEMMA UserIsNoRoot ==
  ASSUME NEW c \in ThingConfigs("aws.iam.principals"), NEW s, NEW p \in {"AWS-IAM-001", "AWS-IAM-002"}
  PROVE  Right(Says(p, "aws", "identity.principal", UserFacts(s)),
               TruthOfThing("aws.iam.principals", p, c))
<1>1. TruthOfThing("aws.iam.principals", p, c) = "open"
  BY DEF ThingConfigs, TruthOfThing
<1>2. Says(p, "aws", "identity.principal", UserFacts(s)) \notin {"fail", "pass"}
  BY ProviderEntries, NothingSaid DEF UserFacts
<1>3. QED
  BY <1>1, <1>2 DEF Right

\* Facts of a trail.
LEMMA TrailLogging ==
  ASSUME NEW c \in ThingConfigs("aws.cloudtrail.trails"), NEW s, s.logging = c.logging
  PROVE  Right(Says("LOG-001", "aws", "logging.audit_trail", TrailFacts(s)), Wanted(c.logging, "yes"))
<1> DEFINE facts == TrailFacts(s)
<1>1. "audit_logging_enabled" \in DOMAIN facts /\ facts["audit_logging_enabled"] = c.logging
  BY DEF TrailFacts
<1>2. c.logging \in TriStates
  BY DEF ThingConfigs
<1> HIDE DEF facts
<1>3. Right(Says("LOG-001", "aws", "logging.audit_trail", facts), Wanted(c.logging, "yes"))
  BY <1>1, <1>2, OtherEntries, WishedYes DEF Logs
<1>4. QED
  BY <1>3 DEF facts

LEMMA TrailValidation ==
  ASSUME NEW c \in ThingConfigs("aws.cloudtrail.trails"), NEW s, s.validation = c.validation
  PROVE  Right(Says("AWS-CT-001", "aws", "logging.audit_trail", TrailFacts(s)),
               TruthOfThing("aws.cloudtrail.trails", "AWS-CT-001", c))
<1> DEFINE facts == TrailFacts(s)
<1>1. "validation_enabled" \in DOMAIN facts /\ facts["validation_enabled"] = c.validation
  BY DEF TrailFacts
<1>2. c.validation \in TriStates
  BY DEF ThingConfigs
<1>3. TruthOfThing("aws.cloudtrail.trails", "AWS-CT-001", c) = Wanted(c.validation, "yes")
  BY DEF TruthOfThing
<1> HIDE DEF facts
<1>4. Right(Says("AWS-CT-001", "aws", "logging.audit_trail", facts), Wanted(c.validation, "yes"))
  BY <1>1, <1>2, ProviderEntries, WishedYes DEF Logs
<1>5. QED
  BY <1>3, <1>4 DEF facts

\* The rotation of a key is asked for only if the key supports it.
LEMMA KeyRotation ==
  ASSUME NEW c \in ThingConfigs("aws.kms.keys"), NEW s,
         IF "rotation" \in DOMAIN s THEN c.supports = "yes" /\ s.rotation = c.rotation
         ELSE c.supports # "yes"
  PROVE  Right(Says("KMS-001", "aws", "kms.key", KmsKeyFacts(s)),
               TruthOfThing("aws.kms.keys", "KMS-001", c))
<1> DEFINE facts == KmsKeyFacts(s)
<1>1. "rotation_enabled" \in DOMAIN facts /\ facts["rotation_enabled"] = Got(s, "rotation", "unknown")
  BY DEF KmsKeyFacts
<1>2. c.rotation \in TriStates
  BY DEF ThingConfigs
<1>3. TruthOfThing("aws.kms.keys", "KMS-001", c)
        = IF c.supports = "yes" THEN Wanted(c.rotation, "yes") ELSE "open"
  BY DEF TruthOfThing
<1> HIDE DEF facts
<1>4. CASE "rotation" \in DOMAIN s
  <2>1. facts["rotation_enabled"] = c.rotation
    BY <1>1, <1>4 DEF Got
  <2>2. Right(Says("KMS-001", "aws", "kms.key", facts), Wanted(c.rotation, "yes"))
    BY <1>1, <1>2, <2>1, OtherEntries, WishedYes DEF Keys
  <2>3. QED
    BY <1>3, <1>4, <2>2 DEF facts
<1>5. CASE "rotation" \notin DOMAIN s
  <2>1. facts["rotation_enabled"] = "unknown"
    BY <1>1, <1>5 DEF Got
  <2>2. Says("KMS-001", "aws", "kms.key", facts) \notin {"fail", "pass"}
    BY <2>1, OtherEntries, NothingSaid
  <2>3. QED
    BY <1>3, <1>5, <2>2 DEF facts, Right
<1>6. QED
  BY <1>4, <1>5
-----------------------------------------------------------------------------
(***************************************************************************)
(* Azure.                                                                  *)
(***************************************************************************)
LEMMA ContainerAccess ==
  ASSUME NEW c \in ThingConfigs("azure.storage.containers"), NEW s,
         s.access = c.access, c.access # "gone"
  PROVE  Right(Says("STOR-001", "azure", "object_storage.bucket", ContainerFacts(s)),
               TruthOfThing("azure.storage.containers", "STOR-001", c))
<1> DEFINE facts == ContainerFacts(s)
<1>1. /\ "public_read_access" \in DOMAIN facts
      /\ facts["public_read_access"] = Is(c.access \in {"blob", "container"})
  BY DEF ContainerFacts, AccountStorageFacts
<1>2. c.access \in {"none", "blob", "container", "gone"}
  BY DEF ThingConfigs, StorageAccountConfigs
<1>3. TruthOfThing("azure.storage.containers", "STOR-001", c)
        = Judge(c.access = "none", c.access \in {"blob", "container"})
  BY DEF TruthOfThing, PublicTruth
<1> HIDE DEF facts
<1>4. Right(Says("STOR-001", "azure", "object_storage.bucket", facts),
            Judge(c.access = "none", c.access \in {"blob", "container"}))
  BY <1>1, <1>2, StorageEntries, YesIsFail DEF Everywhere, Buckets, Right, Judge, Is, TriState
<1>5. QED
  BY <1>3, <1>4 DEF facts

\* Nobody but the owner writes to a container.
LEMMA ContainerWrite ==
  ASSUME NEW c, NEW s
  PROVE  Right(Says("STOR-002", "azure", "object_storage.bucket", ContainerFacts(s)),
               TruthOfThing("azure.storage.containers", "STOR-002", c))
<1> DEFINE facts == ContainerFacts(s)
<1>1. "public_write_access" \in DOMAIN facts /\ facts["public_write_access"] = "no"
  BY DEF ContainerFacts, AccountStorageFacts
<1>2. TruthOfThing("azure.storage.containers", "STOR-002", c) = "good"
  BY DEF TruthOfThing, PublicTruth, Judge
<1> HIDE DEF facts
<1>3. Right(Says("STOR-002", "azure", "object_storage.bucket", facts), "good")
  BY <1>1, StorageEntries, YesIsFail DEF Everywhere, Buckets, Right
<1>4. QED
  BY <1>2, <1>3 DEF facts

LEMMA ContainerKey ==
  ASSUME NEW c \in ThingConfigs("azure.storage.containers"), NEW s, s.key = c.key
  PROVE  Right(Says("STOR-003", "azure", "object_storage.bucket", ContainerFacts(s)),
               TruthOfThing("azure.storage.containers", "STOR-003", c))
<1> DEFINE facts == ContainerFacts(s)
           source(key) == CASE key = "vault"    -> "customer_managed"
                            [] key = "platform" -> "provider_managed"
                            [] key = "absent"   -> "unknown"
<1>1. "encryption_at_rest" \in DOMAIN facts /\ facts["encryption_at_rest"] = source(c.key)
  BY DEF ContainerFacts, AccountStorageFacts
<1>2. c.key \in {"vault", "platform", "absent"}
  BY DEF ThingConfigs, StorageAccountConfigs
<1>3. TruthOfThing("azure.storage.containers", "STOR-003", c)
        = Judge(c.key = "vault", c.key = "platform")
  BY DEF TruthOfThing, EncryptionTruth
<1>4. source("vault") = "customer_managed" /\ source("platform") = "provider_managed"
      /\ source("absent") = "unknown"
  OBVIOUS
<1> HIDE DEF facts, source
<1>5. Right(Says("STOR-003", "azure", "object_storage.bucket", facts),
            Judge(c.key = "vault", c.key = "platform"))
  BY <1>1, <1>2, <1>4, StorageEntries, OwnKeyOrFail DEF Everywhere, Buckets, Right, Judge
<1>6. QED
  BY <1>3, <1>5 DEF facts

LEMMA ContainerTls ==
  ASSUME NEW c \in ThingConfigs("azure.storage.containers"), NEW s, s.https = c.https
  PROVE  Right(Says("STOR-005", "azure", "object_storage.bucket", ContainerFacts(s)),
               TruthOfThing("azure.storage.containers", "STOR-005", c))
<1> DEFINE facts == ContainerFacts(s)
<1>1. "tls_required" \in DOMAIN facts /\ facts["tls_required"] = c.https
  BY DEF ContainerFacts, AccountStorageFacts
<1>2. c.https \in TriStates
  BY DEF ThingConfigs, StorageAccountConfigs
<1>3. TruthOfThing("azure.storage.containers", "STOR-005", c) = Wanted(c.https, "yes")
  BY DEF TruthOfThing
<1> HIDE DEF facts
<1>4. Right(Says("STOR-005", "azure", "object_storage.bucket", facts), Wanted(c.https, "yes"))
  BY <1>1, <1>2, StorageEntries, WishedYes DEF Everywhere, Buckets
<1>5. QED
  BY <1>3, <1>4 DEF facts

LEMMA ContainerShared ==
  ASSUME NEW c \in ThingConfigs("azure.storage.containers"), NEW s, s.shared = c.shared
  PROVE  Right(Says("AZ-STOR-001", "azure", "object_storage.bucket", ContainerFacts(s)),
               TruthOfThing("azure.storage.containers", "AZ-STOR-001", c))
<1> DEFINE facts == ContainerFacts(s)
<1>1. "allow_shared_key_access" \in DOMAIN facts /\ facts["allow_shared_key_access"] = c.shared
  BY DEF ContainerFacts, AccountStorageFacts
<1>2. c.shared \in TriStates
  BY DEF ThingConfigs, StorageAccountConfigs
<1>3. TruthOfThing("azure.storage.containers", "AZ-STOR-001", c) = Wanted(c.shared, "no")
  BY DEF TruthOfThing
<1> HIDE DEF facts
<1>4. Right(Says("AZ-STOR-001", "azure", "object_storage.bucket", facts), Wanted(c.shared, "no"))
  BY <1>1, <1>2, ProviderEntries, WishedNo DEF Buckets
<1>5. QED
  BY <1>3, <1>4 DEF facts

LEMMA VaultDelete ==
  ASSUME NEW c \in ThingConfigs("azure.keyvault.vaults"), NEW s, s.soft = c.soft
  PROVE  Right(Says("AZ-KV-001", "azure", "kms.vault", KeyVaultFacts(s)),
               TruthOfThing("azure.keyvault.vaults", "AZ-KV-001", c))
<1> DEFINE facts == KeyVaultFacts(s)
<1>1. "soft_delete_enabled" \in DOMAIN facts /\ facts["soft_delete_enabled"] = c.soft
  BY DEF KeyVaultFacts
<1>2. c.soft \in TriStates
  BY DEF ThingConfigs
<1>3. TruthOfThing("azure.keyvault.vaults", "AZ-KV-001", c) = Wanted(c.soft, "yes")
  BY DEF TruthOfThing
<1> HIDE DEF facts
<1>4. Right(Says("AZ-KV-001", "azure", "kms.vault", facts), Wanted(c.soft, "yes"))
  BY <1>1, <1>2, ProviderEntries, WishedYes DEF Keys
<1>5. QED
  BY <1>3, <1>4 DEF facts

LEMMA VaultPurge ==
  ASSUME NEW c \in ThingConfigs("azure.keyvault.vaults"), NEW s, s.purge = c.purge
  PROVE  Right(Says("AZ-KV-002", "azure", "kms.vault", KeyVaultFacts(s)),
               TruthOfThing("azure.keyvault.vaults", "AZ-KV-002", c))
<1> DEFINE facts == KeyVaultFacts(s)
<1>1. "purge_protection_enabled" \in DOMAIN facts /\ facts["purge_protection_enabled"] = c.purge
  BY DEF KeyVaultFacts
<1>2. c.purge \in TriStates
  BY DEF ThingConfigs
<1>3. TruthOfThing("azure.keyvault.vaults", "AZ-KV-002", c) = Wanted(c.purge, "yes")
  BY DEF TruthOfThing
<1> HIDE DEF facts
<1>4. Right(Says("AZ-KV-002", "azure", "kms.vault", facts), Wanted(c.purge, "yes"))
  BY <1>1, <1>2, ProviderEntries, WishedYes DEF Keys
<1>5. QED
  BY <1>3, <1>4 DEF facts

\* What is known of a rule of Azure is what all its completions agree about.
AzurePorts(p) ==
  CASE p = "NET-001" -> AzureAdminPorts
    [] p = "NET-002" -> {}
    [] p = "NET-003" -> AzureDatastorePorts

LEMMA AzureOpensIt ==
  ASSUME NEW p \in Net, NEW r \in FirewallRules, r.ports \in {"any", "range"},
         AgreedRule("azure.network.security_groups", p, r)
  PROVE  AzureOpens(r, AzurePorts(p)) <=> r.ports = "any" \/ (r.ports = "range" /\ Reaches(r, p))
<1>1. r.low \in Int /\ r.high \in Int /\ 0 <= r.low
  <2>1. r.low \in PortNumbers /\ r.high \in PortNumbers
    BY RuleFields
  <2>2. \A n \in PortNumbers : n \in Int /\ 0 <= n
    BY DEF PortNumbers
  <2>3. QED
    BY <2>1, <2>2
<1>2. CASE r.ports = "any"
  BY <1>2 DEF AzureOpens
<1>3. CASE r.ports = "range"
  <2>1. CASE p = "NET-001"
    <3>1. AzurePorts(p) = Admin
      BY <2>1 DEF AzurePorts, AzureAdminPorts, Admin
    <3>2. r.low = 0 /\ r.high = 65535 => Overlaps(r, Admin)
      BY DEF Overlaps, Admin
    <3>3. QED
      BY <1>3, <2>1, <3>1, <3>2, Reaching DEF AzureOpens
  <2>2. CASE p = "NET-002"
    <3>1. ~Overlaps(r, AzurePorts(p))
      BY <2>2 DEF Overlaps, AzurePorts
    <3>2. ~(r.low = 1 /\ r.high = 65535)
      BY <1>3, <2>2 DEF AgreedRule
    <3>3. r.low = 0 /\ r.high = 65535 <=> r.low <= 1 /\ r.high = 65535
      BY <1>1, <3>2
    <3>4. QED
      BY <1>3, <2>2, <3>1, <3>3, Reaching DEF AzureOpens
  <2>3. CASE p = "NET-003"
    <3>1. AzurePorts(p) = Datastore
      BY <2>3 DEF AzurePorts, AzureDatastorePorts, Datastore
    <3>2. r.low = 0 /\ r.high = 65535 => Overlaps(r, Datastore)
      BY DEF Overlaps, Datastore
    <3>3. QED
      BY <1>3, <2>3, <3>1, <3>2, Reaching DEF AzureOpens
  <2>4. QED
    BY <2>1, <2>2, <2>3 DEF Net
<1>4. QED
  BY <1>2, <1>3

LEMMA CompletionFields ==
  ASSUME NEW r \in FirewallRules, NEW d, NEW a, NEW s, NEW q
  PROVE  LET c == Completion(r, d, a, s, q)
         IN c.direction = d /\ c.access = a /\ c.source = s /\ c.ports = q
  BY DEF Completion, FirewallRules

LEMMA AzureRule ==
  ASSUME NEW p \in Net, NEW r \in FirewallRules, AgreedRule("azure.network.security_groups", p, r)
  PROVE  LET posture == AzureRulePosture(r, AzurePorts(p))
         IN /\ posture = "yes" <=> \A c \in Completions(r) : Exposes(c, p)
            /\ posture = "no" => \A c \in Completions(r) : ~Exposes(c, p)
            /\ posture \in TriStates
<1> DEFINE posture == AzureRulePosture(r, AzurePorts(p))
           D == Filled(r.direction, "absent", {"in", "out"})
           A == Filled(r.access, "absent", {"allow", "deny"})
           S == Filled(r.source, "absent", {"world", "private"})
           Q == Filled(r.ports, "odd", {"any", "none"})
<1>1. /\ r.direction \in {"in", "out", "absent"} /\ r.access \in {"allow", "deny", "absent"}
      /\ r.source \in {"world", "private", "absent"} /\ r.ports \in {"any", "range", "odd"}
  BY RuleFields DEF Directions, Accesses, Sources, PortKinds
<1>2. /\ \A c \in Completions(r) : /\ c.direction \in D /\ c.access \in A
                                   /\ c.source \in S /\ c.ports \in Q
      /\ \A d \in D, a \in A, s \in S, q \in Q :
           \E c \in Completions(r) : /\ c.direction = d /\ c.access = a
                                     /\ c.source = s /\ c.ports = q
  <2>1. Completions(r) = {Completion(r, d, a, s, q) : d \in D, a \in A, s \in S, q \in Q}
    BY DEF Completions
  <2> HIDE DEF D, A, S, Q
  <2>2. QED
    BY <2>1, CompletionFields
<1>3. /\ (r.direction = "absent" /\ D = {"in", "out"}) \/ (r.direction # "absent" /\ D = {r.direction})
      /\ (r.access = "absent" /\ A = {"allow", "deny"}) \/ (r.access # "absent" /\ A = {r.access})
      /\ (r.source = "absent" /\ S = {"world", "private"}) \/ (r.source # "absent" /\ S = {r.source})
      /\ (r.ports = "odd" /\ Q = {"any", "none"}) \/ (r.ports # "odd" /\ Q = {r.ports})
  BY DEF Filled
<1> HIDE DEF D, A, S, Q
<1>4. PICK d0 \in D, a0 \in A, s0 \in S, q0 \in Q : TRUE
  BY <1>3
<1>5. \A c : Exposes(c, p) => /\ c.direction = "in" /\ c.access = "allow" /\ c.source = "world"
                              /\ c.ports \in {"any", "range"}
  BY DEF Exposes
<1>6. CASE r.direction = "out" \/ r.access = "deny"
  <2>1. posture = "no"
    BY <1>6 DEF AzureRulePosture
  <2>2. \A c \in Completions(r) : ~Exposes(c, p)
    BY <1>2, <1>3, <1>5, <1>6
  <2>3. \E c \in Completions(r) : TRUE
    BY <1>2, <1>4
  <2>4. QED
    BY <2>1, <2>2, <2>3 DEF TriStates
<1>7. CASE /\ ~(r.direction = "out" \/ r.access = "deny")
           /\ "absent" \in {r.direction, r.access, r.source}
  <2>1. posture = "unknown"
    BY <1>7 DEF AzureRulePosture
  <2>2. \E c \in Completions(r) : ~Exposes(c, p)
    <3>1. "out" \in D \/ "deny" \in A \/ "private" \in S
      BY <1>3, <1>7
    <3>2. CASE "out" \in D
      <4>1. PICK c \in Completions(r) : c.direction = "out"
        BY <1>2, <1>4, <3>2
      <4>2. QED
        BY <1>5, <4>1
    <3>3. CASE "deny" \in A
      <4>1. PICK c \in Completions(r) : c.access = "deny"
        BY <1>2, <1>4, <3>3
      <4>2. QED
        BY <1>5, <4>1
    <3>4. CASE "private" \in S
      <4>1. PICK c \in Completions(r) : c.source = "private"
        BY <1>2, <1>4, <3>4
      <4>2. QED
        BY <1>5, <4>1
    <3>5. QED
      BY <3>1, <3>2, <3>3, <3>4
  <2>3. QED
    BY <2>1, <2>2 DEF TriStates
<1>8. CASE /\ r.direction = "in" /\ r.access = "allow" /\ r.source = "private"
  <2>1. posture = "no"
    BY <1>8 DEF AzureRulePosture
  <2>2. \A c \in Completions(r) : ~Exposes(c, p)
    BY <1>2, <1>3, <1>5, <1>8
  <2>3. \E c \in Completions(r) : TRUE
    BY <1>2, <1>4
  <2>4. QED
    BY <2>1, <2>2, <2>3 DEF TriStates
<1>9. CASE r.direction = "in" /\ r.access = "allow" /\ r.source = "world" /\ r.ports = "odd"
  <2>1. posture = "unknown"
    BY <1>9 DEF AzureRulePosture
  <2>2. PICK c \in Completions(r) : c.ports = "none"
    BY <1>2, <1>3, <1>4, <1>9
  <2>3. QED
    BY <1>5, <2>1, <2>2 DEF TriStates
<1>10. CASE r.direction = "in" /\ r.access = "allow" /\ r.source = "world" /\ r.ports # "odd"
  <2>1. posture = Is(AzureOpens(r, AzurePorts(p)))
    BY <1>10 DEF AzureRulePosture
  <2>2. Completions(r) = {r}
    BY <1>10, NothingToFill
  <2>3. AzureOpens(r, AzurePorts(p)) <=> Exposes(r, p)
    <3>1. AzureOpens(r, AzurePorts(p)) <=> r.ports = "any" \/ (r.ports = "range" /\ Reaches(r, p))
      BY <1>1, <1>10, AzureOpensIt
    <3>2. CASE r.protocol \in Carriers(p)
      BY <1>10, <3>1, <3>2 DEF Exposes
    <3>3. CASE r.protocol \notin Carriers(p)
      <4>1. r.ports = "range" /\ ~Reaches(r, p)
        BY <1>10, <3>3, NotCarried, Reaching
      <4>2. QED
        BY <3>1, <3>3, <4>1 DEF Exposes
    <3>4. QED
      BY <3>2, <3>3
  <2>4. QED
    BY <2>1, <2>2, <2>3 DEF Is, TriState, TriStates
<1>11. QED
  BY <1>1, <1>6, <1>7, <1>8, <1>9, <1>10

LEMMA AzureRules ==
  ASSUME NEW p \in Net, NEW type \in Firewalls, NEW rules \in SUBSET FirewallRules,
         \A r \in rules : AgreedRule("azure.network.security_groups", p, r)
  PROVE  Right(Says(p, "azure", type, AzureFirewallFacts(rules)), RulesTruth(rules, p))
<1> DEFINE facts == AzureFirewallFacts(rules)
           fact == OpenTo(p)
           posture(r) == AzureRulePosture(r, AzurePorts(p))
           postures == {posture(r) : r \in rules}
<1>1. fact \in DOMAIN facts /\ facts[fact] = AnyOf(postures)
  BY DEF AzureFirewallFacts, OpenTo, AzurePorts, Net
<1>2. \A r \in rules : /\ posture(r) = "yes" <=> \A c \in Completions(r) : Exposes(c, p)
                       /\ posture(r) = "no" => \A c \in Completions(r) : ~Exposes(c, p)
                       /\ posture(r) \in TriStates
  BY AzureRule
<1> HIDE DEF facts, posture
<1>3. RulesTruth(rules, p) =
        Judge(\A r \in rules : \A c \in Completions(r) : ~Exposes(c, p),
              \E r \in rules : \A c \in Completions(r) : Exposes(c, p))
  BY DEF RulesTruth
<1>4. AnyOf(postures) = "yes" <=> \E r \in rules : \A c \in Completions(r) : Exposes(c, p)
  BY <1>2 DEF AnyOf
<1>5. AnyOf(postures) \notin {"yes", "unknown"} =>
        \A r \in rules : \A c \in Completions(r) : ~Exposes(c, p)
  BY <1>2 DEF AnyOf, TriStates
<1>6. (\E r \in rules : \A c \in Completions(r) : Exposes(c, p)) =>
        ~(\A r \in rules : \A c \in Completions(r) : ~Exposes(c, p))
  <2>1. \A r \in rules : \E c \in Completions(r) : TRUE
    <3>1. SUFFICES ASSUME NEW r \in rules PROVE \E c \in Completions(r) : TRUE
      OBVIOUS
    <3>2. PICK d \in Filled(r.direction, "absent", {"in", "out"}),
              a \in Filled(r.access, "absent", {"allow", "deny"}),
              s \in Filled(r.source, "absent", {"world", "private"}),
              q \in Filled(r.ports, "odd", {"any", "none"}) : TRUE
      BY DEF Filled
    <3>3. Completion(r, d, a, s, q) \in Completions(r)
      BY DEF Completions
    <3>4. QED
      BY <3>3
  <2>2. QED
    BY <2>1
<1> HIDE DEF postures, fact
<1>7. Catalog(p) = Policy(Everywhere, Firewalls, fact, "yes_is_fail")
  BY NetEntry DEF fact
<1>8. /\ Says(p, "azure", type, facts) = "fail" <=> facts[fact] = "yes"
      /\ Says(p, "azure", type, facts) = "pass" <=> facts[fact] \notin {"yes", "unknown"}
  BY <1>1, <1>7, YesIsFail DEF Everywhere
<1>9. Right(Says(p, "azure", type, facts), RulesTruth(rules, p))
  BY <1>1, <1>3, <1>4, <1>5, <1>6, <1>8 DEF Right, Judge
<1>10. QED
  BY <1>9 DEF facts

-----------------------------------------------------------------------------
(***************************************************************************)
(* Things of two rules, of the providers that have them.                   *)
(***************************************************************************)
LEMMA AwsRuleSet ==
  ASSUME NEW p \in Net, NEW t, t # 0, NEW w, w[t] \in ThingConfigs("aws.ec2.security_groups"),
         Agreed("aws.ec2.security_groups", p, w[t])
  PROVE  LET obs == SecurityGroupObservations(w[t])
         IN /\ Deserved(obs, "aws", "aws.ec2.security_groups", p, t, w)
            /\ Covered(obs, "aws.ec2.security_groups", p, t, w)
<1> DEFINE k == "aws.ec2.security_groups"
           A == w[t].rules1
           B == w[t].rules2
           parts == RuleParts(<<A, B>>)
           facts == [i \in DOMAIN parts |-> AwsFirewallFacts(parts[i])]
           obs == {Observation(i, RuleType(i), facts[i]) : i \in DOMAIN parts}
<1>1. /\ w[t].rules1 \in SUBSET FirewallRules /\ w[t].rules2 \in SUBSET FirewallRules
      /\ \A r \in w[t].rules1 \cup w[t].rules2 : AgreedRule(k, p, r)
  BY DEF ThingConfigs, RuleSetConfigs, Agreed
<1> HIDE DEF A, B
<1>7. \A i \in DOMAIN parts : parts[i] = IF i = 0 THEN A \cup B ELSE IF i = 1 THEN A ELSE B
  BY PartsOfRules
<1> HIDE DEF parts
<1>2. \A i \in DOMAIN parts : /\ parts[i] \in SUBSET FirewallRules
                              /\ \A r \in parts[i] : AgreedRule(k, p, r)
  BY <1>1, <1>7 DEF A, B
<1>3. SecurityGroupObservations(w[t]) = obs
  <2>1. DOMAIN w[t] = {"rules1", "rules2"}
    BY DEF ThingConfigs, RuleSetConfigs
  <2>2. Got(w[t], "rules1", {}) = A /\ Got(w[t], "rules2", {}) = B
    BY <2>1 DEF Got, A, B
  <2>3. QED
    BY <2>2 DEF SecurityGroupObservations, parts
<1>4. \A i \in DOMAIN parts : Right(Says(p, "aws", RuleType(i), facts[i]), RulesTruth(parts[i], p))
  BY <1>2, AwsRules DEF RuleType, Firewalls
<1> HIDE DEF facts
<1>5. Deserved(obs, "aws", k, p, t, w) /\ Covered(obs, k, p, t, w)
  <2>1. k # "gcp.compute.firewalls"
    OBVIOUS
  <2>2. parts = RuleParts(<<w[t].rules1, w[t].rules2>>)
    BY DEF parts, A, B
  <2> HIDE DEF k, obs
  <2>3. obs = {Observation(i, RuleType(i), facts[i]) : i \in DOMAIN parts}
    BY DEF obs
  <2>4. QED
    BY <1>4, <2>1, <2>2, <2>3, RuleSetDeserved
<1>6. QED
  BY <1>3, <1>5

LEMMA AzureRuleSet ==
  ASSUME NEW p \in Net, NEW t, t # 0, NEW w, w[t] \in ThingConfigs("azure.network.security_groups"),
         Agreed("azure.network.security_groups", p, w[t])
  PROVE  LET obs == AzureObservations("azure.network.security_groups", w[t])
         IN /\ Deserved(obs, "azure", "azure.network.security_groups", p, t, w)
            /\ Covered(obs, "azure.network.security_groups", p, t, w)
<1> DEFINE k == "azure.network.security_groups"
           A == w[t].rules1
           B == w[t].rules2
           parts == RuleParts(<<A, B>>)
           facts == [i \in DOMAIN parts |-> AzureFirewallFacts(parts[i])]
           obs == {Observation(i, RuleType(i), facts[i]) : i \in DOMAIN parts}
<1>1. /\ w[t].rules1 \in SUBSET FirewallRules /\ w[t].rules2 \in SUBSET FirewallRules
      /\ \A r \in w[t].rules1 \cup w[t].rules2 : AgreedRule(k, p, r)
  BY DEF ThingConfigs, RuleSetConfigs, Agreed
<1> HIDE DEF A, B
<1>7. \A i \in DOMAIN parts : parts[i] = IF i = 0 THEN A \cup B ELSE IF i = 1 THEN A ELSE B
  BY PartsOfRules
<1> HIDE DEF parts
<1>2. \A i \in DOMAIN parts : /\ parts[i] \in SUBSET FirewallRules
                              /\ \A r \in parts[i] : AgreedRule(k, p, r)
  BY <1>1, <1>7 DEF A, B
<1>3. AzureObservations(k, w[t]) = obs
  BY DEF AzureObservations, parts, A, B
<1>4. \A i \in DOMAIN parts : Right(Says(p, "azure", RuleType(i), facts[i]), RulesTruth(parts[i], p))
  BY <1>2, AzureRules DEF RuleType, Firewalls
<1> HIDE DEF facts
<1>5. Deserved(obs, "azure", k, p, t, w) /\ Covered(obs, k, p, t, w)
  <2>1. k # "gcp.compute.firewalls"
    OBVIOUS
  <2>2. parts = RuleParts(<<w[t].rules1, w[t].rules2>>)
    BY DEF parts, A, B
  <2> HIDE DEF k, obs
  <2>3. obs = {Observation(i, RuleType(i), facts[i]) : i \in DOMAIN parts}
    BY DEF obs
  <2>4. QED
    BY <1>4, <2>1, <2>2, <2>3, RuleSetDeserved
<1>6. QED
  BY <1>3, <1>5
-----------------------------------------------------------------------------
(***************************************************************************)
(* GCP.                                                                    *)
(***************************************************************************)
GcpPorts(p) ==
  CASE p = "NET-001" -> GcpAdminPorts
    [] p = "NET-002" -> {}
    [] p = "NET-003" -> GcpDatastorePorts

LEMMA GcpRule ==
  ASSUME NEW p \in Net, NEW r \in FirewallRules, AgreedRule("gcp.compute.firewalls", p, r)
  PROVE  Completions(r) = {r} /\ (GcpExposes(r, GcpPorts(p)) <=> Exposes(r, p))
<1>1. r.ports # "odd" /\ "absent" \notin {r.direction, r.access, r.source}
  BY DEF AgreedRule
<1>2. r.ports \in {"any", "range"}
  BY <1>1, RuleFields DEF PortKinds
<1>3. ASSUME r.ports = "range"
      PROVE  Overlaps(r, GcpPorts(p)) <=> Reaches(r, p)
  <2>1. CASE p = "NET-001"
    BY <2>1, Reaching DEF GcpPorts, GcpAdminPorts, Admin
  <2>2. CASE p = "NET-002"
    BY <1>3, <2>2, Reaching DEF GcpPorts, Overlaps, AgreedRule
  <2>3. CASE p = "NET-003"
    <3>1. GcpDatastorePorts = Datastore \cup OwnDatastorePorts("gcp.compute.firewalls")
      BY DEF GcpDatastorePorts, Datastore, OwnDatastorePorts
    <3>2. Overlaps(r, Datastore) \/ ~Overlaps(r, OwnDatastorePorts("gcp.compute.firewalls"))
      BY <1>3, <2>3 DEF AgreedRule
    <3>3. Overlaps(r, GcpDatastorePorts) <=> Overlaps(r, Datastore)
      BY <3>1, <3>2 DEF Overlaps
    <3>4. QED
      BY <2>3, <3>3, Reaching DEF GcpPorts
  <2>4. QED
    BY <2>1, <2>2, <2>3 DEF Net
<1>4. /\ r.direction \in {"in", "out"} /\ r.protocol \in {"all", "tcp", "udp", "icmp"}
      /\ r.protocol = "all" => r.ports = "any"
  BY <1>1, RuleFields DEF AgreedRule, AgreedForm, Directions, Protocols
<1>5. GcpPorts(p) = {} <=> p = "NET-002"
  BY DEF GcpPorts, GcpAdminPorts, GcpDatastorePorts, Net
<1>6. ASSUME r.direction = "in", r.access = "allow", r.source = "world"
      PROVE  GcpExposes(r, GcpPorts(p)) <=> Exposes(r, p)
  <2>1. CASE r.protocol \in {"all", "tcp"}
    BY <1>2, <1>3, <1>4, <1>6, <2>1 DEF GcpExposes, Exposes, Carriers
  <2>2. CASE r.protocol = "udp" /\ p = "NET-002"
    <3>1. r.ports = "range" => ~Reaches(r, p)
      BY <1>3, <2>2 DEF GcpPorts, Overlaps
    <3>2. QED
      BY <1>2, <1>5, <1>6, <2>2, <3>1 DEF GcpExposes, Exposes, Carriers
  <2>3. CASE r.protocol = "icmp" \/ (r.protocol = "udp" /\ p # "NET-002")
    BY <1>5, <2>3 DEF GcpExposes, Exposes, Carriers
  <2>4. QED
    BY <1>4, <2>1, <2>2, <2>3
<1>7. GcpExposes(r, GcpPorts(p)) <=> Exposes(r, p)
  BY <1>4, <1>6 DEF GcpExposes, Exposes
<1>8. QED
  BY <1>1, <1>7, NothingToFill

LEMMA GcpRules ==
  ASSUME NEW p \in Net, NEW type \in Firewalls, NEW rules \in SUBSET FirewallRules,
         \A r \in rules : AgreedRule("gcp.compute.firewalls", p, r)
  PROVE  Right(Says(p, "gcp", type, GcpFirewallFacts(rules)), RulesTruth(rules, p))
<1> DEFINE facts == GcpFirewallFacts(rules)
<1>1. OpenTo(p) \in DOMAIN facts /\ facts[OpenTo(p)] = Is(\E r \in rules : GcpExposes(r, GcpPorts(p)))
  BY DEF GcpFirewallFacts, OpenTo, GcpPorts, Net
<1> HIDE DEF facts
<1>2. \A r \in rules : Completions(r) = {r} /\ (GcpExposes(r, GcpPorts(p)) <=> Exposes(r, p))
  BY GcpRule
<1>3. facts[OpenTo(p)] = Is(\E r \in rules : Exposes(r, p))
  BY <1>1, <1>2
<1>4. Right(Says(p, "gcp", type, facts), RulesTruth(rules, p))
  BY <1>1, <1>2, <1>3, RulesRight DEF Everywhere
<1>5. QED
  BY <1>4 DEF facts

\* Facts of a bucket that are read in one answer.
LEMMA BucketKey ==
  ASSUME NEW c \in ThingConfigs("gcp.storage.buckets"), NEW s, s.cmek = c.cmek
  PROVE  Right(Says("STOR-003", "gcp", "object_storage.bucket", StorageBucketFacts(s)),
               TruthOfThing("gcp.storage.buckets", "STOR-003", c))
<1> DEFINE facts == StorageBucketFacts(s)
<1>1. /\ "encryption_at_rest" \in DOMAIN facts
      /\ facts["encryption_at_rest"] = IF c.cmek THEN "customer_managed" ELSE "provider_managed"
  BY DEF StorageBucketFacts
<1>2. c.cmek \in BOOLEAN
  BY DEF ThingConfigs
<1>3. TruthOfThing("gcp.storage.buckets", "STOR-003", c) = Judge(c.cmek, TRUE)
  BY DEF TruthOfThing, EncryptionTruth
<1> HIDE DEF facts
<1>4. Right(Says("STOR-003", "gcp", "object_storage.bucket", facts), Judge(c.cmek, TRUE))
  BY <1>1, <1>2, StorageEntries, OwnKeyOrFail DEF Everywhere, Buckets, Right, Judge
<1>5. QED
  BY <1>3, <1>4 DEF facts

LEMMA BucketLog ==
  ASSUME NEW c \in ThingConfigs("gcp.storage.buckets"), NEW s, s.log = c.log
  PROVE  Right(Says("STOR-004", "gcp", "object_storage.bucket", StorageBucketFacts(s)),
               TruthOfThing("gcp.storage.buckets", "STOR-004", c))
<1> DEFINE facts == StorageBucketFacts(s)
<1>1. "access_logging_enabled" \in DOMAIN facts /\ facts["access_logging_enabled"] = Is(c.log)
  BY DEF StorageBucketFacts
<1>2. c.log \in BOOLEAN
  BY DEF ThingConfigs
<1>3. TruthOfThing("gcp.storage.buckets", "STOR-004", c) = Judge(c.log, TRUE)
  BY DEF TruthOfThing
<1> HIDE DEF facts
<1>4. Right(Says("STOR-004", "gcp", "object_storage.bucket", facts), Judge(c.log, TRUE))
  BY <1>1, <1>2, StorageEntries, SetOrNot DEF Everywhere, Buckets
<1>5. QED
  BY <1>3, <1>4 DEF facts

LEMMA BucketUniform ==
  ASSUME NEW c \in ThingConfigs("gcp.storage.buckets"), NEW s, s.uniform = c.uniform
  PROVE  Right(Says("GCP-STOR-001", "gcp", "object_storage.bucket", StorageBucketFacts(s)),
               TruthOfThing("gcp.storage.buckets", "GCP-STOR-001", c))
<1> DEFINE facts == StorageBucketFacts(s)
<1>1. /\ "uniform_bucket_level_access" \in DOMAIN facts
      /\ facts["uniform_bucket_level_access"] = c.uniform
  BY DEF StorageBucketFacts
<1>2. c.uniform \in TriStates
  BY DEF ThingConfigs
<1>3. TruthOfThing("gcp.storage.buckets", "GCP-STOR-001", c) = Wanted(c.uniform, "yes")
  BY DEF TruthOfThing
<1> HIDE DEF facts
<1>4. Right(Says("GCP-STOR-001", "gcp", "object_storage.bucket", facts), Wanted(c.uniform, "yes"))
  BY <1>1, <1>2, ProviderEntries, WishedYes DEF Buckets
<1>5. QED
  BY <1>3, <1>4 DEF facts

LEMMA BucketPrevention ==
  ASSUME NEW c \in ThingConfigs("gcp.storage.buckets"), NEW s, s.pap = c.pap
  PROVE  Right(Says("GCP-STOR-002", "gcp", "object_storage.bucket", StorageBucketFacts(s)),
               TruthOfThing("gcp.storage.buckets", "GCP-STOR-002", c))
<1> DEFINE facts == StorageBucketFacts(s)
           b == c.pap = "enforced"
<1>1. "public_access_prevention" \in DOMAIN facts /\ facts["public_access_prevention"] = Is(b)
  BY DEF StorageBucketFacts
<1>2. TruthOfThing("gcp.storage.buckets", "GCP-STOR-002", c) = Judge(b, TRUE)
  BY DEF TruthOfThing
<1>3. b \in BOOLEAN
  OBVIOUS
<1> HIDE DEF facts, b
<1>4. Right(Says("GCP-STOR-002", "gcp", "object_storage.bucket", facts), Judge(b, TRUE))
  BY <1>1, <1>3, ProviderEntries, SetOrNot DEF Buckets
<1>5. QED
  BY <1>2, <1>4 DEF facts

\* A key that is there; only a symmetric one can be rotated.
LEMMA KeyOfRing ==
  ASSUME NEW c \in ThingConfigs("gcp.kms.keys"), Agreed("gcp.kms.keys", "KMS-001", c),
         c.purpose # "gone"
  PROVE  Right(Says("KMS-001", "gcp", "kms.key", RotationFacts(c)),
               TruthOfThing("gcp.kms.keys", "KMS-001", c))
<1> DEFINE facts == RotationFacts(c)
<1>1. /\ "rotation_enabled" \in DOMAIN facts
      /\ facts["rotation_enabled"] = IF c.purpose = "asymmetric" THEN "unknown" ELSE Is(c.rotation)
  BY DEF RotationFacts
<1>2. c.rotation \in BOOLEAN /\ c.purpose \in {"symmetric", "asymmetric"}
  BY DEF ThingConfigs, Agreed
<1>3. TruthOfThing("gcp.kms.keys", "KMS-001", c)
        = Judge(c.purpose = "symmetric" /\ c.rotation, c.purpose = "symmetric")
  BY DEF TruthOfThing
<1> HIDE DEF facts
<1>4. CASE c.purpose = "symmetric"
  <2> DEFINE b == c.rotation
  <2>3. b \in BOOLEAN /\ "rotation_enabled" \in DOMAIN facts /\ facts["rotation_enabled"] = Is(b)
    BY <1>1, <1>2, <1>4
  <2> HIDE DEF b
  <2>1. Right(Says("KMS-001", "gcp", "kms.key", facts), Judge(b, TRUE))
    BY <2>3, OtherEntries, NoIsFail DEF Keys, Right, Judge, Is, TriState
  <2>2. TruthOfThing("gcp.kms.keys", "KMS-001", c) = Judge(b, TRUE)
    BY <1>2, <1>3, <1>4 DEF Judge, b
  <2>4. QED
    BY <2>1, <2>2 DEF facts
<1>5. CASE c.purpose = "asymmetric"
  <2>1. Says("KMS-001", "gcp", "kms.key", facts) \notin {"fail", "pass"}
    BY <1>1, <1>5, OtherEntries, NothingSaid
  <2>2. TruthOfThing("gcp.kms.keys", "KMS-001", c) = "open"
    BY <1>3, <1>5 DEF Judge
  <2>3. QED
    BY <2>1, <2>2 DEF facts, Right
<1>6. QED
  BY <1>2, <1>4, <1>5

\* The log switches of the settings of a resource; none is one that is off.
LEMMA LogSwitches ==
  ASSUME NEW t, NEW w, w[t] \in ThingConfigs("azure.monitor.diagnostic_settings"),
         NEW s, s.settings = w[t].settings
  PROVE  LET obs == DiagnosticObservations(s)
         IN /\ Deserved(obs, "azure", "azure.monitor.diagnostic_settings", "LOG-001", t, w)
            /\ Covered(obs, "azure.monitor.diagnostic_settings", "LOG-001", t, w)
<1> DEFINE k == "azure.monitor.diagnostic_settings"
           q == w[t].settings
           switches == IF q = <<>> THEN <<FALSE>> ELSE q
           obs == {Observation(i, "logging.diagnostic_setting", DiagnosticFacts(switches[i])) :
                     i \in DOMAIN switches}
<1>1. q \in Seq(BOOLEAN) /\ "settings" \in DOMAIN w[t]
  BY DEF ThingConfigs
<1>2. DiagnosticObservations(s) = obs
  BY DEF DiagnosticObservations
<1>3. \A part : Truth(k, "LOG-001", t, part, w)
        = Judge(part \in DOMAIN q /\ q[part], IF q = <<>> THEN part = 1 ELSE part \in DOMAIN q)
  BY <1>1, TruthOfLog DEF LogTruth
<1> HIDE DEF q
<1>4. /\ q = <<>> => DOMAIN switches = {1} /\ switches[1] = FALSE /\ DOMAIN q = {}
      /\ q # <<>> => switches = q
      /\ \A i \in DOMAIN switches : switches[i] \in BOOLEAN
  <2>1. CASE q = <<>>
    <3>1. switches = <<FALSE>>
      BY <2>1
    <3>2. DOMAIN <<FALSE>> = {1} /\ <<FALSE>>[1] = FALSE /\ DOMAIN <<>> = {}
      OBVIOUS
    <3>3. QED
      BY <2>1, <3>1, <3>2
  <2>2. CASE q # <<>>
    <3>1. \A i \in DOMAIN q : q[i] \in BOOLEAN
      BY <1>1
    <3>2. QED
      BY <2>2, <3>1
  <2>3. QED
    BY <2>1, <2>2
<1> HIDE DEF switches
<1>5. \A part : Truth(k, "LOG-001", t, part, w)
        = IF part \in DOMAIN switches THEN Judge(switches[part], TRUE) ELSE "open"
  <2>1. CASE q = <<>>
    BY <1>3, <1>4, <2>1 DEF Judge
  <2>2. CASE q # <<>>
    BY <1>3, <1>4, <2>2 DEF Judge
  <2>3. QED
    BY <2>1, <2>2
<1>6. ASSUME NEW i \in DOMAIN switches
      PROVE  Right(Says("LOG-001", "azure", "logging.diagnostic_setting", DiagnosticFacts(switches[i])),
                   Judge(switches[i], TRUE))
  <2> DEFINE facts == DiagnosticFacts(switches[i])
             b == switches[i]
  <2>1. /\ "audit_logging_enabled" \in DOMAIN facts /\ facts["audit_logging_enabled"] = Is(b)
        /\ b \in BOOLEAN
    BY <1>4 DEF DiagnosticFacts
  <2> HIDE DEF facts, b
  <2>2. Right(Says("LOG-001", "azure", "logging.diagnostic_setting", facts), Judge(b, TRUE))
    BY <2>1, OtherEntries, SetOrNot DEF Logs
  <2>3. QED
    BY <2>2 DEF facts, b
<1>7. /\ \A o \in obs : \E i \in DOMAIN switches :
             /\ o.part = i /\ o.type = "logging.diagnostic_setting"
             /\ o.facts = DiagnosticFacts(switches[i])
      /\ \A i \in DOMAIN switches : \E o \in obs : o.part = i
  <2>1. \A i \in DOMAIN switches :
          LET o == Observation(i, "logging.diagnostic_setting", DiagnosticFacts(switches[i]))
          IN /\ o \in obs /\ o.part = i /\ o.type = "logging.diagnostic_setting"
             /\ o.facts = DiagnosticFacts(switches[i])
    BY DEF Observation
  <2>2. QED
    BY <2>1
<1> HIDE DEF obs
<1>8. Deserved(obs, "azure", k, "LOG-001", t, w)
  <2>1. SUFFICES ASSUME NEW o \in obs
                 PROVE  Right(Says("LOG-001", "azure", o.type, o.facts), Truth(k, "LOG-001", t, o.part, w))
    BY DEF Deserved
  <2>2. PICK i \in DOMAIN switches :
          /\ o.part = i /\ o.type = "logging.diagnostic_setting"
          /\ o.facts = DiagnosticFacts(switches[i])
    BY <1>7
  <2>3. Truth(k, "LOG-001", t, i, w) = Judge(switches[i], TRUE)
    BY <1>5
  <2>4. QED
    BY <1>6, <2>2, <2>3
<1>9. Covered(obs, k, "LOG-001", t, w)
  BY <1>5, <1>7 DEF Covered
<1>10. QED
  BY <1>2, <1>8, <1>9
-----------------------------------------------------------------------------
(***************************************************************************)
(* IBM.                                                                    *)
(***************************************************************************)
IbmPortsOf(p) ==
  CASE p = "NET-001" -> IbmAdminPorts
    [] p = "NET-002" -> {}
    [] p = "NET-003" -> IbmDatastorePorts

LEMMA LargerOfTwo ==
  ASSUME NEW m \in Int, NEW n \in Int
  PROVE  /\ Max({m, n}) \in {m, n} /\ Max({m, n}) >= m /\ Max({m, n}) >= n
         /\ Min({m, n}) \in {m, n} /\ Min({m, n}) <= m /\ Min({m, n}) <= n
<1> DEFINE S == {m, n}
           Upper(x) == \A y \in S : x >= y
           Lower(x) == \A y \in S : x <= y
<1>1. (\E x \in S : Upper(x)) /\ (\E x \in S : Lower(x))
  OBVIOUS
<1>2. Max(S) = CHOOSE x \in S : Upper(x)
  BY DEF Max
<1>3. Min(S) = CHOOSE x \in S : Lower(x)
  BY DEF Min
<1> HIDE DEF Upper, Lower
<1>4. Max(S) \in S /\ Upper(Max(S))
  BY <1>1, <1>2, Zenon
<1>5. Min(S) \in S /\ Lower(Min(S))
  BY <1>1, <1>3, Zenon
<1>6. QED
  BY <1>4, <1>5 DEF Upper, Lower

\* The ports of a rule, cut to those there are.
LEMMA PortsCut ==
  ASSUME NEW r \in FirewallRules
  PROVE  /\ r.low \in Int /\ r.high \in Int /\ 0 <= r.low /\ r.high <= 65535
         /\ r.protocol \in {"tcp", "udp"} /\ r.ports = "range" =>
              /\ IbmPorts(r).low = IF r.low = 0 THEN 1 ELSE r.low
              /\ IbmPorts(r).high = r.high
         /\ ~(r.protocol \in {"tcp", "udp"} /\ r.ports = "range") =>
              IbmPorts(r).low = 1 /\ IbmPorts(r).high = 65535
<1>1. r.low \in PortNumbers /\ r.high \in PortNumbers
  BY RuleFields
<1>2. \A n \in PortNumbers : n \in Int /\ 0 <= n /\ n <= 65535
  BY DEF PortNumbers
<1>3. Max({1, r.low}) = IF r.low = 0 THEN 1 ELSE r.low
  <2> DEFINE m == 1
             n == r.low
  <2>1. m \in Int /\ n \in Int /\ 0 <= n
    BY <1>1, <1>2
  <2> HIDE DEF m, n
  <2>2. Max({m, n}) \in {m, n} /\ Max({m, n}) >= m /\ Max({m, n}) >= n
    BY <2>1, LargerOfTwo
  <2>3. Max({m, n}) = IF n < m THEN m ELSE n
    BY <2>1, <2>2
  <2>4. QED
    BY <2>1, <2>3 DEF m, n
<1>4. Min({65535, r.high}) = r.high
  <2> DEFINE m == 65535
             n == r.high
  <2>1. m \in Int /\ n \in Int /\ n <= m
    BY <1>1, <1>2
  <2> HIDE DEF m, n
  <2>2. Min({m, n}) \in {m, n} /\ Min({m, n}) <= m /\ Min({m, n}) <= n
    BY <2>1, LargerOfTwo
  <2>3. Min({m, n}) = n
    BY <2>1, <2>2
  <2>4. QED
    BY <2>3 DEF m, n
<1>5. QED
  BY <1>1, <1>2, <1>3, <1>4 DEF IbmPorts

LEMMA IbmRule ==
  ASSUME NEW p \in Net, NEW k \in {"ibm.vpc.security_groups", "ibm.vpc.network_acls"},
         NEW r \in FirewallRules, AgreedRule(k, p, r)
  PROVE  Completions(r) = {r} /\ (IbmOpens(r, IbmPortsOf(p)) <=> Exposes(r, p))
<1>1. r.ports # "odd" /\ "absent" \notin {r.direction, r.access, r.source}
  BY DEF AgreedRule
<1>2. r.ports \in {"any", "range"}
  BY <1>1, RuleFields DEF PortKinds
<1> DEFINE cut == IbmPorts(r)
           opens == (cut.low <= 1 /\ cut.high >= 65535) \/ Overlaps(cut, IbmPortsOf(p))
<1>3. ASSUME r.protocol \in {"tcp", "udp"}, r.ports = "range"
      PROVE  opens <=> Reaches(r, p)
  <2>1. /\ cut.low = (IF r.low = 0 THEN 1 ELSE r.low) /\ cut.high = r.high
        /\ r.low \in Int /\ r.high \in Int /\ 0 <= r.low /\ r.high <= 65535
    BY <1>3, PortsCut
  <2> HIDE DEF cut
  <2>2. ASSUME NEW ports, \A n \in ports : n \in Int /\ 1 <= n
        PROVE  Overlaps(cut, ports) <=> Overlaps(r, ports)
    BY <2>1, <2>2 DEF Overlaps
  <2>3. cut.low <= 1 /\ cut.high >= 65535 <=> r.low <= 1 /\ r.high = 65535
    BY <2>1
  <2>4. CASE p = "NET-001"
    <3>1. IbmPortsOf(p) = Admin /\ \A n \in Admin : n \in Int /\ 1 <= n
      BY <2>4 DEF IbmPortsOf, IbmAdminPorts, Admin
    <3>2. r.low <= 1 /\ r.high = 65535 => Overlaps(r, Admin)
      BY <2>1 DEF Overlaps, Admin
    <3>3. QED
      BY <2>2, <2>3, <2>4, <3>1, <3>2, Reaching
  <2>5. CASE p = "NET-002"
    <3>1. ~Overlaps(cut, IbmPortsOf(p))
      BY <2>5 DEF IbmPortsOf, Overlaps
    <3>2. QED
      BY <2>3, <2>5, <3>1, Reaching
  <2>6. CASE p = "NET-003"
    <3>1. /\ IbmDatastorePorts = Datastore \cup OwnDatastorePorts(k)
          /\ \A n \in IbmDatastorePorts : n \in Int /\ 1 <= n
      BY DEF IbmDatastorePorts, Datastore, OwnDatastorePorts
    <3>2. Overlaps(r, Datastore) \/ ~Overlaps(r, OwnDatastorePorts(k))
      BY <1>3, <2>6 DEF AgreedRule
    <3>3. Overlaps(r, IbmDatastorePorts) <=> Overlaps(r, Datastore)
      BY <3>1, <3>2 DEF Overlaps
    <3>4. r.low <= 1 /\ r.high = 65535 => Overlaps(r, Datastore)
      BY <2>1 DEF Overlaps, Datastore
    <3>5. IbmPortsOf(p) = IbmDatastorePorts
      BY <2>6 DEF IbmPortsOf
    <3>6. QED
      BY <2>2, <2>3, <2>6, <3>1, <3>3, <3>4, <3>5, Reaching
  <2>7. QED
    BY <2>4, <2>5, <2>6 DEF Net
<1>4. r.ports = "any" => opens
  BY PortsCut
<1>5. /\ r.direction \in {"in", "out"} /\ r.access \in {"allow", "deny", "absent"}
      /\ r.protocol \in {"all", "tcp", "udp", "icmp"} /\ r.protocol = "all" => r.ports = "any"
  BY <1>1, RuleFields DEF AgreedRule, AgreedForm, Directions, Accesses, Protocols
<1>6. IbmOpens(r, IbmPortsOf(p))
        <=> /\ r.access = "allow" /\ r.direction = "in" /\ r.source = "world"
            /\ opens
  BY <1>1, <1>5 DEF IbmOpens
<1> HIDE DEF opens
<1>7. ASSUME r.direction = "in", r.access = "allow", r.source = "world"
      PROVE  opens <=> Exposes(r, p)
  <2>1. CASE r.protocol \in Carriers(p)
    <3>1. r.ports = "range" => r.protocol \in {"tcp", "udp"}
      BY <1>5, <2>1 DEF Carriers
    <3>2. QED
      BY <1>2, <1>3, <1>4, <1>7, <2>1, <3>1 DEF Exposes
  <2>2. CASE r.protocol \notin Carriers(p)
    <3>1. /\ p \in {"NET-001", "NET-003"} /\ r.protocol = "udp" /\ r.ports = "range"
          /\ ~Overlaps(r, Admin) /\ ~Overlaps(r, Datastore)
      BY <1>7, <2>2, NotCarried
    <3>2. ~opens
      BY <1>3, <3>1, Reaching
    <3>3. QED
      BY <2>2, <3>2 DEF Exposes
  <2>3. QED
    BY <2>1, <2>2
<1>8. IbmOpens(r, IbmPortsOf(p)) <=> Exposes(r, p)
  BY <1>5, <1>6, <1>7 DEF Exposes
<1>9. QED
  BY <1>1, <1>8, NothingToFill

LEMMA IbmRules ==
  ASSUME NEW p \in Net, NEW k \in {"ibm.vpc.security_groups", "ibm.vpc.network_acls"},
         NEW type \in Firewalls, NEW rules \in SUBSET FirewallRules,
         \A r \in rules : AgreedRule(k, p, r)
  PROVE  Right(Says(p, "ibm", type, IbmFirewallFacts(rules)), RulesTruth(rules, p))
<1> DEFINE facts == IbmFirewallFacts(rules)
<1>1. OpenTo(p) \in DOMAIN facts /\ facts[OpenTo(p)] = Is(\E r \in rules : IbmOpens(r, IbmPortsOf(p)))
  BY DEF IbmFirewallFacts, OpenTo, IbmPortsOf, Net
<1> HIDE DEF facts
<1>2. \A r \in rules : Completions(r) = {r} /\ (IbmOpens(r, IbmPortsOf(p)) <=> Exposes(r, p))
  BY IbmRule
<1>3. facts[OpenTo(p)] = Is(\E r \in rules : Exposes(r, p))
  BY <1>1, <1>2
<1>4. Right(Says(p, "ibm", type, facts), RulesTruth(rules, p))
  BY <1>1, <1>2, <1>3, RulesRight DEF Everywhere
<1>5. QED
  BY <1>4 DEF facts

LEMMA IbmRuleSet ==
  ASSUME NEW p \in Net, NEW k \in {"ibm.vpc.security_groups", "ibm.vpc.network_acls"},
         NEW t, t # 0, NEW w, w[t] \in ThingConfigs(k), Agreed(k, p, w[t])
  PROVE  LET obs == IbmObservations(k, t, w[t])
         IN Deserved(obs, "ibm", k, p, t, w) /\ Covered(obs, k, p, t, w)
<1> DEFINE A == w[t].rules1
           B == w[t].rules2
           parts == RuleParts(<<A, B>>)
           facts == [i \in DOMAIN parts |-> IbmFirewallFacts(parts[i])]
           obs == {Observation(i, RuleType(i), facts[i]) : i \in DOMAIN parts}
<1>1. /\ w[t].rules1 \in SUBSET FirewallRules /\ w[t].rules2 \in SUBSET FirewallRules
      /\ \A r \in w[t].rules1 \cup w[t].rules2 : AgreedRule(k, p, r)
  BY DEF ThingConfigs, RuleSetConfigs, Agreed
<1> HIDE DEF A, B
<1>2. \A i \in DOMAIN parts : parts[i] = IF i = 0 THEN A \cup B ELSE IF i = 1 THEN A ELSE B
  BY PartsOfRules
<1> HIDE DEF parts
<1>3. \A i \in DOMAIN parts : /\ parts[i] \in SUBSET FirewallRules
                              /\ \A r \in parts[i] : AgreedRule(k, p, r)
  BY <1>1, <1>2 DEF A, B
<1>4. IbmObservations(k, t, w[t]) = obs
  BY DEF IbmObservations, parts, A, B
<1>5. \A i \in DOMAIN parts : Right(Says(p, "ibm", RuleType(i), facts[i]), RulesTruth(parts[i], p))
  BY <1>3, IbmRules DEF RuleType, Firewalls
<1> HIDE DEF facts
<1>6. Deserved(obs, "ibm", k, p, t, w) /\ Covered(obs, k, p, t, w)
  <2>1. k # "gcp.compute.firewalls" /\ parts = RuleParts(<<w[t].rules1, w[t].rules2>>)
    BY DEF parts, A, B
  <2> HIDE DEF obs
  <2>2. obs = {Observation(i, RuleType(i), facts[i]) : i \in DOMAIN parts}
    BY DEF obs
  <2>3. QED
    BY <1>5, <2>1, <2>2, RuleSetDeserved
<1>7. QED
  BY <1>4, <1>6

\* The settings of an account, and what they do not say.
LEMMA AccountMfa ==
  ASSUME NEW c \in AccountConfigs("ibm.iam.identity"), AgreedAccount("ibm.iam.identity", c),
         NEW s, s.mfa = c.mfa
  PROVE  Right(Says("IBM-IAM-001", "ibm", "account.scope", AccountSettingsFacts(s)),
               TruthOfThing("ibm.iam.identity", "IBM-IAM-001", c))
<1> DEFINE facts == AccountSettingsFacts(s)
<1>1. "account_mfa_enforced" \in DOMAIN facts /\ facts["account_mfa_enforced"] = IbmTri(c.mfa)
  BY DEF AccountSettingsFacts
<1>2. c.mfa \in MfaWords /\ DOMAIN c = {"mfa"}
  BY DEF AccountConfigs, AgreedAccount
<1>3. TruthOfThing("ibm.iam.identity", "IBM-IAM-001", c) = Judge(c.mfa = "on", c.mfa = "off")
  BY <1>2 DEF TruthOfThing
<1>4. IbmTri("on") = "yes" /\ IbmTri("off") = "no" /\ IbmTri("other") = "unknown"
  BY DEF IbmTri
<1> HIDE DEF facts
<1>5. Right(Says("IBM-IAM-001", "ibm", "account.scope", facts), Judge(c.mfa = "on", c.mfa = "off"))
  BY <1>1, <1>2, <1>4, ProviderEntries, NoIsFail DEF Accounts, Right, Judge, MfaWords
<1>6. QED
  BY <1>3, <1>5 DEF facts

LEMMA AccountHasNoAge ==
  ASSUME NEW c \in AccountConfigs("ibm.iam.identity"), NEW facts
  PROVE  Right(Says("IAM-002", "ibm", "account.scope", facts),
               TruthOfThing("ibm.iam.identity", "IAM-002", c))
<1>1. TruthOfThing("ibm.iam.identity", "IAM-002", c) = "open"
  BY DEF AccountConfigs, TruthOfThing
<1>2. Says("IAM-002", "ibm", "account.scope", facts) \notin {"fail", "pass"}
  BY OtherEntries, NothingSaid DEF Principals
<1>3. QED
  BY <1>1, <1>2 DEF Right

\* The keys of a service ID.
LEMMA ServiceKeys ==
  ASSUME NEW c \in ThingConfigs("ibm.iam.identity"), Agreed("ibm.iam.identity", "IAM-002", c),
         NEW s, {"keys1", "keys2"} \subseteq DOMAIN s, s.keys1 = c.keys1, s.keys2 = c.keys2
  PROVE  Right(Says("IAM-002", "ibm", "identity.principal", ServiceIdFacts(s)),
               TruthOfThing("ibm.iam.identity", "IAM-002", c))
<1> DEFINE facts == ServiceIdFacts(s)
           keys == c.keys1 \cup c.keys2
           ages == {k.age : k \in keys}
<1>1. /\ keys \in SUBSET AccessKeys /\ DOMAIN c = {"keys1", "keys2"}
      /\ \A k \in keys : k.age # NoAge
  BY DEF ThingConfigs, Agreed
<1>2. Got(s, "keys1", {}) \cup Got(s, "keys2", {}) = keys
  BY DEF Got
<1>3. TruthOfThing("ibm.iam.identity", "IAM-002", c) =
        IF \E j \in keys : j.age = NoAge THEN "open" ELSE Judge(\A j \in keys : j.age <= 90, TRUE)
  <2>1. TruthOfThing("ibm.iam.identity", "IAM-002", c) = KeysTruth("ibm.iam.identity", keys)
    BY <1>1 DEF TruthOfThing
  <2>2. {j \in keys : "ibm.iam.identity" = "aws.iam.principals" => j.active} = keys
    OBVIOUS
  <2>3. QED
    BY <2>1, <2>2 DEF KeysTruth
<1>4. ages \in SUBSET Ages /\ NoAge \notin ages
  BY <1>1 DEF AccessKeys, Ages
<1>5. "credential_age_days" \in DOMAIN facts
      /\ facts["credential_age_days"] = IF ages = {} THEN NoAge ELSE Max(ages)
  <2>1. {k.age : k \in Got(s, "keys1", {}) \cup Got(s, "keys2", {})} \ {NoAge} = ages
    BY <1>2, <1>4
  <2>2. QED
    BY <2>1 DEF ServiceIdFacts
<1>6. (\A j \in keys : j.age <= 90) <=> \A a \in ages : a <= 90
  OBVIOUS
<1>7. ~\E j \in keys : j.age = NoAge
  BY <1>1
<1> HIDE DEF facts, keys, ages
<1>8. Right(Says("IAM-002", "ibm", "identity.principal", facts),
            IF NoAge \in ages THEN "open" ELSE Judge(\A a \in ages : a <= 90, TRUE))
  BY <1>4, <1>5, AgeRight
<1>9. TruthOfThing("ibm.iam.identity", "IAM-002", c) = Judge(\A a \in ages : a <= 90, TRUE)
  BY <1>3, <1>6, <1>7
<1>10. QED
  BY <1>4, <1>8, <1>9 DEF facts

\* Without its keys, nothing is said of a service ID.
LEMMA NoServiceKeys ==
  ASSUME NEW s, "keys1" \notin DOMAIN s, "keys2" \notin DOMAIN s
  PROVE  Says("IAM-002", "ibm", "identity.principal", ServiceIdFacts(s)) \notin {"fail", "pass"}
<1> DEFINE facts == ServiceIdFacts(s)
<1>1. facts["credential_age_days"] = NoAge
  <2>1. {k.age : k \in Got(s, "keys1", {}) \cup Got(s, "keys2", {})} \ {NoAge} = {}
    BY DEF Got
  <2>2. QED
    BY <2>1 DEF ServiceIdFacts
<1> HIDE DEF facts
<1>2. Says("IAM-002", "ibm", "identity.principal", facts) \notin {"fail", "pass"}
  BY <1>1, OtherEntries, NothingSaid
<1>3. QED
  BY <1>2 DEF facts

LEMMA ServiceHasNoMfa ==
  ASSUME NEW c \in ThingConfigs("ibm.iam.identity"), NEW facts
  PROVE  Right(Says("IBM-IAM-001", "ibm", "identity.principal", facts),
               TruthOfThing("ibm.iam.identity", "IBM-IAM-001", c))
<1>1. TruthOfThing("ibm.iam.identity", "IBM-IAM-001", c) = "open"
  BY DEF ThingConfigs, TruthOfThing
<1>2. Says("IBM-IAM-001", "ibm", "identity.principal", facts) \notin {"fail", "pass"}
  BY ProviderEntries, NothingSaid DEF Accounts
<1>3. QED
  BY <1>1, <1>2 DEF Right

\* The MFA of a user, as the report has it or the status does.
LEMMA UserReport ==
  ASSUME NEW c \in ThingConfigs("ibm.iam.identity.users"), Consistent("ibm.iam.identity.users", c),
         Agreed("ibm.iam.identity.users", "IAM-001", c),
         NEW s, s.report \in MfaWords,
         IF s.report = "other" THEN s.status = c.status ELSE s.report = c.report
  PROVE  Right(Says("IAM-001", "ibm", "identity.principal", UserMfaFacts(s)),
               TruthOfThing("ibm.iam.identity.users", "IAM-001", c))
<1> DEFINE facts == UserMfaFacts(s)
<1>1. /\ IbmTri("on") = "yes" /\ IbmTri("off") = "no" /\ IbmTri("other") = "unknown"
  BY DEF IbmTri
<1>2. c.status \in MfaWords /\ DOMAIN c = {"report", "status"}
  BY DEF ThingConfigs
<1>3. c.report \in {"on", "off"} => c.report = c.status
  BY DEF Consistent
<1>4. "mfa_enabled" \in DOMAIN facts
      /\ facts["mfa_enabled"] = IbmTri(IF IbmTri(s.report) = "unknown" THEN s.status ELSE s.report)
  BY DEF UserMfaFacts
<1>5. TruthOfThing("ibm.iam.identity.users", "IAM-001", c) = Judge(c.status = "on", c.status = "off")
  BY <1>2 DEF TruthOfThing
<1> HIDE DEF facts
<1>6. facts["mfa_enabled"] = IbmTri(c.status)
  BY <1>1, <1>3, <1>4 DEF MfaWords
<1>7. Right(Says("IAM-001", "ibm", "identity.principal", facts), Judge(c.status = "on", c.status = "off"))
  BY <1>1, <1>2, <1>4, <1>6, OtherEntries, NoIsFail DEF Everywhere, Principals, Right, Judge, MfaWords
<1>8. QED
  BY <1>5, <1>7 DEF facts
-----------------------------------------------------------------------------
(***************************************************************************)
(* Collectors that read nothing a policy is about.                         *)
(***************************************************************************)
LEMMA LogOpen ==
  ASSUME NEW k, NEW t, NEW w, DOMAIN w[t] \cap {"logging", "settings"} = {}, NEW provider, NEW obs,
         \A o \in obs : Says("LOG-001", provider, o.type, o.facts) \notin {"fail", "pass"}
  PROVE  Deserved(obs, provider, k, "LOG-001", t, w) /\ Covered(obs, k, "LOG-001", t, w)
  BY TruthOfLog DEF Deserved, Covered, Right

LEMMA SilentFacts ==
  /\ \A provider, type : Says("LOG-001", provider, type, AccountFacts) \notin {"fail", "pass"}
  /\ \A provider, type : Says("LOG-001", provider, type, AuditConfigFacts) \notin {"fail", "pass"}
  /\ \A provider, facts :
       /\ Says("LOG-001", provider, "identity.policy_binding", facts) \notin {"fail", "pass"}
       /\ Says("LOG-001", provider, "object_storage.account", facts) \notin {"fail", "pass"}
<1>1. AccountFacts["audit_logging_enabled"] = "unknown"
      /\ AuditConfigFacts["audit_logging_enabled"] = "unknown"
  BY DEF AccountFacts, AuditConfigFacts
<1>2. /\ "identity.policy_binding" \notin Logs \cup Accounts
      /\ "object_storage.account" \notin Logs \cup Accounts
  BY DEF Logs, Accounts
<1>3. QED
  BY <1>1, <1>2, OtherEntries, NothingSaid
-----------------------------------------------------------------------------
(***************************************************************************)
(* Who may read or write: what is said of answers of different times, and   *)
(* what is true of a configuration.                                        *)
(***************************************************************************)
PublicPolicies == {"STOR-001", "STOR-002"}

KindOf(p) == IF p = "STOR-001" THEN "read" ELSE "write"

PublicFact(p) == IF p = "STOR-001" THEN "public_read_access" ELSE "public_write_access"

LEMMA PublicEntry ==
  ASSUME NEW p \in PublicPolicies, NEW provider \in Everywhere, NEW facts,
         PublicFact(p) \in DOMAIN facts
  PROVE  /\ Says(p, provider, "object_storage.bucket", facts) = "fail" <=> facts[PublicFact(p)] = "yes"
         /\ Says(p, provider, "object_storage.bucket", facts) = "pass"
              <=> facts[PublicFact(p)] \notin {"yes", "unknown"}
<1> DEFINE fact == PublicFact(p)
<1>1. Catalog(p) = Policy(Everywhere, Buckets, fact, "yes_is_fail") /\ fact \in DOMAIN facts
  BY StorageEntries DEF PublicPolicies, PublicFact
<1> HIDE DEF fact
<1>2. /\ Says(p, provider, "object_storage.bucket", facts) = "fail" <=> facts[fact] = "yes"
      /\ Says(p, provider, "object_storage.bucket", facts) = "pass" <=> facts[fact] \notin {"yes", "unknown"}
  BY <1>1, YesIsFail DEF Buckets
<1>3. QED
  BY <1>2 DEF fact

LEMMA PublicTruthOf ==
  ASSUME NEW p \in PublicPolicies, NEW k, NEW c
  PROVE  TruthOfThing(k, p, c) = PublicTruth(k, c, KindOf(p))
  BY DEF PublicPolicies, KindOf, TruthOfThing

LEMMA S3Access ==
  ASSUME NEW p \in PublicPolicies, NEW s, s.public \in BOOLEAN
  PROVE  LET verdict == Says(p, "aws", "object_storage.bucket", S3BucketFacts(s))
         IN /\ verdict = "pass" <=> s.block = "all"
            /\ verdict = "fail" <=> s.block # "all" /\ s.public /\ Grants(s.policy, KindOf(p))
<1> DEFINE facts == S3BucketFacts(s)
           granted == Grants(s.policy, KindOf(p))
<1>1. AllPublicBlocks(s.block) = "yes" <=> s.block = "all"
  BY DEF AllPublicBlocks, TriState
<1>2. /\ PublicFact(p) \in DOMAIN facts
      /\ facts[PublicFact(p)] = IF AllPublicBlocks(s.block) = "yes" THEN "no"
                                ELSE IF s.public /\ granted THEN "yes" ELSE "unknown"
  BY DEF S3BucketFacts, PublicFact, PublicPolicies, KindOf
<1> HIDE DEF facts, granted
<1>3. LET verdict == Says(p, "aws", "object_storage.bucket", facts)
      IN /\ verdict = "pass" <=> s.block = "all"
         /\ verdict = "fail" <=> s.block # "all" /\ s.public /\ granted
  BY <1>1, <1>2, PublicEntry DEF Everywhere
<1>4. QED
  BY <1>3 DEF facts, granted

LEMMA S3Public ==
  ASSUME NEW p \in PublicPolicies, NEW c \in ThingConfigs("aws.s3.buckets"),
         Consistent("aws.s3.buckets", c)
  PROVE  LET truth == TruthOfThing("aws.s3.buckets", p, c)
         IN /\ c.public \in BOOLEAN
            /\ Grants(c.policy, KindOf(p)) => c.public
            /\ c.block = "all" => truth = "good"
            /\ truth = "bad" <=> c.block # "all" /\ Grants(c.policy, KindOf(p))
<1>1. TruthOfThing("aws.s3.buckets", p, c)
        = Judge(c.block = "all" \/ c.policy \cap {KindOf(p), "all", "unreadable"} = {},
                "unreadable" \notin c.policy /\ c.policy \cap {KindOf(p), "all"} # {})
  BY PublicTruthOf DEF PublicTruth
<1>2. c.public \in BOOLEAN /\ c.public = (c.policy \cap {"read", "write", "all"} # {})
  BY DEF ThingConfigs, Consistent
<1>3. KindOf(p) \in {"read", "write"}
  BY DEF KindOf
<1>4. QED
  BY <1>1, <1>2, <1>3 DEF Judge, Grants

\* Roles that let everybody read, or write.
Opening(p, roles) ==
  /\ roles \cap {"viewer", "admin", "creator"} # {}
  /\ p = "STOR-002" => roles \cap {"creator", "admin"} # {}

LEMMA GcpAccess ==
  ASSUME NEW p \in PublicPolicies, NEW s
  PROVE  LET verdict == Says(p, "gcp", "object_storage.bucket", StorageBucketFacts(s))
         IN /\ verdict = "fail" <=> s.pap # "enforced" /\ Opening(p, s.iam)
            /\ verdict = "pass" <=> s.pap = "enforced" \/ ~Opening(p, s.iam)
<1> DEFINE facts == StorageBucketFacts(s)
           open == s.pap # "enforced" /\ Opening(p, s.iam)
<1>1. PublicFact(p) \in DOMAIN facts /\ facts[PublicFact(p)] = IF open THEN "yes" ELSE "no"
  <2>1. CASE p = "STOR-001"
    BY <2>1 DEF StorageBucketFacts, PublicFact, Opening, PublicRead, Is, TriState
  <2>2. CASE p = "STOR-002"
    BY <2>2 DEF StorageBucketFacts, PublicFact, Opening, PublicWrite, Is, TriState
  <2>3. QED
    BY <2>1, <2>2 DEF PublicPolicies
<1> HIDE DEF facts, open
<1>2. LET verdict == Says(p, "gcp", "object_storage.bucket", facts)
      IN (verdict = "fail" <=> open) /\ (verdict = "pass" <=> ~open)
  BY <1>1, PublicEntry DEF Everywhere
<1>3. QED
  BY <1>2 DEF facts, open

LEMMA GcpPublic ==
  ASSUME NEW p \in PublicPolicies, NEW c \in ThingConfigs("gcp.storage.buckets"),
         Agreed("gcp.storage.buckets", p, c)
  PROVE  TruthOfThing("gcp.storage.buckets", p, c)
           = IF c.pap # "enforced" /\ Opening(p, c.iam) THEN "bad" ELSE "good"
<1>1. TruthOfThing("gcp.storage.buckets", p, c) = PublicTruth("gcp.storage.buckets", c, KindOf(p))
  BY PublicTruthOf
<1>2. CASE p = "STOR-001"
  <2>1. "creator" \notin c.iam /\ "absent" \notin c.iam
    BY <1>2 DEF Agreed
  <2>2. c.iam \cap {"viewer", "admin", "absent"} = {} <=> ~Opening(p, c.iam)
    BY <1>2, <2>1 DEF Opening
  <2>3. PublicTruth("gcp.storage.buckets", c, KindOf(p))
          = Judge(c.pap = "enforced" \/ c.iam \cap {"viewer", "admin", "absent"} = {}, TRUE)
    <3>1. {"viewer", "admin"} \cup {"absent"} = {"viewer", "admin", "absent"}
      OBVIOUS
    <3>2. QED
      BY <1>2, <2>1, <3>1 DEF PublicTruth, KindOf
  <2>4. QED
    BY <1>1, <2>2, <2>3 DEF Judge
<1>3. CASE p = "STOR-002"
  <2>1. "absent" \notin c.iam
    BY <1>3 DEF Agreed
  <2>2. c.iam \cap {"creator", "admin", "absent"} = {} <=> ~Opening(p, c.iam)
    BY <1>3, <2>1 DEF Opening
  <2>3. PublicTruth("gcp.storage.buckets", c, KindOf(p))
          = Judge(c.pap = "enforced" \/ c.iam \cap {"creator", "admin", "absent"} = {}, TRUE)
    <3>1. {"creator", "admin"} \cup {"absent"} = {"creator", "admin", "absent"}
      OBVIOUS
    <3>2. QED
      BY <1>3, <2>1, <3>1 DEF PublicTruth, KindOf
  <2>4. QED
    BY <1>1, <2>2, <2>3 DEF Judge
<1>4. QED
  BY <1>2, <1>3 DEF PublicPolicies

\* An ACL that can be read lets everybody in or does not, and a policy lets
\* everybody in as it reads.
AclTold(acl)        == acl \cap {"absent", "malformed"} = {}
AclOpen(acl, p)     == AclTold(acl) /\ acl \cap {KindOf(p), "full"} # {}
AclClosed(acl, p)   == AclTold(acl) /\ acl \cap {KindOf(p), "full"} = {}
PolicyOpen(text, p) == "unreadable" \notin text /\ text \cap {KindOf(p), "all"} # {}

LEMMA IbmAccess ==
  ASSUME NEW p \in PublicPolicies, NEW s, s.acl \cap {"write_acp", "absent"} = {},
         s.public \in TriStates
  PROVE  LET verdict == Says(p, "ibm", "object_storage.bucket", CosBucketFacts(s))
         IN /\ verdict = "fail" <=> \/ AclOpen(s.acl, p)
                                    \/ s.public = "yes" /\ PolicyAccess(s.policy, KindOf(p)) = "yes"
            /\ verdict = "pass" => AclClosed(s.acl, p) /\ s.public = "no"
<1> DEFINE facts == CosBucketFacts(s)
           access == PolicyAccess(s.policy, KindOf(p))
           settled == Settled(access, s.public)
           acl == TriState(~AclTold(s.acl), s.acl \cap {KindOf(p), "full"} # {})
<1>1. PublicFact(p) \in DOMAIN facts /\ facts[PublicFact(p)] = AnyOf({acl, settled})
  <2>0. "malformed" \in s.acl <=> ~AclTold(s.acl)
    BY DEF AclTold
  <2>1. CASE p = "STOR-001"
    <3>1. AclAccess(s.acl, {"read"}) = acl
      <4>1. {"read"} \cup {"full"} = {KindOf(p), "full"}
        BY <2>1 DEF KindOf
      <4>2. QED
        BY <2>0, <4>1 DEF AclAccess, TriState
    <3>2. QED
      BY <2>1, <3>1 DEF CosBucketFacts, PublicFact, KindOf
  <2>2. CASE p = "STOR-002"
    <3>1. AclAccess(s.acl, {"write", "write_acp"}) = acl
      <4>1. s.acl \cap ({"write", "write_acp"} \cup {"full"}) = s.acl \cap {KindOf(p), "full"}
        BY <2>2 DEF KindOf
      <4>2. QED
        BY <2>0, <4>1 DEF AclAccess, TriState
    <3>2. QED
      BY <2>2, <3>1 DEF CosBucketFacts, PublicFact, KindOf
  <2>3. QED
    BY <2>1, <2>2 DEF PublicPolicies
<1>2. acl \in TriStates /\ (acl = "yes" <=> AclOpen(s.acl, p)) /\ (acl = "no" <=> AclClosed(s.acl, p))
  BY DEF TriState, TriStates, AclOpen, AclClosed
<1>3. access \in TriStates
  BY DEF PolicyAccess, TriState, TriStates
<1> HIDE DEF facts, access
<1>4. /\ settled \in TriStates
      /\ settled = "yes" <=> s.public = "yes" /\ access = "yes"
      /\ settled = "no" <=> s.public = "no"
  BY <1>3 DEF Settled, TriStates
<1> HIDE DEF settled, acl
<1>5. /\ AnyOf({acl, settled}) = "yes" <=> acl = "yes" \/ settled = "yes"
      /\ AnyOf({acl, settled}) \notin {"yes", "unknown"} => acl = "no" /\ settled = "no"
  BY <1>2, <1>4 DEF AnyOf, TriStates
<1>6. LET verdict == Says(p, "ibm", "object_storage.bucket", facts)
      IN /\ verdict = "fail" <=> acl = "yes" \/ settled = "yes"
         /\ verdict = "pass" => acl = "no" /\ settled = "no"
  BY <1>1, <1>5, PublicEntry DEF Everywhere
<1>7. QED
  BY <1>2, <1>4, <1>6 DEF facts, access

LEMMA IbmPublic ==
  ASSUME NEW p \in PublicPolicies, NEW c \in ThingConfigs("ibm.cos.buckets"),
         Consistent("ibm.cos.buckets", c)
  PROVE  LET truth == TruthOfThing("ibm.cos.buckets", p, c)
         IN /\ AclClosed(c.acl, p) /\ c.public = "no" => truth = "good"
            /\ truth = "bad" <=> AclOpen(c.acl, p) \/ PolicyOpen(c.policy, p)
            /\ PolicyOpen(c.policy, p) => c.public = "yes"
            /\ c.public \in {"yes", "no"}
            /\ c.public = "yes" => c.policy \cap {"read", "write", "all"} # {}
<1>1. TruthOfThing("ibm.cos.buckets", p, c)
        = Judge(AclClosed(c.acl, p) /\ c.public = "no",
                AclOpen(c.acl, p) \/ PolicyOpen(c.policy, p))
  BY PublicTruthOf DEF PublicTruth, AclTold, AclOpen, AclClosed, PolicyOpen, Judge
<1>2. c.public = Is(c.policy \cap {"read", "write", "all"} # {})
  BY DEF Consistent
<1>3. c.public = IF c.policy \cap {"read", "write", "all"} # {} THEN "yes" ELSE "no"
  BY <1>2 DEF Is, TriState
<1>4. PolicyOpen(c.policy, p) => c.public = "yes"
  BY <1>3 DEF PolicyOpen, KindOf
<1>5. ~(AclOpen(c.acl, p) /\ AclClosed(c.acl, p))
  BY DEF AclOpen, AclClosed
<1>6. QED
  BY <1>1, <1>3, <1>4, <1>5 DEF Judge
=============================================================================
