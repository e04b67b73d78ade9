--------------------------- MODULE AwsCollectors ---------------------------
(***************************************************************************)
(* The collectors of the AWS adapter: their calls, in order, and the facts  *)
(* they derive from the answers.                                           *)
(*                                                                         *)
(* A bucket policy is the set of its statements, by kind: "read", "write"   *)
(* and "all" allow everybody s3:GetObject, s3:PutObject and s3:*, "guarded" *)
(* is such a statement with a condition, "tls" denies what is not sent over *)
(* TLS; no policy is the empty set, "unreadable" one that cannot be parsed. *)
(***************************************************************************)
EXTENDS Providers, FiniteSetsExt

\* Bug: one switch of four is taken for all of them.
AllPublicBlocksSome(block) ==
  TriState(block = "odd", block \in {"all", "some"})

\* _all_public_blocks: the switches are "absent", "some" or "all" on, or the
\* answer lacks one ("odd").  An answer without the mapping of the switches is
\* taken for one that says there are none.
AllPublicBlocks(block) == TriState(block = "odd", block = "all")

\* _bucket_policy_facts
Grants(policy, kind) == "unreadable" \notin policy /\ policy \cap {kind, "all"} # {}

\* _encryption_posture: the rules of the default encryption
EncryptionPosture(rules) ==
  IF rules = {"absent"} THEN "none"
  ELSE IF "own_kms" \in rules THEN "customer_managed"
  ELSE IF rules \cap {"aes", "aws_kms"} # {} THEN "provider_managed"
  ELSE "unknown"

S3Buckets ==
  [Lister("aws", {}) EXCEPT !.each =
     <<Call("get_bucket_location", {}),
       Call("get_bucket_policy_status", {"public"}),
       Call("get_public_access_block", {"block"}),
       Call("get_bucket_encryption", {"encryption"}),
       Call("get_bucket_versioning", {}),
       Call("get_bucket_logging", {"logging"}),
       Call("get_bucket_policy", {"policy"})>>]

S3BucketFacts(s) ==
  LET Access(granted) == IF AllPublicBlocks(s.block) = "yes" THEN "no"
                         ELSE IF s.public /\ granted THEN "yes" ELSE "unknown"
  IN [public_read_access |-> Access(Grants(s.policy, "read")),
      public_write_access |-> Access(Grants(s.policy, "write")),
      encryption_at_rest |-> EncryptionPosture(s.encryption),
      access_logging_enabled |-> Is(s.logging),
      tls_required |-> TriState("unreadable" \in s.policy, "tls" \in s.policy),
      block_public_access_all |-> AllPublicBlocks(s.block)]

S3Account == Reader("aws", <<Call("get_account_public_access_block", {"block"})>>)

S3AccountFacts(s) ==
  [audit_logging_enabled |-> "unknown", mfa_enforced |-> "unknown",
   block_public_access_all |-> AllPublicBlocks(s.block)]
-----------------------------------------------------------------------------
AwsAdminPorts     == {22, 3389}
AwsDatastorePorts == {1433, 1521, 27017, 3306, 5432, 6379, 9200, 11211}

\* All groups are listed before all rules; two rules of a group may be on
\* different pages.
SecurityGroups ==
  [Lister("aws", {}) EXCEPT !.after =
     <<Call("describe_security_group_rules", {"rules1"}),
       Call("describe_security_group_rules", {"rules2"})>>]

\* _rule_posture: apart from "all" the protocol is not looked at
AwsOpens(rule, ports) ==
  /\ rule.direction # "out" /\ rule.source = "world"
  /\ \/ rule.protocol = "all"
     \/ rule.ports = "range" /\ Overlaps(rule, ports)

\* _firewall_facts
AwsFirewallFacts(rules) ==
  [unrestricted_admin_ingress |-> Is(\E r \in rules : AwsOpens(r, AwsAdminPorts)),
   unrestricted_all_ports |-> Is(\E r \in rules : AwsOpens(r, {})),
   unrestricted_datastore_ingress |-> Is(\E r \in rules : AwsOpens(r, AwsDatastorePorts))]

\* A group without a rule in the answers has an empty list of rules.
SecurityGroupObservations(s) ==
  LET parts == RuleParts(<<Got(s, "rules1", {}), Got(s, "rules2", {})>>)
  IN {Observation(i, RuleType(i), AwsFirewallFacts(parts[i])) : i \in DOMAIN parts}
-----------------------------------------------------------------------------
IamPrincipals ==
  [Lister("aws", {}) EXCEPT
     !.before = <<Call("get_account_summary", {"root_keys", "root_mfa"}),
                  Call("get_account_password_policy", {"password_policy"}),
                  Call("get_credential_report", {})>>,
     !.each = <<Call("list_access_keys", {"keys"}), Call("list_mfa_devices", {"mfa"})>>]

\* _password_policy_strong: the policy is "absent", "weak" or "strong", or
\* lacks a number ("odd").  An answer without the policy is taken for none.
PasswordPolicyStrong(policy) == TriState(policy = "odd", policy = "strong")

\* Bug: the newest active key is taken for the oldest.
CredentialAgeNewest(keys) ==
  LET ages == {k.age : k \in {j \in keys : j.active}}
  IN IF ages = {} THEN 0 ELSE IF NoAge \in ages THEN NoAge ELSE Min(ages)

\* _credential_age: in days, of the oldest active key
CredentialAge(keys) ==
  LET ages == {k.age : k \in {j \in keys : j.active}}
  IN IF ages = {} THEN 0 ELSE IF NoAge \in ages THEN NoAge ELSE Max(ages)

RootFacts(s) ==
  [mfa_enabled |-> s.root_mfa, credential_age_days |-> NoAge,
   root_access_keys_active |-> s.root_keys,
   password_policy_strong |-> PasswordPolicyStrong(s.password_policy)]

UserFacts(s) ==
  [mfa_enabled |-> Is(s.mfa), credential_age_days |-> CredentialAge(s.keys)]

AccountSummaryFacts(s) ==
  [audit_logging_enabled |-> "unknown", mfa_enforced |-> "unknown",
   root_mfa_enabled |-> s.root_mfa,
   password_policy_strong |-> PasswordPolicyStrong(s.password_policy)]
-----------------------------------------------------------------------------
\* Only the trails whose home is the region of the target are looked at.
CloudTrail ==
  [Lister("aws", {"validation"}) EXCEPT !.paged = FALSE,
     !.each = <<Call("get_trail_status", {"logging"}), Call("get_event_selectors", {})>>]

TrailFacts(s) ==
  [audit_logging_enabled |-> s.logging, destination_public |-> "unknown",
   validation_enabled |-> s.validation]

\* The rotation is asked for only if the key supports it.
KmsKeys ==
  [Lister("aws", {}) EXCEPT !.each = <<Call("describe_key", {"supports"}),
                                       Call("get_key_rotation_status", {"rotation"})>>]

KmsKeyFacts(s) ==
  [rotation_enabled |-> Got(s, "rotation", "unknown"), supports_rotation |-> s.supports]
-----------------------------------------------------------------------------
AwsNames ==
  {"aws.s3.buckets", "aws.s3.account", "aws.ec2.security_groups", "aws.iam.principals",
   "aws.cloudtrail.trails", "aws.kms.keys"}

AwsProgram(k) ==
  CASE k = "aws.s3.buckets"          -> S3Buckets
    [] k = "aws.s3.account"          -> S3Account
    [] k = "aws.ec2.security_groups" -> SecurityGroups
    [] k = "aws.iam.principals"      -> IamPrincipals
    [] k = "aws.cloudtrail.trails"   -> CloudTrail
    [] k = "aws.kms.keys"            -> KmsKeys

AwsObservations(k, t, s) ==
  CASE k = "aws.s3.buckets" ->
         IF t = 0 THEN {} ELSE {Observation(0, "object_storage.bucket", S3BucketFacts(s))}
    [] k = "aws.s3.account" -> {Observation(0, "account.scope", S3AccountFacts(s))}
    [] k = "aws.ec2.security_groups" ->
         IF t = 0 THEN {} ELSE SecurityGroupObservations(s)
    [] k = "aws.iam.principals" ->
         IF t = 0 THEN {Observation(0, "identity.principal", RootFacts(s)),
                        Observation(1, "account.scope", AccountSummaryFacts(s))}
         ELSE {Observation(0, "identity.principal", UserFacts(s))}
    [] k = "aws.cloudtrail.trails" ->
         IF t = 0 THEN {} ELSE {Observation(0, "logging.audit_trail", TrailFacts(s))}
    [] k = "aws.kms.keys" ->
         IF t = 0 THEN {} ELSE {Observation(0, "kms.key", KmsKeyFacts(s))}
=============================================================================
