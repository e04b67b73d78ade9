--------------------------- MODULE VerdictsProofs ---------------------------
(***************************************************************************)
(* Proofs about the verdicts on an account that changes while it is         *)
(* collected.  What AgreementProofs says of one world is applied to a world *)
(* of the past that agrees with what CollectorsProofs says is known.  The   *)
(* last part is about the types of what is observed.                       *)
(***************************************************************************)
EXTENDS AgreementProofs, CollectorsProofs
-----------------------------------------------------------------------------
(***************************************************************************)
(* When a collection is complete: what is known, and what is observed.      *)
(***************************************************************************)
\* The verdicts on thing t are warranted, and not a bad part is overlooked.
FailsRightly(t) ==
  \A o \in Observed(t) : Verdict(o) = "fail" => \E w \in past : TruthIn(w, t, o.part) = "bad"

PassesRightly(t) ==
  \A o \in Observed(t) :
    Verdict(o) = "pass" => \E w \in past : TruthIn(w, t, o.part) \in {"good", "none"}

Notices(t) ==
  \A part \in 0..2 :
    (Throughout(t) /\ \A w \in past : Reported(w[t]) /\ TruthIn(w, t, part) = "bad") =>
      \E o \in Observed(t) : o.part = part /\ Verdict(o) = "fail"

Justified(t) == FailsRightly(t) /\ PassesRightly(t) /\ Notices(t)

\* The state in which the verdicts are given.
Over == Complete /\ Ground /\ Knowing

\* Observations that are right about one world of the past are enough.
LEMMA OneWorld ==
  ASSUME NEW t, NEW w \in past, t \in DOMAIN w,
         Deserved(Observed(t), Program.provider, collector, policy, t, w),
         Covered(Observed(t), collector, policy, t, w)
  PROVE  Justified(t)
<1>1. \A part : TruthIn(w, t, part) = Truth(collector, policy, t, part, w)
  BY DEF TruthIn
<1>2. \A o \in Observed(t) : Right(Verdict(o), TruthIn(w, t, o.part))
  BY <1>1 DEF Deserved, Verdict, Says
<1>3. FailsRightly(t)
  BY <1>2 DEF FailsRightly, Right
<1>4. PassesRightly(t)
  BY <1>2 DEF PassesRightly, Right
<1>5. Notices(t)
  <2>1. SUFFICES ASSUME NEW part \in 0..2, TruthIn(w, t, part) = "bad"
                 PROVE  \E o \in Observed(t) : o.part = part /\ Verdict(o) = "fail"
    BY DEF Notices
  <2>2. PICK o \in Observed(t) : o.part = part
    BY <1>1, <2>1 DEF Covered
  <2>3. QED
    BY <1>2, <2>1, <2>2 DEF Right
<1>6. QED
  BY <1>3, <1>4, <1>5 DEF Justified

\* Nothing is left to be done.
LEMMA NothingLeft ==
  ASSUME Over
  PROVE  /\ todo = <<>> /\ subject \in Subjects /\ DOMAIN seen = Things \cup {0}
         /\ listed \subseteq Things
         /\ policy \in Followed(collector)
         /\ \A t : CallsLeft(t) = {}
         /\ Program.lists => \A t \in Things : Throughout(t) => t \in listed
<1>1. todo = <<>> /\ subject \in Subjects /\ DOMAIN seen = Things \cup {0} /\ listed \subseteq Things
  BY DEF Over, Ground, IInv, Left, Accountable, Configured, Complete, Running
<1>2. NoList(todo)
  BY <1>1 DEF NoList
<1>3. Program.lists => \A t \in Things : Throughout(t) => t \in listed
  BY <1>2 DEF Over, Ground, IInv, ListedAll, Complete
<1>4. policy \in Followed(collector)
  BY <1>1, AgreementAssumption DEF policy, collector
<1>5. QED
  BY <1>1, <1>3, <1>4 DEF CallsLeft

\* What is known is from a world of the past, in which the thing is
\* configured as it may be.
From(w, t, a) ==
  /\ w \in past /\ t \in DOMAIN w /\ w[t] \in Configs(subject, t)
  /\ a \in DOMAIN w[t] /\ w[t][a] = seen[t][a]

LEMMA ReadAt ==
  ASSUME Over, NEW t \in Things \cup {0}, NEW a \in DOMAIN seen[t],
         ~(collector = "ibm.cos.buckets" /\ a = "policy")
  PROVE  \E w \in past : From(w, t, a)
<1>1. PICK w \in past : t \in DOMAIN w /\ a \in DOMAIN w[t] /\ w[t][a] = seen[t][a]
  BY DEF Over, Ground, KnownWasSo
<1>2. w[t] \in Configs(subject, t)
  BY <1>1 DEF Over, Ground, Configured
<1>3. QED
  BY <1>1, <1>2 DEF From

\* A verdict that reads one aspect is right about the world it was read in.
LEMMA OneAspect ==
  ASSUME Over, NEW t \in Things \cup {0}, NEW a \in DOMAIN seen[t],
         ~(collector = "ibm.cos.buckets" /\ a = "policy"),
         policy \notin Net \cup {"LOG-001"},
         NEW type, NEW facts, Observed(t) = {Observation(0, type, facts)},
         \A c \in Configs(subject, t) :
           a \in DOMAIN c /\ seen[t][a] = c[a] =>
             Right(Says(policy, Program.provider, type, facts), TruthOfThing(collector, policy, c))
  PROVE  Justified(t)
<1>1. PICK w \in past : From(w, t, a)
  BY ReadAt
<1>2. Right(Says(policy, Program.provider, type, facts), TruthOfThing(collector, policy, w[t]))
      /\ DOMAIN w[t] # {} /\ t \in DOMAIN w
  BY <1>1 DEF From
<1>3. /\ Deserved(Observed(t), Program.provider, collector, policy, t, w)
      /\ Covered(Observed(t), collector, policy, t, w)
  BY <1>2, OneObservation
<1>4. QED
  BY <1>2, <1>3, OneWorld

\* Each program belongs to a provider.
LEMMA ProvidersOf ==
  /\ \A k \in AwsNames : AwsProgram(k).provider = "aws"
  /\ \A k \in AzureNames : AzureProgram(k).provider = "azure"
  /\ \A k \in GcpNames : GcpProgram(k).provider = "gcp"
  /\ \A k \in IbmNames : IbmProgram(k).provider = "ibm"
<1>1. \A k \in AwsNames : AwsProgram(k).provider = "aws"
  BY DEF AwsNames, AwsProgram, S3Buckets, S3Account, SecurityGroups, IamPrincipals, CloudTrail,
         KmsKeys, Lister, Reader
<1>2. \A k \in AzureNames : AzureProgram(k).provider = "azure"
  BY DEF AzureNames, AzureProgram, Inventory, StorageAccounts, StorageContainers,
         NetworkSecurityGroups, RoleAssignments, DiagnosticSettings, KeyVaults, Lister
<1>3. \A k \in GcpNames : GcpProgram(k).provider = "gcp"
  BY DEF GcpNames, GcpProgram, GcpInventory, StorageBuckets, ComputeFirewalls, ProjectIamPolicy,
         AuditConfig, GcpKmsKeys, Lister, Reader
<1>4. \A k \in IbmNames : IbmProgram(k).provider = "ibm"
  BY DEF IbmNames, IbmProgram, IbmInventory, CosBuckets, IbmSecurityGroups, NetworkAcls,
         IamPolicies, IamIdentity, IamUsers, Lister
<1>5. QED
  BY <1>1, <1>2, <1>3, <1>4

LEMMA ProgramOf ==
  /\ collector \in AwsNames => Program = AwsProgram(collector) /\ Program.provider = "aws"
  /\ collector \in AzureNames => Program = AzureProgram(collector) /\ Program.provider = "azure"
  /\ collector \in GcpNames => Program = GcpProgram(collector) /\ Program.provider = "gcp"
  /\ collector \in IbmNames => Program = IbmProgram(collector) /\ Program.provider = "ibm"
<1>1. /\ AwsNames \cap AzureNames = {} /\ AwsNames \cap GcpNames = {} /\ AwsNames \cap IbmNames = {}
      /\ AzureNames \cap GcpNames = {} /\ AzureNames \cap IbmNames = {} /\ GcpNames \cap IbmNames = {}
  BY DEF AwsNames, AzureNames, GcpNames, IbmNames
<1>2. QED
  BY <1>1, ProvidersOf DEF Program

LEMMA ObservedOf ==
  ASSUME NEW t \in listed \cup {0}
  PROVE  /\ collector \in AwsNames => Observed(t) = AwsObservations(collector, t, seen[t])
         /\ collector \in AzureNames =>
              Observed(t) = IF t = 0 THEN {} ELSE AzureObservations(collector, seen[t])
         /\ collector \in GcpNames =>
              Observed(t) = GcpObservations(collector, t, [i \in listed \cup {0} |-> seen[i]])
         /\ collector \in IbmNames => Observed(t) = IbmObservations(collector, t, seen[t])
  BY ProgramOf DEF Observed

\* What the calls about a listed thing tell is known, all of it but what is
\* not worth a call.
LEMMA AllTold ==
  ASSUME Over, NEW t \in listed
  PROVE  /\ t \in Things /\ t # 0 /\ Was(t)
         /\ Program.item \subseteq DOMAIN seen[t]
         /\ \A c \in EachCalls : Told(t, c)
<1>1. Program.item \subseteq DOMAIN seen[t] /\ \A c \in EachCalls : Told(t, c)
  BY NothingLeft DEF Over, Complete, Knowing, Informed
<1>2. Was(t)
  BY DEF Over, Ground, Configured
<1>3. QED
  BY <1>1, <1>2, NothingLeft, ThingsAssumption

LEMMA KnownOfAws ==
  ASSUME Over, NEW t \in listed
  PROVE  /\ collector = "aws.s3.buckets" =>
              {"public", "block", "encryption", "logging", "policy"} \subseteq DOMAIN seen[t]
         /\ collector = "aws.iam.principals" => {"keys", "mfa"} \subseteq DOMAIN seen[t]
         /\ collector = "aws.cloudtrail.trails" => {"validation", "logging"} \subseteq DOMAIN seen[t]
         /\ collector = "aws.kms.keys" =>
              /\ "supports" \in DOMAIN seen[t]
              /\ "rotation" \in DOMAIN seen[t] \/ seen[t].supports # "yes"
<1>1. Program.item \subseteq DOMAIN seen[t] /\ \A c \in Elements(Program.each) : Told(t, c)
  BY AllTold DEF EachCalls
<1>2. CASE collector = "aws.s3.buckets"
  <2>1. Elements(Program.each) = Elements(S3Buckets.each)
    BY <1>2, TheirPrograms
  <2>2. /\ Call("get_bucket_policy_status", {"public"}) \in Elements(S3Buckets.each)
        /\ Call("get_public_access_block", {"block"}) \in Elements(S3Buckets.each)
        /\ Call("get_bucket_encryption", {"encryption"}) \in Elements(S3Buckets.each)
        /\ Call("get_bucket_logging", {"logging"}) \in Elements(S3Buckets.each)
        /\ Call("get_bucket_policy", {"policy"}) \in Elements(S3Buckets.each)
    BY ElementsOf DEF S3Buckets, Lister
  <2>3. QED
    BY <1>1, <1>2, <2>1, <2>2 DEF Told, Unneeded, Call
<1>3. CASE collector = "aws.iam.principals"
  <2>1. Program.each = <<Call("list_access_keys", {"keys"}), Call("list_mfa_devices", {"mfa"})>>
    BY <1>3, TheirPrograms DEF IamPrincipals, Lister
  <2>2. Call("list_access_keys", {"keys"}) \in Elements(Program.each)
        /\ Call("list_mfa_devices", {"mfa"}) \in Elements(Program.each)
    BY <2>1, ElementsOf
  <2>3. QED
    BY <1>1, <1>3, <2>2 DEF Told, Unneeded, Call
<1>4. CASE collector = "aws.cloudtrail.trails"
  <2>1. Program = CloudTrail
    BY <1>4, ProgramOf DEF AwsNames, AwsProgram
  <2>2. Program.item = {"validation"} /\ Call("get_trail_status", {"logging"}) \in Elements(Program.each)
    BY <2>1, ElementsOf DEF CloudTrail, Lister
  <2>3. QED
    BY <1>1, <1>4, <2>2 DEF Told, Unneeded, Call
<1>5. CASE collector = "aws.kms.keys"
  <2>1. Elements(Program.each) = {Call("describe_key", {"supports"}),
                                  Call("get_key_rotation_status", {"rotation"})}
    BY <1>5, KmsSweepsNothing DEF EachCalls
  <2>2. QED
    BY <1>1, <1>5, <2>1 DEF Told, Unneeded, Call
<1>6. QED
  BY <1>2, <1>3, <1>4, <1>5

LEMMA KnownOfAzure ==
  ASSUME Over, NEW t \in listed
  PROVE  /\ collector = "azure.storage.containers" =>
              {"here", "key", "https", "shared", "access"} \subseteq DOMAIN seen[t]
         /\ collector = "azure.storage.accounts" =>
              {"here", "key", "https", "shared"} \subseteq DOMAIN seen[t]
         /\ collector = "azure.network.security_groups" =>
              {"rules1", "rules2"} \subseteq DOMAIN seen[t]
         /\ collector = "azure.monitor.diagnostic_settings" => "settings" \in DOMAIN seen[t]
         /\ collector = "azure.keyvault.vaults" => {"soft", "purge"} \subseteq DOMAIN seen[t]
<1>1. Program.item \subseteq DOMAIN seen[t] /\ \A c \in Elements(Program.each) : Told(t, c)
  BY AllTold DEF EachCalls
<1>2. CASE collector = "azure.storage.containers"
  <2>1. Program = StorageContainers
    BY <1>2, ProgramOf DEF AzureNames, AzureProgram
  <2>2. /\ Program.item = {"here", "key", "https", "shared"}
        /\ Call("blob_containers.list", {"access"}) \in Elements(Program.each)
    BY <2>1, ElementsOf DEF StorageContainers, StorageAccounts, Lister
  <2>3. QED
    BY <1>1, <1>2, <2>2 DEF Told, Unneeded, Call
<1>3. CASE collector = "azure.storage.accounts"
  <2>1. Program = StorageAccounts
    BY <1>3, ProgramOf DEF AzureNames, AzureProgram
  <2>2. QED
    BY <1>1, <1>3, <2>1 DEF StorageAccounts, Lister
<1>4. CASE collector = "azure.network.security_groups"
  <2>1. Program = NetworkSecurityGroups
    BY <1>4, ProgramOf DEF AzureNames, AzureProgram
  <2>2. QED
    BY <1>1, <1>4, <2>1 DEF NetworkSecurityGroups, Lister
<1>5. CASE collector = "azure.monitor.diagnostic_settings"
  <2>1. Program = DiagnosticSettings
    BY <1>5, ProgramOf DEF AzureNames, AzureProgram
  <2>2. Call("diagnostic_settings.list", {"settings"}) \in Elements(Program.each)
    BY <2>1, ElementsOf DEF DiagnosticSettings, Lister
  <2>3. QED
    BY <1>1, <1>5, <2>2 DEF Told, Unneeded, Call
<1>6. CASE collector = "azure.keyvault.vaults"
  <2>1. Program = KeyVaults
    BY <1>6, ProgramOf DEF AzureNames, AzureProgram
  <2>2. QED
    BY <1>1, <1>6, <2>1 DEF KeyVaults, Lister
<1>7. QED
  BY <1>2, <1>3, <1>4, <1>5, <1>6

LEMMA KnownOfGcp ==
  ASSUME Over, NEW t \in listed
  PROVE  /\ collector = "gcp.storage.buckets" =>
              {"pap", "uniform", "cmek", "log", "iam"} \subseteq DOMAIN seen[t]
         /\ collector = "gcp.compute.firewalls" => "rule" \in DOMAIN seen[t]
         /\ collector = "gcp.kms.keys" => {"purpose", "rotation"} \subseteq DOMAIN seen[t]
<1>1. Program.item \subseteq DOMAIN seen[t] /\ \A c \in Elements(Program.each) : Told(t, c)
  BY AllTold DEF EachCalls
<1>2. CASE collector = "gcp.storage.buckets"
  <2>1. Program = StorageBuckets
    BY <1>2, ProgramOf DEF GcpNames, GcpProgram
  <2>2. /\ Call("reload", {"pap", "uniform", "cmek", "log"}) \in Elements(Program.each)
        /\ Call("get_iam_policy", {"iam"}) \in Elements(Program.each)
    BY <2>1, ElementsOf DEF StorageBuckets, Lister
  <2>3. QED
    BY <1>1, <1>2, <2>2 DEF Told, Unneeded, Call
<1>3. CASE collector = "gcp.compute.firewalls"
  <2>1. Program = ComputeFirewalls
    BY <1>3, ProgramOf DEF GcpNames, GcpProgram
  <2>2. QED
    BY <1>1, <1>3, <2>1 DEF ComputeFirewalls, Lister
<1>4. CASE collector = "gcp.kms.keys"
  <2>1. Program = GcpKmsKeys
    BY <1>4, ProgramOf DEF GcpNames, GcpProgram
  <2>2. Call("list_crypto_keys", {"purpose", "rotation"}) \in Elements(Program.each)
    BY <2>1, ElementsOf DEF GcpKmsKeys, Lister
  <2>3. QED
    BY <1>1, <1>4, <2>2 DEF Told, Unneeded, Call
<1>5. QED
  BY <1>2, <1>3, <1>4

LEMMA KnownOfIbm ==
  ASSUME Over, NEW t \in listed
  PROVE  /\ collector = "ibm.cos.buckets" => {"acl", "policy", "public"} \subseteq DOMAIN seen[t]
         /\ collector \in {"ibm.vpc.security_groups", "ibm.vpc.network_acls"} =>
              {"rules1", "rules2"} \subseteq DOMAIN seen[t]
         /\ collector = "ibm.iam.identity.users" =>
              /\ "report" \in DOMAIN seen[t]
              /\ "status" \in DOMAIN seen[t] \/ IbmTri(seen[t].report) # "unknown"
<1>1. Program.item \subseteq DOMAIN seen[t] /\ \A c \in Elements(Program.each) : Told(t, c)
  BY AllTold DEF EachCalls
<1>2. CASE collector = "ibm.cos.buckets"
  <2>1. Program.each = <<Call("get_bucket_acl", {"acl"}), Call("get_bucket_policy", {"policy"}),
                         Call("get_bucket_policy_status", {"public"})>>
    BY <1>2, TheirPrograms DEF CosBuckets, Lister
  <2>2. /\ Call("get_bucket_acl", {"acl"}) \in Elements(Program.each)
        /\ Call("get_bucket_policy", {"policy"}) \in Elements(Program.each)
        /\ Call("get_bucket_policy_status", {"public"}) \in Elements(Program.each)
    BY <2>1, ElementsOf
  <2>3. QED
    BY <1>1, <1>2, <2>2 DEF Told, Unneeded, Call
<1>3. CASE collector = "ibm.vpc.security_groups"
  <2>1. Program = IbmSecurityGroups
    BY <1>3, ProgramOf DEF IbmNames, IbmProgram
  <2>2. /\ Call("list_security_group_rules", {"rules1"}) \in Elements(Program.each)
        /\ Call("list_security_group_rules", {"rules2"}) \in Elements(Program.each)
    BY <2>1, ElementsOf DEF IbmSecurityGroups, Lister
  <2>3. QED
    BY <1>1, <1>3, <2>2 DEF Told, Unneeded, Call
<1>4. CASE collector = "ibm.vpc.network_acls"
  <2>1. Program = NetworkAcls
    BY <1>4, ProgramOf DEF IbmNames, IbmProgram
  <2>2. /\ Call("list_network_acl_rules", {"rules1"}) \in Elements(Program.each)
        /\ Call("list_network_acl_rules", {"rules2"}) \in Elements(Program.each)
    BY <2>1, ElementsOf DEF NetworkAcls, Lister
  <2>3. QED
    BY <1>1, <1>4, <2>2 DEF Told, Unneeded, Call
<1>5. CASE collector = "ibm.iam.identity.users"
  <2>1. Program = IamUsers
    BY <1>5, ProgramOf DEF IbmNames, IbmProgram
  <2>2. Program.item = {"report"} /\ Call("get_mfa_status", {"status"}) \in Elements(Program.each)
    BY <2>1, ElementsOf DEF IamUsers, Lister
  <2>3. QED
    BY <1>1, <1>5, <2>2 DEF Told, Unneeded, Call
<1>6. QED
  BY <1>2, <1>3, <1>4, <1>5

\* What a call about everything tells is known of what was always there.
LEMMA SweptAll ==
  ASSUME Over, NEW c \in SweepCalls, NEW t \in Things \cup {0}, NEW a \in c.reads,
         t = 0 \/ collector \notin Asker, Always(t, a)
  PROVE  a \in DOMAIN seen[t]
<1>1. Elements(todo) = {}
  BY NothingLeft, ElementsOf
<1>2. QED
  BY <1>1 DEF Over, Complete, Knowing, Swept

-----------------------------------------------------------------------------
(***************************************************************************)
(* Verdicts that read one answer, or nothing.                              *)
(***************************************************************************)
\* The account itself is in every world, and what is listed is in one.
LEMMA AccountIsThere ==
  ASSUME Over
  PROVE  /\ world \in past
         /\ \A w \in past : 0 \in DOMAIN w /\ w[0] \in Configs(subject, 0)
                            /\ w[0] \in AccountConfigs(collector)
  BY NothingLeft, ConfigOfAccount DEF Over, Ground, IInv, Accountable, Configured

LEMMA ThingIsSomewhere ==
  ASSUME Over, NEW t \in listed
  PROVE  \E w \in past : t \in DOMAIN w /\ w[t] \in Configs(subject, t)
                         /\ w[t] \in ThingConfigs(collector)
<1>1. PICK w \in past : t \in DOMAIN w
  BY AllTold DEF Was
<1>2. w[t] \in Configs(subject, t)
  BY <1>1 DEF Over, Ground, Configured
<1>3. QED
  BY <1>1, <1>2, NothingLeft, ConfigOfThing

\* What a configuration may be, of what is listed.
LEMMA ConfigIsAgreed ==
  ASSUME Over, NEW t \in Things, NEW c \in Configs(subject, t)
  PROVE  /\ c \in ThingConfigs(collector) /\ Consistent(collector, c)
         /\ Agreed(collector, policy, c)
  BY NothingLeft, ConfigOfThing, AgreementAssumption DEF policy, collector

LEMMA AccountIsAgreed ==
  ASSUME Over, NEW c \in Configs(subject, 0)
  PROVE  c \in AccountConfigs(collector) /\ AgreedAccount(collector, c)
  BY NothingLeft, ConfigOfAccount, AgreementAssumption DEF collector

LEMMA S3Settings ==
  ASSUME Over, collector = "aws.s3.buckets", policy \in {"STOR-003", "STOR-004", "STOR-005"},
         NEW t \in listed
  PROVE  Justified(t)
<1>1. t \in Things /\ t # 0 /\ {"encryption", "logging", "policy"} \subseteq DOMAIN seen[t]
  BY AllTold, KnownOfAws
<1>2. /\ Program.provider = "aws"
      /\ Observed(t) = {Observation(0, "object_storage.bucket", S3BucketFacts(seen[t]))}
  BY <1>1, ProgramOf, ObservedOf DEF AwsNames, AwsObservations
<1>3. policy \notin Net \cup {"LOG-001"}
  BY DEF Net
<1>4. CASE policy = "STOR-003"
  <2>1. \A c \in Configs(subject, t) : seen[t].encryption = c.encryption =>
          Right(Says(policy, "aws", "object_storage.bucket", S3BucketFacts(seen[t])),
                TruthOfThing(collector, policy, c))
    BY <1>1, <1>4, S3Encryption, ConfigIsAgreed
  <2>2. QED
    BY <1>1, <1>2, <1>3, <2>1, OneAspect
<1>5. CASE policy = "STOR-004"
  <2>1. \A c \in Configs(subject, t) : seen[t].logging = c.logging =>
          Right(Says(policy, "aws", "object_storage.bucket", S3BucketFacts(seen[t])),
                TruthOfThing(collector, policy, c))
    BY <1>1, <1>5, S3Logging, ConfigIsAgreed
  <2>2. QED
    BY <1>1, <1>2, <1>3, <2>1, OneAspect
<1>6. CASE policy = "STOR-005"
  <2>1. \A c \in Configs(subject, t) : seen[t].policy = c.policy =>
          Right(Says(policy, "aws", "object_storage.bucket", S3BucketFacts(seen[t])),
                TruthOfThing(collector, policy, c))
    BY <1>1, <1>6, S3Tls, ConfigIsAgreed
  <2>2. QED
    BY <1>1, <1>2, <1>3, <2>1, OneAspect
<1>7. QED
  BY <1>4, <1>5, <1>6

LEMMA Users ==
  ASSUME Over, collector = "aws.iam.principals", NEW t \in listed
  PROVE  Justified(t)
<1>1. t \in Things /\ t # 0 /\ {"keys", "mfa"} \subseteq DOMAIN seen[t]
  BY AllTold, KnownOfAws
<1>2. /\ Program.provider = "aws"
      /\ Observed(t) = {Observation(0, "identity.principal", UserFacts(seen[t]))}
  BY <1>1, ProgramOf, ObservedOf DEF AwsNames, AwsObservations
<1>3. policy \in {"IAM-001", "IAM-002", "AWS-IAM-001", "AWS-IAM-002"}
  BY NothingLeft DEF Followed
<1>4. policy \notin Net \cup {"LOG-001"}
  BY <1>3 DEF Net
<1>5. CASE policy = "IAM-002"
  <2>1. \A c \in Configs(subject, t) : seen[t].keys = c.keys =>
          Right(Says(policy, "aws", "identity.principal", UserFacts(seen[t])),
                TruthOfThing(collector, policy, c))
    BY <1>1, <1>5, UserKeys, ConfigIsAgreed
  <2>2. QED
    BY <1>1, <1>2, <1>4, <2>1, OneAspect
<1>6. CASE policy # "IAM-002"
  <2>1. \A c \in Configs(subject, t) : seen[t].mfa = c.mfa =>
          Right(Says(policy, "aws", "identity.principal", UserFacts(seen[t])),
                TruthOfThing(collector, policy, c))
    BY <1>1, <1>3, <1>6, UserMfa, UserIsNoRoot, ConfigIsAgreed
  <2>2. QED
    BY <1>1, <1>2, <1>4, <2>1, OneAspect
<1>7. QED
  BY <1>5, <1>6

LEMMA Trails ==
  ASSUME Over, collector = "aws.cloudtrail.trails", NEW t \in listed
  PROVE  Justified(t)
<1>1. t \in Things /\ t # 0 /\ {"validation", "logging"} \subseteq DOMAIN seen[t]
  BY AllTold, KnownOfAws
<1>2. /\ Program.provider = "aws"
      /\ Observed(t) = {Observation(0, "logging.audit_trail", TrailFacts(seen[t]))}
  BY <1>1, ProgramOf, ObservedOf DEF AwsNames, AwsObservations
<1>3. policy \in {"LOG-001", "AWS-CT-001"}
  BY NothingLeft DEF Followed
<1>4. CASE policy = "AWS-CT-001"
  <2>1. \A c \in Configs(subject, t) : seen[t].validation = c.validation =>
          Right(Says(policy, "aws", "logging.audit_trail", TrailFacts(seen[t])),
                TruthOfThing(collector, policy, c))
    BY <1>1, <1>4, TrailValidation, ConfigIsAgreed
  <2>2. policy \notin Net \cup {"LOG-001"}
    BY <1>4 DEF Net
  <2>3. QED
    BY <1>1, <1>2, <2>1, <2>2, OneAspect
<1>5. CASE policy = "LOG-001"
  <2>1. PICK w \in past : From(w, t, "logging")
    BY <1>1, ReadAt
  <2>2. w[t] \in ThingConfigs(collector) /\ "logging" \in DOMAIN w[t] /\ t \in DOMAIN w
        /\ seen[t].logging = w[t].logging
    BY <1>1, <2>1, ConfigIsAgreed DEF From
  <2>3. Right(Says(policy, "aws", "logging.audit_trail", TrailFacts(seen[t])), Wanted(w[t].logging, "yes"))
    BY <1>5, <2>2, TrailLogging
  <2>4. /\ Deserved(Observed(t), Program.provider, collector, policy, t, w)
        /\ Covered(Observed(t), collector, policy, t, w)
    BY <1>2, <1>5, <2>2, <2>3, OneLog
  <2>5. QED
    BY <2>2, <2>4, OneWorld
<1>6. QED
  BY <1>3, <1>4, <1>5

LEMMA Containers ==
  ASSUME Over, collector = "azure.storage.containers", NEW t \in listed
  PROVE  Justified(t)
<1>1. t \in Things /\ t # 0 /\ {"key", "https", "shared", "access"} \subseteq DOMAIN seen[t]
  BY AllTold, KnownOfAzure
<1>2. Program.provider = "azure" /\ Observed(t) = ContainerObservations(seen[t])
  BY <1>1, ProgramOf, ObservedOf DEF AzureNames, AzureObservations
<1>3. policy \in {"STOR-001", "STOR-002", "STOR-003", "STOR-005", "AZ-STOR-001"}
  BY NothingLeft DEF Followed
<1>4. policy \notin Net \cup {"LOG-001"}
  BY <1>3 DEF Net
<1>5. CASE seen[t].access = "gone"
  <2>1. PICK w \in past : From(w, t, "access")
    BY <1>1, ReadAt
  <2>2. ~Reported(w[t])
    BY <1>5, <2>1 DEF From, Reported
  <2>3. QED
    BY <1>2, <1>5, <2>2 DEF ContainerObservations, Justified, FailsRightly, PassesRightly, Notices
<1>6. CASE seen[t].access # "gone"
  <2>1. Observed(t) = {Observation(0, "object_storage.bucket", ContainerFacts(seen[t]))}
    BY <1>2, <1>6 DEF ContainerObservations
  <2> DEFINE R(c) == Right(Says(policy, "azure", "object_storage.bucket", ContainerFacts(seen[t])),
                           TruthOfThing(collector, policy, c))
  <2>2. \A c \in Configs(subject, t) : c \in ThingConfigs("azure.storage.containers")
    BY <1>1, ConfigIsAgreed
  <2>3. CASE policy = "STOR-001"
    <3>1. \A c \in Configs(subject, t) : seen[t].access = c.access => R(c)
      BY <1>6, <2>2, <2>3, ContainerAccess
    <3>2. QED
      BY <1>1, <1>2, <1>4, <2>1, <3>1, OneAspect
  <2>4. CASE policy = "STOR-002"
    <3>1. \A c \in Configs(subject, t) : R(c)
      BY <2>4, ContainerWrite
    <3>2. QED
      BY <1>1, <1>2, <1>4, <2>1, <3>1, OneAspect
  <2>5. CASE policy = "STOR-003"
    <3>1. \A c \in Configs(subject, t) : seen[t].key = c.key => R(c)
      BY <2>2, <2>5, ContainerKey
    <3>2. QED
      BY <1>1, <1>2, <1>4, <2>1, <3>1, OneAspect
  <2>6. CASE policy = "STOR-005"
    <3>1. \A c \in Configs(subject, t) : seen[t].https = c.https => R(c)
      BY <2>2, <2>6, ContainerTls
    <3>2. QED
      BY <1>1, <1>2, <1>4, <2>1, <3>1, OneAspect
  <2>7. CASE policy = "AZ-STOR-001"
    <3>1. \A c \in Configs(subject, t) : seen[t].shared = c.shared => R(c)
      BY <2>2, <2>7, ContainerShared
    <3>2. QED
      BY <1>1, <1>2, <1>4, <2>1, <3>1, OneAspect
  <2>8. QED
    BY <1>3, <2>3, <2>4, <2>5, <2>6, <2>7
<1>7. QED
  BY <1>5, <1>6

LEMMA Vaults ==
  ASSUME Over, collector = "azure.keyvault.vaults", NEW t \in listed
  PROVE  Justified(t)
<1>1. t \in Things /\ t # 0 /\ {"soft", "purge"} \subseteq DOMAIN seen[t]
  BY AllTold, KnownOfAzure
<1>2. /\ Program.provider = "azure"
      /\ Observed(t) = {Observation(0, "kms.vault", KeyVaultFacts(seen[t]))}
  BY <1>1, ProgramOf, ObservedOf DEF AzureNames, AzureObservations
<1>3. policy \in {"AZ-KV-001", "AZ-KV-002"} /\ policy \notin Net \cup {"LOG-001"}
  BY NothingLeft DEF Followed, Net
<1>4. CASE policy = "AZ-KV-001"
  <2>1. \A c \in Configs(subject, t) : seen[t].soft = c.soft =>
          Right(Says(policy, "azure", "kms.vault", KeyVaultFacts(seen[t])),
                TruthOfThing(collector, policy, c))
    BY <1>1, <1>4, VaultDelete, ConfigIsAgreed
  <2>2. QED
    BY <1>1, <1>2, <1>3, <2>1, OneAspect
<1>5. CASE policy = "AZ-KV-002"
  <2>1. \A c \in Configs(subject, t) : seen[t].purge = c.purge =>
          Right(Says(policy, "azure", "kms.vault", KeyVaultFacts(seen[t])),
                TruthOfThing(collector, policy, c))
    BY <1>1, <1>5, VaultPurge, ConfigIsAgreed
  <2>2. QED
    BY <1>1, <1>2, <1>3, <2>1, OneAspect
<1>6. QED
  BY <1>3, <1>4, <1>5

LEMMA Settings ==
  ASSUME Over, collector = "azure.monitor.diagnostic_settings", NEW t \in listed
  PROVE  Justified(t)
<1>1. t \in Things /\ t # 0 /\ "settings" \in DOMAIN seen[t]
  BY AllTold, KnownOfAzure
<1>2. Program.provider = "azure" /\ Observed(t) = DiagnosticObservations(seen[t])
  BY <1>1, ProgramOf, ObservedOf DEF AzureNames, AzureObservations
<1>3. policy = "LOG-001"
  BY NothingLeft DEF Followed
<1>4. PICK w \in past : From(w, t, "settings")
  BY <1>1, ReadAt
<1>5. w[t] \in ThingConfigs(collector) /\ t \in DOMAIN w /\ seen[t].settings = w[t].settings
  BY <1>1, <1>4, ConfigIsAgreed DEF From
<1>6. /\ Deserved(Observed(t), Program.provider, collector, policy, t, w)
      /\ Covered(Observed(t), collector, policy, t, w)
  BY <1>2, <1>3, <1>5, LogSwitches
<1>7. QED
  BY <1>5, <1>6, OneWorld

LEMMA GcpBucketSettings ==
  ASSUME Over, collector = "gcp.storage.buckets",
         policy \in {"STOR-003", "STOR-004", "GCP-STOR-001", "GCP-STOR-002"}, NEW t \in listed
  PROVE  Justified(t)
<1>1. t \in Things /\ t # 0 /\ {"pap", "uniform", "cmek", "log"} \subseteq DOMAIN seen[t]
  BY AllTold, KnownOfGcp
<1>2. /\ Program.provider = "gcp"
      /\ Observed(t) = {Observation(0, "object_storage.bucket", StorageBucketFacts(seen[t]))}
  BY <1>1, ProgramOf, ObservedOf DEF GcpNames, GcpObservations
<1>3. policy \notin Net \cup {"LOG-001"}
  BY DEF Net
<1> DEFINE R(c) == Right(Says(policy, "gcp", "object_storage.bucket", StorageBucketFacts(seen[t])),
                         TruthOfThing(collector, policy, c))
<1>4. \A c \in Configs(subject, t) : c \in ThingConfigs("gcp.storage.buckets")
  BY <1>1, ConfigIsAgreed
<1>5. CASE policy = "STOR-003"
  <2>1. \A c \in Configs(subject, t) : seen[t].cmek = c.cmek => R(c)
    BY <1>4, <1>5, BucketKey
  <2>2. QED
    BY <1>1, <1>2, <1>3, <2>1, OneAspect
<1>6. CASE policy = "STOR-004"
  <2>1. \A c \in Configs(subject, t) : seen[t].log = c.log => R(c)
    BY <1>4, <1>6, BucketLog
  <2>2. QED
    BY <1>1, <1>2, <1>3, <2>1, OneAspect
<1>7. CASE policy = "GCP-STOR-001"
  <2>1. \A c \in Configs(subject, t) : seen[t].uniform = c.uniform => R(c)
    BY <1>4, <1>7, BucketUniform
  <2>2. QED
    BY <1>1, <1>2, <1>3, <2>1, OneAspect
<1>8. CASE policy = "GCP-STOR-002"
  <2>1. \A c \in Configs(subject, t) : seen[t].pap = c.pap => R(c)
    BY <1>4, <1>8, BucketPrevention
  <2>2. QED
    BY <1>1, <1>2, <1>3, <2>1, OneAspect
<1>9. QED
  BY <1>5, <1>6, <1>7, <1>8

\* Collectors that read nothing a policy is about.
SilentCollectors ==
  {"azure.inventory.resources", "azure.storage.accounts", "azure.authorization.role_assignments",
   "gcp.inventory.assets", "gcp.iam.project_policy", "gcp.logging.audit_config",
   "ibm.inventory.resources", "ibm.iam.policies"}

LEMMA SilentOnes ==
  ASSUME Over, collector \in SilentCollectors, NEW t \in listed \cup {0}
  PROVE  Justified(t)
<1>1. policy = "LOG-001"
  BY NothingLeft DEF Followed, SilentCollectors
<1>2. \A o \in Observed(t) : \/ o.facts \in {AccountFacts, AuditConfigFacts}
                             \/ o.type \in {"identity.policy_binding", "object_storage.account"}
  <2> DEFINE all == {Observation(0, "account.scope", AccountFacts),
                     Observation(0, "logging.audit_trail", AuditConfigFacts),
                     Observation(0, "identity.policy_binding", IdentityFacts),
                     Observation(0, "object_storage.account", AccountStorageFacts(seen[t]))}
  <2>1. CASE collector \in AzureNames
    <3>1. Observed(t) \subseteq all
      BY <2>1, ObservedOf DEF SilentCollectors, AzureNames, AzureObservations, InventoryFacts
    <3>2. QED
      BY <3>1 DEF Observation
  <2>2. CASE collector \in GcpNames
    <3>1. Observed(t) \subseteq all
      BY <2>2, ObservedOf DEF SilentCollectors, GcpNames, GcpObservations
    <3>2. QED
      BY <3>1 DEF Observation
  <2>3. CASE collector \in IbmNames
    <3>1. Observed(t) \subseteq all
      BY <2>3, ObservedOf DEF SilentCollectors, IbmNames, IbmObservations
    <3>2. QED
      BY <3>1 DEF Observation
  <2>4. QED
    BY <2>1, <2>2, <2>3 DEF SilentCollectors, AzureNames, GcpNames, IbmNames
<1>3. \A o \in Observed(t) : Says("LOG-001", Program.provider, o.type, o.facts) \notin {"fail", "pass"}
  BY <1>2, SilentFacts
<1>4. \E w \in past : t \in DOMAIN w /\ DOMAIN w[t] \cap {"logging", "settings"} = {}
  <2>1. CASE t = 0
    <3>1. world \in past /\ 0 \in DOMAIN world /\ world[0] \in AccountConfigs(collector)
      BY AccountIsThere
    <3>2. world[0] = <<>>
      BY <3>1 DEF AccountConfigs, SilentCollectors
    <3>3. QED
      BY <2>1, <3>1, <3>2
  <2>2. CASE t # 0
    <3>1. PICK w \in past : t \in DOMAIN w /\ w[t] \in ThingConfigs(collector)
      BY <2>2, ThingIsSomewhere
    <3>2. w[t] = <<>> \/ w[t] \in StorageAccountConfigs \cup [here : BOOLEAN]
      BY <3>1 DEF ThingConfigs, SilentCollectors
    <3>3. DOMAIN w[t] \cap {"logging", "settings"} = {}
      BY <3>2 DEF StorageAccountConfigs
    <3>4. QED
      BY <3>1, <3>3
  <2>3. QED
    BY <2>1, <2>2
<1>5. PICK w \in past : t \in DOMAIN w /\ DOMAIN w[t] \cap {"logging", "settings"} = {}
  BY <1>4
<1>6. /\ Deserved(Observed(t), Program.provider, collector, "LOG-001", t, w)
      /\ Covered(Observed(t), collector, "LOG-001", t, w)
  BY <1>3, <1>5, LogOpen
<1>7. QED
  BY <1>1, <1>5, <1>6, OneWorld

\* Collectors that observe something of the account itself.
OfAccount ==
  {"aws.s3.account", "aws.iam.principals", "ibm.iam.identity", "gcp.compute.firewalls"}

LEMMA NothingOfAccount ==
  ASSUME Over, collector \notin OfAccount \cup SilentCollectors
  PROVE  Justified(0)
<1>1. collector \in AwsNames \cup AzureNames \cup GcpNames \cup IbmNames
  BY NothingLeft, SubjectsAssumption DEF collector
<1>2. Observed(0) = {}
  <2>1. CASE collector \in AwsNames
    BY <2>1, ObservedOf DEF OfAccount, SilentCollectors, AwsNames, AwsObservations
  <2>2. CASE collector \in AzureNames
    BY <2>2, ObservedOf
  <2>3. CASE collector \in GcpNames
    BY <2>3, ObservedOf DEF OfAccount, SilentCollectors, GcpNames, GcpObservations
  <2>4. CASE collector \in IbmNames
    BY <2>4, ObservedOf DEF OfAccount, SilentCollectors, IbmNames, IbmObservations
  <2>5. QED
    BY <1>1, <2>1, <2>2, <2>3, <2>4
<1>3. world \in past /\ 0 \in DOMAIN world /\ world[0] = <<>>
  BY AccountIsThere DEF AccountConfigs, OfAccount
<1>4. DOMAIN world[0] = {}
  BY <1>3
<1>5. /\ Deserved(Observed(0), Program.provider, collector, policy, 0, world)
      /\ Covered(Observed(0), collector, policy, 0, world)
  BY <1>2, <1>4, NothingToSay DEF OfAccount
<1>6. QED
  BY <1>3, <1>5, OneWorld

\* What is asked of the account is known.
LEMMA KnownOfAccount ==
  ASSUME Over
  PROVE  /\ collector = "aws.s3.account" => "block" \in DOMAIN seen[0]
         /\ collector = "aws.iam.principals" =>
              {"root_keys", "root_mfa", "password_policy"} \subseteq DOMAIN seen[0]
         /\ collector = "ibm.iam.identity" => "mfa" \in DOMAIN seen[0]
<1>1. \A c \in Elements(Program.before) : \A a \in c.reads : Always(0, a) => a \in DOMAIN seen[0]
  BY SweptAll DEF SweepCalls
<1>2. CASE collector = "aws.s3.account"
  <2>1. Program.before = <<Call("get_account_public_access_block", {"block"})>>
    <3>1. \A calls : Reader("aws", calls).before = calls
      BY DEF Reader, Lister
    <3>2. QED
      BY <1>2, <3>1, TheirPrograms DEF S3Account
  <2>2. Call("get_account_public_access_block", {"block"}) \in Elements(Program.before)
    BY <2>1, ElementsOf
  <2>3. Always(0, "block")
    BY <1>2, AccountIsThere DEF Always, AccountConfigs
  <2>4. QED
    BY <1>1, <1>2, <2>2, <2>3 DEF Call
<1>3. CASE collector = "aws.iam.principals"
  <2>1. Program.before = <<Call("get_account_summary", {"root_keys", "root_mfa"}),
                           Call("get_account_password_policy", {"password_policy"}),
                           Call("get_credential_report", {})>>
    BY <1>3, TheirPrograms DEF IamPrincipals, Lister
  <2>2. /\ Call("get_account_summary", {"root_keys", "root_mfa"}) \in Elements(Program.before)
        /\ Call("get_account_password_policy", {"password_policy"}) \in Elements(Program.before)
    BY <2>1, ElementsOf
  <2>3. Always(0, "root_keys") /\ Always(0, "root_mfa") /\ Always(0, "password_policy")
    BY <1>3, AccountIsThere DEF Always, AccountConfigs
  <2>4. QED
    BY <1>1, <1>3, <2>2, <2>3 DEF Call
<1>4. CASE collector = "ibm.iam.identity"
  <2>1. Program = IamIdentity
    BY <1>4, ProgramOf DEF IbmNames, IbmProgram
  <2>2. Program.before = <<Call("get_account_settings", {"mfa"}), Call("list_api_keys", {"keys1"}),
                           Call("list_api_keys", {"keys2"})>>
    BY <2>1 DEF IamIdentity, Lister
  <2>3. Call("get_account_settings", {"mfa"}) \in Elements(Program.before)
    BY <2>2, ElementsOf
  <2>4. Always(0, "mfa")
    BY <1>4, AccountIsThere DEF Always, AccountConfigs
  <2>5. QED
    BY <1>1, <1>4, <2>3, <2>4 DEF Call
<1>5. QED
  BY <1>2, <1>3, <1>4

LEMMA S3AccountSettled ==
  ASSUME Over, collector = "aws.s3.account"
  PROVE  Justified(0)
<1>1. Program.provider = "aws"
      /\ Observed(0) = {Observation(0, "account.scope", S3AccountFacts(seen[0]))}
  BY ProgramOf, ObservedOf DEF AwsNames, AwsObservations
<1>2. policy = "AWS-S3-001" /\ policy \notin Net \cup {"LOG-001"}
  BY NothingLeft DEF Followed, Net
<1>3. \A c \in Configs(subject, 0) : seen[0].block = c.block =>
        Right(Says(policy, "aws", "account.scope", S3AccountFacts(seen[0])),
              TruthOfThing(collector, policy, c))
  BY <1>2, AccountIsAgreed, S3AccountBlock
<1>4. QED
  BY <1>1, <1>2, <1>3, KnownOfAccount, OneAspect

LEMMA RootSettled ==
  ASSUME Over, collector = "aws.iam.principals"
  PROVE  Justified(0)
<1>1. /\ Program.provider = "aws"
      /\ Observed(0) = {Observation(0, "identity.principal", RootFacts(seen[0])),
                        Observation(1, "account.scope", AccountSummaryFacts(seen[0]))}
  BY ProgramOf, ObservedOf DEF AwsNames, AwsObservations
<1>2. policy \in {"IAM-001", "IAM-002", "AWS-IAM-001", "AWS-IAM-002"}
      /\ policy \notin Net \cup {"LOG-001"}
  BY NothingLeft DEF Followed, Net
<1>3. {"root_keys", "root_mfa", "password_policy"} \subseteq DOMAIN seen[0]
  BY KnownOfAccount
<1>4. \A c \in Configs(subject, 0) :
        c \in AccountConfigs("aws.iam.principals") /\ AgreedAccount("aws.iam.principals", c)
  BY AccountIsAgreed
<1> DEFINE R(c) == Right(Says(policy, "aws", "identity.principal", RootFacts(seen[0])),
                         TruthOfThing(collector, policy, c))
<1>5. \E w \in past : 0 \in DOMAIN w /\ DOMAIN w[0] # {} /\ R(w[0])
  <2>1. CASE policy \in {"IAM-001", "IAM-002"}
    <3>1. PICK w \in past : From(w, 0, "root_mfa")
      BY <1>3, ReadAt
    <3>2. 0 \in DOMAIN w /\ DOMAIN w[0] # {} /\ w[0] \in AccountConfigs("aws.iam.principals")
          /\ seen[0].root_mfa = w[0].root_mfa
      BY <1>4, <3>1 DEF From
    <3>3. R(w[0])
      BY <2>1, <3>2, RootMfa, RootAges
    <3>4. QED
      BY <3>2, <3>3
  <2>2. CASE policy = "AWS-IAM-001"
    <3>1. PICK w \in past : From(w, 0, "root_keys")
      BY <1>3, ReadAt
    <3>2. 0 \in DOMAIN w /\ DOMAIN w[0] # {} /\ w[0] \in AccountConfigs("aws.iam.principals")
          /\ seen[0].root_keys = w[0].root_keys
      BY <1>4, <3>1 DEF From
    <3>3. R(w[0])
      BY <2>2, <3>2, RootKeys
    <3>4. QED
      BY <3>2, <3>3
  <2>3. CASE policy = "AWS-IAM-002"
    <3>1. PICK w \in past : From(w, 0, "password_policy")
      BY <1>3, ReadAt
    <3>2. 0 \in DOMAIN w /\ DOMAIN w[0] # {} /\ w[0] \in AccountConfigs("aws.iam.principals")
          /\ seen[0].password_policy = w[0].password_policy
          /\ AgreedAccount("aws.iam.principals", w[0])
      BY <1>4, <3>1 DEF From
    <3>3. R(w[0])
      BY <2>3, <3>2, PasswordPolicy
    <3>4. QED
      BY <3>2, <3>3
  <2>4. QED
    BY <1>2, <2>1, <2>2, <2>3
<1>6. PICK w \in past : 0 \in DOMAIN w /\ DOMAIN w[0] # {} /\ R(w[0])
  BY <1>5
<1>7. Says(policy, "aws", "account.scope", AccountSummaryFacts(seen[0])) \notin {"fail", "pass"}
  BY <1>2, SummaryIsSilent
<1>8. /\ Deserved(Observed(0), Program.provider, collector, policy, 0, w)
      /\ Covered(Observed(0), collector, policy, 0, w)
  BY <1>1, <1>2, <1>6, <1>7, TwoObservations
<1>9. QED
  BY <1>6, <1>8, OneWorld

LEMMA IbmAccountSettled ==
  ASSUME Over, collector = "ibm.iam.identity"
  PROVE  Justified(0)
<1>1. Program.provider = "ibm"
      /\ Observed(0) = {Observation(0, "account.scope", AccountSettingsFacts(seen[0]))}
  BY ProgramOf, ObservedOf DEF IbmNames, IbmObservations
<1>2. policy \in {"IBM-IAM-001", "IAM-002"} /\ policy \notin Net \cup {"LOG-001"}
  BY NothingLeft DEF Followed, Net
<1>3. \A c \in Configs(subject, 0) :
        c \in AccountConfigs("ibm.iam.identity") /\ AgreedAccount("ibm.iam.identity", c)
  BY AccountIsAgreed
<1>4. \A c \in Configs(subject, 0) : seen[0].mfa = c.mfa =>
        Right(Says(policy, "ibm", "account.scope", AccountSettingsFacts(seen[0])),
              TruthOfThing(collector, policy, c))
  BY <1>2, <1>3, AccountMfa, AccountHasNoAge
<1>5. QED
  BY <1>1, <1>2, <1>4, KnownOfAccount, OneAspect

-----------------------------------------------------------------------------
(***************************************************************************)
(* Verdicts that read what one answer tells of a thing, or what the answers *)
(* tell if any is needed.                                                  *)
(***************************************************************************)
LEMMA ServiceIdMfa ==
  ASSUME Over, collector = "ibm.iam.identity", policy = "IBM-IAM-001", NEW t \in listed
  PROVE  Justified(t)
<1>1. t \in Things /\ t # 0
  BY AllTold
<1>2. /\ Program.provider = "ibm"
      /\ Observed(t) = {Observation(0, "identity.principal", ServiceIdFacts(seen[t]))}
  BY <1>1, ProgramOf, ObservedOf DEF IbmNames, IbmObservations
<1>3. PICK w \in past : t \in DOMAIN w /\ w[t] \in ThingConfigs(collector)
  BY ThingIsSomewhere
<1>4. DOMAIN w[t] # {}
  BY <1>3 DEF ThingConfigs
<1>5. Right(Says(policy, "ibm", "identity.principal", ServiceIdFacts(seen[t])),
            TruthOfThing(collector, policy, w[t]))
  BY <1>3, ServiceHasNoMfa
<1>6. /\ Deserved(Observed(t), Program.provider, collector, policy, t, w)
      /\ Covered(Observed(t), collector, policy, t, w)
  BY <1>2, <1>4, <1>5, OneObservation DEF Net
<1>7. QED
  BY <1>3, <1>6, OneWorld

LEMMA MfaOfUsers ==
  ASSUME Over, collector = "ibm.iam.identity.users", NEW t \in listed
  PROVE  Justified(t)
<1>1. t \in Things /\ t # 0 /\ "report" \in DOMAIN seen[t]
      /\ ("status" \in DOMAIN seen[t] \/ IbmTri(seen[t].report) # "unknown")
  BY AllTold, KnownOfIbm
<1>2. /\ Program.provider = "ibm"
      /\ Observed(t) = {Observation(0, "identity.principal", UserMfaFacts(seen[t]))}
  BY <1>1, ProgramOf, ObservedOf DEF IbmNames, IbmObservations
<1>3. policy = "IAM-001" /\ policy \notin Net \cup {"LOG-001"}
  BY NothingLeft DEF Followed, Net
<1>4. \A c \in Configs(subject, t) :
        /\ c \in ThingConfigs("ibm.iam.identity.users") /\ Consistent("ibm.iam.identity.users", c)
        /\ Agreed("ibm.iam.identity.users", "IAM-001", c)
        /\ c.report \in MfaWords
  <2>1. TAKE c \in Configs(subject, t)
  <2>2. c \in ThingConfigs("ibm.iam.identity.users") /\ Consistent("ibm.iam.identity.users", c)
        /\ Agreed("ibm.iam.identity.users", "IAM-001", c)
    BY <1>1, <1>3, ConfigIsAgreed
  <2>3. c.report \in MfaWords \cup {"missing"} /\ c.report # "missing"
    BY <2>2 DEF ThingConfigs, Agreed
  <2>4. QED
    BY <2>2, <2>3
<1>5. PICK v \in past : From(v, t, "report")
  BY <1>1, ReadAt
<1>6. seen[t].report \in MfaWords
  BY <1>4, <1>5 DEF From
<1>7. \E w \in past : /\ t \in DOMAIN w /\ DOMAIN w[t] # {} /\ w[t] \in Configs(subject, t)
                      /\ IF seen[t].report = "other" THEN seen[t].status = w[t].status
                         ELSE seen[t].report = w[t].report
  <2>1. CASE seen[t].report # "other"
    BY <1>5, <2>1 DEF From
  <2>2. CASE seen[t].report = "other"
    <3>1. "status" \in DOMAIN seen[t]
      BY <1>1, <2>2 DEF IbmTri
    <3>2. PICK w \in past : From(w, t, "status")
      BY <1>1, <3>1, ReadAt
    <3>3. QED
      BY <2>2, <3>2 DEF From
  <2>3. QED
    BY <2>1, <2>2
<1>8. PICK w \in past : /\ t \in DOMAIN w /\ DOMAIN w[t] # {} /\ w[t] \in Configs(subject, t)
                        /\ IF seen[t].report = "other" THEN seen[t].status = w[t].status
                           ELSE seen[t].report = w[t].report
  BY <1>7
<1>9. Right(Says("IAM-001", "ibm", "identity.principal", UserMfaFacts(seen[t])),
            TruthOfThing("ibm.iam.identity.users", "IAM-001", w[t]))
  BY <1>4, <1>6, <1>8, UserReport
<1>10. /\ Deserved(Observed(t), Program.provider, collector, policy, t, w)
       /\ Covered(Observed(t), collector, policy, t, w)
  BY <1>2, <1>3, <1>8, <1>9, OneObservation
<1>11. QED
  BY <1>8, <1>10, OneWorld

LEMMA RotationOfKeys ==
  ASSUME Over, collector = "aws.kms.keys", NEW t \in listed
  PROVE  Justified(t)
<1>1. t \in Things /\ t # 0 /\ "supports" \in DOMAIN seen[t]
      /\ ("rotation" \in DOMAIN seen[t] \/ seen[t].supports # "yes")
  BY AllTold, KnownOfAws
<1>2. /\ Program.provider = "aws"
      /\ Observed(t) = {Observation(0, "kms.key", KmsKeyFacts(seen[t]))}
  BY <1>1, ProgramOf, ObservedOf DEF AwsNames, AwsObservations
<1>3. policy = "KMS-001" /\ policy \notin Net \cup {"LOG-001"}
  BY NothingLeft DEF Followed, Net
<1>4. \E w \in past : /\ t \in DOMAIN w /\ w[t] \in Configs(subject, t) /\ DOMAIN w[t] # {}
                      /\ IF "rotation" \in DOMAIN seen[t]
                         THEN w[t].supports = "yes" /\ seen[t].rotation = w[t].rotation
                         ELSE w[t].supports # "yes"
  <2>1. CASE "rotation" \in DOMAIN seen[t]
    <3>1. PICK w \in past : From(w, t, "rotation")
      BY <1>1, <2>1, ReadAt
    <3>2. w[t].supports = "yes"
      BY <1>1, <2>1, <3>1 DEF From, Over, Knowing, SupportStays
    <3>3. QED
      BY <2>1, <3>1, <3>2 DEF From
  <2>2. CASE "rotation" \notin DOMAIN seen[t]
    <3>1. PICK w \in past : From(w, t, "supports")
      BY <1>1, ReadAt
    <3>2. QED
      BY <1>1, <2>2, <3>1 DEF From
  <2>3. QED
    BY <2>1, <2>2
<1>5. PICK w \in past : /\ t \in DOMAIN w /\ w[t] \in Configs(subject, t) /\ DOMAIN w[t] # {}
                        /\ IF "rotation" \in DOMAIN seen[t]
                           THEN w[t].supports = "yes" /\ seen[t].rotation = w[t].rotation
                           ELSE w[t].supports # "yes"
  BY <1>4
<1>6. Right(Says("KMS-001", "aws", "kms.key", KmsKeyFacts(seen[t])),
            TruthOfThing("aws.kms.keys", "KMS-001", w[t]))
  BY <1>1, <1>5, KeyRotation, ConfigIsAgreed
<1>7. /\ Deserved(Observed(t), Program.provider, collector, policy, t, w)
      /\ Covered(Observed(t), collector, policy, t, w)
  BY <1>2, <1>3, <1>5, <1>6, OneObservation
<1>8. QED
  BY <1>5, <1>7, OneWorld

\* What one answer tells of a thing was all so in one world.
LEMMA ReadWhole ==
  ASSUME Over, collector \in AtOnce, NEW t \in Things, DOMAIN seen[t] # {}
  PROVE  \E w \in past : /\ t \in DOMAIN w /\ w[t] \in Configs(subject, t)
                         /\ \A a \in DOMAIN w[t] : a \in DOMAIN seen[t] /\ seen[t][a] = w[t][a]
<1>1. PICK w \in past : t \in DOMAIN w /\ Agrees(seen[t], w[t])
  BY DEF Over, Knowing, Whole
<1>2. w[t] \in Configs(subject, t)
  BY <1>1 DEF Over, Ground, Configured
<1>3. QED
  BY <1>1, <1>2 DEF Agrees

LEMMA AzureGroups ==
  ASSUME Over, collector = "azure.network.security_groups", NEW t \in listed
  PROVE  Justified(t)
<1>1. t \in Things /\ t # 0 /\ DOMAIN seen[t] # {} /\ policy \in Net
  BY AllTold, KnownOfAzure, NothingLeft DEF Followed, NetworkPolicies, Net
<1>2. Program.provider = "azure" /\ Observed(t) = AzureObservations(collector, seen[t])
  BY <1>1, ProgramOf, ObservedOf DEF AzureNames
<1>3. PICK w \in past : /\ t \in DOMAIN w /\ w[t] \in Configs(subject, t)
                        /\ \A a \in DOMAIN w[t] : a \in DOMAIN seen[t] /\ seen[t][a] = w[t][a]
  BY <1>1, ReadWhole DEF AtOnce
<1>4. w[t] \in ThingConfigs(collector) /\ Agreed(collector, policy, w[t])
  BY <1>1, <1>3, ConfigIsAgreed
<1>5. seen[t].rules1 = w[t].rules1 /\ seen[t].rules2 = w[t].rules2
  BY <1>3, <1>4 DEF ThingConfigs
<1>6. Observed(t) = AzureObservations(collector, w[t])
  BY <1>2, <1>5 DEF AzureObservations
<1>7. /\ Deserved(Observed(t), Program.provider, collector, policy, t, w)
      /\ Covered(Observed(t), collector, policy, t, w)
  BY <1>1, <1>2, <1>4, <1>6, AzureRuleSet
<1>8. QED
  BY <1>3, <1>7, OneWorld

LEMMA KeysOfRings ==
  ASSUME Over, collector = "gcp.kms.keys", NEW t \in listed
  PROVE  Justified(t)
<1>1. t \in Things /\ t # 0 /\ DOMAIN seen[t] # {} /\ policy = "KMS-001"
  BY AllTold, KnownOfGcp, NothingLeft DEF Followed
<1>2. Program.provider = "gcp" /\ Observed(t) = CryptoKeyObservations(seen[t])
  BY <1>1, ProgramOf, ObservedOf DEF GcpNames, GcpObservations
<1>3. PICK w \in past : /\ t \in DOMAIN w /\ w[t] \in Configs(subject, t)
                        /\ \A a \in DOMAIN w[t] : a \in DOMAIN seen[t] /\ seen[t][a] = w[t][a]
  BY <1>1, ReadWhole DEF AtOnce
<1>4. /\ w[t] \in ThingConfigs(collector) /\ Agreed(collector, policy, w[t])
      /\ policy \notin Net \cup {"LOG-001"}
  BY <1>1, <1>3, ConfigIsAgreed DEF Net
<1>5. DOMAIN w[t] = {"purpose", "rotation"}
      /\ seen[t].purpose = w[t].purpose /\ seen[t].rotation = w[t].rotation
  BY <1>3, <1>4 DEF ThingConfigs
<1>6. Observed(t) = CryptoKeyObservations(w[t])
  BY <1>2, <1>5 DEF CryptoKeyObservations, RotationFacts
<1>7. /\ Deserved(Observed(t), Program.provider, collector, policy, t, w)
      /\ Covered(Observed(t), collector, policy, t, w)
  <2>1. CASE w[t].purpose = "gone"
    <3>1. Observed(t) = {}
      BY <1>6, <2>1 DEF CryptoKeyObservations
    <3>2. TruthOfThing(collector, policy, w[t]) = "open"
      BY <1>1, <1>5, <2>1 DEF TruthOfThing, Judge
    <3>3. \A part : Truth(collector, policy, t, part, w) # "bad"
      BY <1>4, <3>2, TruthOfOne
    <3>4. QED
      BY <3>1, <3>3 DEF Deserved, Covered
  <2>2. CASE w[t].purpose # "gone"
    <3>1. Observed(t) = {Observation(0, "kms.key", RotationFacts(w[t]))}
      BY <1>6, <2>2 DEF CryptoKeyObservations
    <3>2. Right(Says("KMS-001", "gcp", "kms.key", RotationFacts(w[t])),
                TruthOfThing("gcp.kms.keys", "KMS-001", w[t]))
      BY <1>1, <1>4, <2>2, KeyOfRing
    <3>3. QED
      BY <1>1, <1>2, <1>4, <1>5, <3>1, <3>2, OneObservation
  <2>3. QED
    BY <2>1, <2>2
<1>8. QED
  BY <1>3, <1>7, OneWorld

LEMMA FirewallRulesOfGcp ==
  ASSUME Over, collector = "gcp.compute.firewalls", NEW t \in listed
  PROVE  Justified(t)
<1>1. t \in Things /\ t # 0 /\ "rule" \in DOMAIN seen[t] /\ policy \in Net
  BY AllTold, KnownOfGcp, NothingLeft DEF Followed, NetworkPolicies, Net
<1>2. /\ Program.provider = "gcp"
      /\ Observed(t) = {Observation(0, "network.firewall_rule", GcpFirewallFacts({seen[t].rule}))}
  BY <1>1, ProgramOf, ObservedOf DEF GcpNames, GcpObservations, FirewallObservations
<1>3. PICK w \in past : From(w, t, "rule")
  BY <1>1, ReadAt
<1>4. /\ t \in DOMAIN w /\ w[t] \in ThingConfigs(collector) /\ Agreed(collector, policy, w[t])
      /\ w[t].rule = seen[t].rule
  BY <1>1, <1>3, ConfigIsAgreed DEF From
<1>5. w[t].rule \in FirewallRules /\ AgreedRule("gcp.compute.firewalls", policy, w[t].rule)
  BY <1>4 DEF ThingConfigs, Agreed
<1>6. Right(Says(policy, "gcp", "network.firewall_rule", GcpFirewallFacts({w[t].rule})),
            RulesTruth({w[t].rule}, policy))
  BY <1>1, <1>5, GcpRules DEF Firewalls
<1>7. \A part : Truth(collector, policy, t, part, w)
                  = IF part = 0 THEN RulesTruth({w[t].rule}, policy) ELSE "open"
  <2>1. RulesOf(collector, t, 0, w) = {w[t].rule}
    BY <1>1 DEF RulesOf
  <2>2. QED
    BY <1>1, <2>1, TruthOfRules
<1>8. /\ Deserved(Observed(t), Program.provider, collector, policy, t, w)
      /\ Covered(Observed(t), collector, policy, t, w)
  BY <1>2, <1>4, <1>6, <1>7 DEF Deserved, Covered, Observation
<1>9. QED
  BY <1>3, <1>8, OneWorld DEF From

-----------------------------------------------------------------------------
(***************************************************************************)
(* Verdicts that join what several answers tell.  If the account changed    *)
(* once at most, two worlds differ in one setting of a thing.               *)
(***************************************************************************)
LEMMA OneSetting ==
  ASSUME Over, changes <= 1, NEW v \in past, NEW w \in past, NEW t \in Things \cup {0},
         t \in DOMAIN v, t \in DOMAIN w
  PROVE  \E b : \A a \in (DOMAIN v[t] \cap DOMAIN w[t]) \ Follows : a # b => v[t][a] = w[t][a]
<1>1. FewChanges /\ changes \in Nat
  BY BoundAssumption DEF Over, Knowing, FewChanges
<1>2. CASE v[t] = w[t]
  BY <1>2
<1>3. CASE v[t] # w[t]
  <2>1. changes = 1
    BY <1>1, <1>3 DEF FewChanges
  <2>2. PICK x \in past, u \in Things \cup {0} : past = {x, world} /\ OneApart(x, world, u)
    BY <1>1, <2>1 DEF FewChanges
  <2>3. \/ v = x /\ w = world
        \/ v = world /\ w = x
    BY <1>3, <2>2
  <2>4. t = u
    BY <1>3, <2>2, <2>3 DEF OneApart
  <2>5. u \in DOMAIN x \cap DOMAIN world
    BY <2>3, <2>4
  <2>6. PICK b : \A a \in (DOMAIN x[u] \cap DOMAIN world[u]) \ Follows : a # b => x[u][a] = world[u][a]
    BY <2>2, <2>5 DEF OneApart
  <2>7. \A a \in (DOMAIN v[t] \cap DOMAIN w[t]) \ Follows : a # b => v[t][a] = w[t][a]
    BY <2>3, <2>4, <2>6
  <2>8. QED
    BY <2>7
<1>4. QED
  BY <1>2, <1>3

LEMMA TwoAspects ==
  ASSUME Over, changes <= 1, collector # "ibm.cos.buckets", NEW t \in Things \cup {0},
         NEW a \in DOMAIN seen[t], NEW b \in DOMAIN seen[t], a \notin Follows, b \notin Follows,
         \A c \in Configs(subject, t) : a \in DOMAIN c /\ b \in DOMAIN c
  PROVE  \E w \in past : From(w, t, a) /\ From(w, t, b)
<1>1. PICK v \in past : From(v, t, a)
  BY ReadAt
<1>2. PICK w \in past : From(w, t, b)
  BY ReadAt
<1>3. PICK x : \A y \in (DOMAIN v[t] \cap DOMAIN w[t]) \ Follows : y # x => v[t][y] = w[t][y]
  BY <1>1, <1>2, OneSetting DEF From
<1>4. CASE x # a
  <2>1. v[t][a] = w[t][a]
    BY <1>1, <1>2, <1>3, <1>4 DEF From
  <2>2. QED
    BY <1>1, <1>2, <2>1 DEF From
<1>5. CASE x = a
  <2>1. a = b \/ v[t][b] = w[t][b]
    BY <1>1, <1>2, <1>3, <1>5 DEF From
  <2>2. QED
    BY <1>1, <1>2, <2>1 DEF From
<1>6. QED
  BY <1>4, <1>5

\* The verdict on a bucket that is public or is not.
LEMMA TruthOfBucket ==
  ASSUME NEW t, NEW w, t \in DOMAIN w, DOMAIN w[t] # {}, policy \in PublicPolicies, NEW part
  PROVE  TruthIn(w, t, part) = IF part = 0 THEN TruthOfThing(collector, policy, w[t]) ELSE "open"
<1>1. policy \notin Net \cup {"LOG-001"}
  BY DEF Net, PublicPolicies
<1>2. QED
  BY <1>1, TruthOfOne DEF TruthIn

LEMMA S3PublicSettled ==
  ASSUME Over, collector = "aws.s3.buckets", policy \in PublicPolicies, NEW t \in listed
  PROVE  PassesRightly(t) /\ Notices(t) /\ (changes <= 1 => FailsRightly(t))
<1>1. t \in Things /\ t # 0 /\ {"public", "block", "policy"} \subseteq DOMAIN seen[t]
  BY AllTold, KnownOfAws
<1> DEFINE o == Observation(0, "object_storage.bucket", S3BucketFacts(seen[t]))
<1>2. Observed(t) = {o} /\ o.part = 0
      /\ Verdict(o) = Says(policy, "aws", "object_storage.bucket", S3BucketFacts(seen[t]))
  BY <1>1, ProgramOf, ObservedOf DEF AwsNames, AwsObservations, Verdict, Says, Observation
<1>3. \A c \in Configs(subject, t) :
        LET truth == TruthOfThing(collector, policy, c)
        IN /\ c.public \in BOOLEAN /\ DOMAIN c # {} /\ "block" \in DOMAIN c /\ "policy" \in DOMAIN c
           /\ Grants(c.policy, KindOf(policy)) => c.public
           /\ c.block = "all" => truth = "good"
           /\ truth = "bad" <=> c.block # "all" /\ Grants(c.policy, KindOf(policy))
  <2>1. TAKE c \in Configs(subject, t)
  <2>2. c \in ThingConfigs("aws.s3.buckets") /\ Consistent("aws.s3.buckets", c)
    BY <1>1, ConfigIsAgreed
  <2>3. DOMAIN c = {"block", "policy", "public", "encryption", "logging"}
    BY <2>2 DEF ThingConfigs
  <2>4. QED
    BY <2>2, <2>3, S3Public
<1>4. PICK wp \in past : From(wp, t, "public")
  BY <1>1, ReadAt
<1>5. PICK wb \in past : From(wb, t, "block")
  BY <1>1, ReadAt
<1>6. PICK wt \in past : From(wt, t, "policy")
  BY <1>1, ReadAt
<1>7. seen[t].public \in BOOLEAN
  BY <1>3, <1>4 DEF From
<1>8. /\ Verdict(o) = "pass" <=> seen[t].block = "all"
      /\ Verdict(o) = "fail" <=> seen[t].block # "all" /\ seen[t].public
                                 /\ Grants(seen[t].policy, KindOf(policy))
  BY <1>2, <1>7, S3Access
<1>9. \A w \in past : t \in DOMAIN w /\ w[t] \in Configs(subject, t) =>
        \A part : TruthIn(w, t, part) = IF part = 0 THEN TruthOfThing(collector, policy, w[t]) ELSE "open"
  BY <1>3, TruthOfBucket
<1> HIDE DEF o
<1>10. PassesRightly(t)
  <2>1. SUFFICES ASSUME Verdict(o) = "pass" PROVE \E w \in past : TruthIn(w, t, 0) = "good"
    BY <1>2 DEF PassesRightly
  <2>2. wb[t].block = "all"
    BY <1>5, <1>8, <2>1 DEF From
  <2>3. QED
    BY <1>3, <1>5, <1>9, <2>2 DEF From
<1>11. Notices(t)
  <2>1. SUFFICES ASSUME NEW part \in 0..2, \A w \in past : TruthIn(w, t, part) = "bad"
                 PROVE  part = 0 /\ Verdict(o) = "fail"
    BY <1>2 DEF Notices
  <2>2. part = 0
    BY <1>5, <1>9, <2>1 DEF From
  <2>3. \A w \in past : t \in DOMAIN w /\ w[t] \in Configs(subject, t) =>
          w[t].block # "all" /\ Grants(w[t].policy, KindOf(policy)) /\ w[t].public
    BY <1>3, <1>9, <2>1, <2>2
  <2>4. QED
    BY <1>4, <1>5, <1>6, <1>8, <2>2, <2>3 DEF From
<1>12. ASSUME changes <= 1 PROVE FailsRightly(t)
  <2>1. SUFFICES ASSUME Verdict(o) = "fail" PROVE \E w \in past : TruthIn(w, t, 0) = "bad"
    BY <1>2 DEF FailsRightly
  <2>2. PICK w \in past : From(w, t, "block") /\ From(w, t, "policy")
    BY <1>1, <1>3, <1>12, TwoAspects DEF Follows
  <2>3. w[t].block # "all" /\ Grants(w[t].policy, KindOf(policy))
    BY <1>8, <2>1, <2>2 DEF From
  <2>4. QED
    BY <1>3, <1>9, <2>2, <2>3 DEF From
<1>13. QED
  BY <1>10, <1>11, <1>12

LEMMA GcpPublicSettled ==
  ASSUME Over, collector = "gcp.storage.buckets", policy \in PublicPolicies, NEW t \in listed
  PROVE  PassesRightly(t) /\ Notices(t) /\ (changes <= 1 => FailsRightly(t))
<1>1. t \in Things /\ t # 0 /\ {"pap", "iam"} \subseteq DOMAIN seen[t]
  BY AllTold, KnownOfGcp
<1> DEFINE o == Observation(0, "object_storage.bucket", StorageBucketFacts(seen[t]))
<1>2. Observed(t) = {o} /\ o.part = 0
      /\ Verdict(o) = Says(policy, "gcp", "object_storage.bucket", StorageBucketFacts(seen[t]))
  BY <1>1, ProgramOf, ObservedOf DEF GcpNames, GcpObservations, Verdict, Says, Observation
<1>3. \A c \in Configs(subject, t) :
        /\ DOMAIN c # {} /\ "pap" \in DOMAIN c /\ "iam" \in DOMAIN c
        /\ TruthOfThing(collector, policy, c)
             = IF c.pap # "enforced" /\ Opening(policy, c.iam) THEN "bad" ELSE "good"
  <2>1. TAKE c \in Configs(subject, t)
  <2>2. c \in ThingConfigs("gcp.storage.buckets") /\ Agreed("gcp.storage.buckets", policy, c)
    BY <1>1, ConfigIsAgreed
  <2>3. DOMAIN c = {"pap", "uniform", "cmek", "log", "iam"}
    BY <2>2 DEF ThingConfigs
  <2>4. QED
    BY <2>2, <2>3, GcpPublic
<1>4. PICK wp \in past : From(wp, t, "pap")
  BY <1>1, ReadAt
<1>5. PICK wi \in past : From(wi, t, "iam")
  BY <1>1, ReadAt
<1>6. /\ Verdict(o) = "fail" <=> seen[t].pap # "enforced" /\ Opening(policy, seen[t].iam)
      /\ Verdict(o) = "pass" <=> seen[t].pap = "enforced" \/ ~Opening(policy, seen[t].iam)
  BY <1>2, GcpAccess
<1>7. \A w \in past : t \in DOMAIN w /\ w[t] \in Configs(subject, t) =>
        \A part : TruthIn(w, t, part) = IF part = 0 THEN TruthOfThing(collector, policy, w[t]) ELSE "open"
  BY <1>3, TruthOfBucket
<1> HIDE DEF o
<1>8. PassesRightly(t)
  <2>1. SUFFICES ASSUME Verdict(o) = "pass" PROVE \E w \in past : TruthIn(w, t, 0) = "good"
    BY <1>2 DEF PassesRightly
  <2>2. wp[t].pap = "enforced" \/ ~Opening(policy, wi[t].iam)
    BY <1>4, <1>5, <1>6, <2>1 DEF From
  <2>3. QED
    BY <1>3, <1>4, <1>5, <1>7, <2>2 DEF From
<1>9. Notices(t)
  <2>1. SUFFICES ASSUME NEW part \in 0..2, \A w \in past : TruthIn(w, t, part) = "bad"
                 PROVE  part = 0 /\ Verdict(o) = "fail"
    BY <1>2 DEF Notices
  <2>2. part = 0
    BY <1>4, <1>7, <2>1 DEF From
  <2>3. \A w \in past : t \in DOMAIN w /\ w[t] \in Configs(subject, t) =>
          w[t].pap # "enforced" /\ Opening(policy, w[t].iam)
    BY <1>3, <1>7, <2>1, <2>2
  <2>4. QED
    BY <1>4, <1>5, <1>6, <2>2, <2>3 DEF From
<1>10. ASSUME changes <= 1 PROVE FailsRightly(t)
  <2>1. SUFFICES ASSUME Verdict(o) = "fail" PROVE \E w \in past : TruthIn(w, t, 0) = "bad"
    BY <1>2 DEF FailsRightly
  <2>2. PICK w \in past : From(w, t, "pap") /\ From(w, t, "iam")
    BY <1>1, <1>3, <1>10, TwoAspects DEF Follows
  <2>3. w[t].pap # "enforced" /\ Opening(policy, w[t].iam)
    BY <1>6, <2>1, <2>2 DEF From
  <2>4. QED
    BY <1>3, <1>7, <2>2, <2>3 DEF From
<1>11. QED
  BY <1>8, <1>9, <1>10

LEMMA AwsGroupsSettled ==
  ASSUME Over, collector = "aws.ec2.security_groups", NEW t \in listed
  PROVE  FailsRightly(t) /\ (changes <= 1 => PassesRightly(t) /\ Notices(t))
<1>1. t \in Things /\ t # 0 /\ policy \in Net
  BY AllTold, NothingLeft DEF Followed, NetworkPolicies, Net
<1>2. Program.provider = "aws" /\ Observed(t) = SecurityGroupObservations(seen[t])
  BY <1>1, ProgramOf, ObservedOf DEF AwsNames, AwsObservations
<1>3. \A w \in past : t \in DOMAIN w =>
        /\ w[t] \in Configs(subject, t) /\ w[t] \in ThingConfigs(collector)
        /\ Agreed(collector, policy, w[t]) /\ DOMAIN w[t] = {"rules1", "rules2"}
  <2>1. TAKE w \in past
  <2>2. HAVE t \in DOMAIN w
  <2>3. w[t] \in Configs(subject, t)
    BY <2>2 DEF Over, Ground, Configured
  <2>4. w[t] \in ThingConfigs(collector) /\ Agreed(collector, policy, w[t])
    BY <1>1, <2>3, ConfigIsAgreed
  <2>5. QED
    BY <2>3, <2>4 DEF ThingConfigs, RuleSetConfigs
<1>4. FailsRightly(t)
  <2> DEFINE A == Got(seen[t], "rules1", {})
             B == Got(seen[t], "rules2", {})
             parts == RuleParts(<<A, B>>)
  <2>1. /\ A \in SUBSET FirewallRules /\ B \in SUBSET FirewallRules
        /\ \A r \in A : /\ AgreedRule("aws.ec2.security_groups", policy, r)
                        /\ \E w \in past : t \in DOMAIN w /\ r \in w[t].rules1
        /\ \A r \in B : /\ AgreedRule("aws.ec2.security_groups", policy, r)
                        /\ \E w \in past : t \in DOMAIN w /\ r \in w[t].rules2
    <3>1. \A w \in past : t \in DOMAIN w =>
            /\ w[t].rules1 \in SUBSET FirewallRules /\ w[t].rules2 \in SUBSET FirewallRules
            /\ \A r \in w[t].rules1 \cup w[t].rules2 :
                 AgreedRule("aws.ec2.security_groups", policy, r)
      BY <1>3 DEF ThingConfigs, RuleSetConfigs, Agreed
    <3>2. A = {} \/ \E w \in past : t \in DOMAIN w /\ A = w[t].rules1
      <4>1. CASE "rules1" \in DOMAIN seen[t]
        <5>1. PICK w \in past : From(w, t, "rules1")
          BY <1>1, <4>1, ReadAt
        <5>2. QED
          BY <4>1, <5>1 DEF From, Got
      <4>2. CASE "rules1" \notin DOMAIN seen[t]
        BY <4>2 DEF Got
      <4>3. QED
        BY <4>1, <4>2
    <3>3. B = {} \/ \E w \in past : t \in DOMAIN w /\ B = w[t].rules2
      <4>1. CASE "rules2" \in DOMAIN seen[t]
        <5>1. PICK w \in past : From(w, t, "rules2")
          BY <1>1, <4>1, ReadAt
        <5>2. QED
          BY <4>1, <5>1 DEF From, Got
      <4>2. CASE "rules2" \notin DOMAIN seen[t]
        BY <4>2 DEF Got
      <4>3. QED
        BY <4>1, <4>2
    <3> HIDE DEF A, B
    <3>4. QED
      BY <3>1, <3>2, <3>3
  <2>2. Observed(t) = {Observation(i, RuleType(i), AwsFirewallFacts(parts[i])) : i \in DOMAIN parts}
    BY <1>2 DEF SecurityGroupObservations
  <2> HIDE DEF A, B
  <2>3. SUFFICES ASSUME NEW i \in DOMAIN parts,
                        Says(policy, "aws", RuleType(i), AwsFirewallFacts(parts[i])) = "fail"
                 PROVE  \E w \in past : TruthIn(w, t, i) = "bad"
    <3> HIDE DEF parts
    <3>1. SUFFICES ASSUME NEW i \in DOMAIN parts,
                          Verdict(Observation(i, RuleType(i), AwsFirewallFacts(parts[i]))) = "fail"
                   PROVE  \E w \in past : TruthIn(w, t, i) = "bad"
      BY <2>2 DEF FailsRightly, Observation
    <3>2. QED
      BY <1>2, <2>3, <3>1 DEF Verdict, Says, Observation
  <2>4. i \in {0, 1, 2} /\ parts[i] = IF i = 0 THEN A \cup B ELSE IF i = 1 THEN A ELSE B
    <3>1. DOMAIN parts = {0} \cup (IF A = {} THEN {} ELSE {1}) \cup (IF B = {} THEN {} ELSE {2})
      BY PartsOfRules
    <3>2. \A j \in DOMAIN parts : parts[j] = IF j = 0 THEN A \cup B ELSE IF j = 1 THEN A ELSE B
      BY PartsOfRules
    <3> HIDE DEF parts
    <3>3. QED
      BY <2>3, <3>1, <3>2
  <2>5. parts[i] \in SUBSET FirewallRules
        /\ \A r \in parts[i] : AgreedRule("aws.ec2.security_groups", policy, r)
    BY <2>1, <2>4
  <2>6. RulesTruth(parts[i], policy) = "bad"
    <3>1. RuleType(i) \in Firewalls
      BY DEF RuleType, Firewalls
    <3> HIDE DEF parts
    <3>2. QED
      BY <1>1, <2>3, <2>5, <3>1, AwsRules DEF Right
  <2>7. PICK r \in parts[i] : \A c \in Completions(r) : Exposes(c, policy)
    BY <2>6 DEF RulesTruth, Judge
  <2>8. PICK w \in past : /\ t \in DOMAIN w
                          /\ r \in IF i = 0 THEN w[t].rules1 \cup w[t].rules2
                                   ELSE IF i = 1 THEN w[t].rules1 ELSE w[t].rules2
    BY <2>1, <2>4, <2>7
  <2>9. r \in RulesOf(collector, t, i, w)
    BY <2>4, <2>8 DEF RulesOf
  <2>10. Completions(r) = {r}
    BY <1>1, <2>5, <2>7, AwsRule
  <2>11. RulesTruth(RulesOf(collector, t, i, w), policy) = "bad"
    BY <2>7, <2>9, <2>10 DEF RulesTruth, Judge
  <2>12. QED
    BY <1>1, <2>8, <2>11, TruthOfRules DEF TruthIn
<1>5. ASSUME changes <= 1 PROVE PassesRightly(t) /\ Notices(t)
  <2>1. CASE \E w \in past : t \notin DOMAIN w
    <3>1. PICK w \in past : t \notin DOMAIN w
      BY <2>1
    <3>2. \A part : TruthIn(w, t, part) = "none"
      BY <3>1 DEF TruthIn
    <3>3. PassesRightly(t)
      BY <3>2 DEF PassesRightly
    <3>4. Notices(t)
      BY <3>1 DEF Notices, Throughout
    <3>5. QED
      BY <3>3, <3>4
  <2>2. CASE \A w \in past : t \in DOMAIN w
    <3>1. Always(t, "rules1") /\ Always(t, "rules2")
      BY <1>3, <2>2 DEF Always
    <3>2. Program = SecurityGroups
      BY ProgramOf DEF AwsNames, AwsProgram
    <3>3. Program.after = <<Call("describe_security_group_rules", {"rules1"}),
                            Call("describe_security_group_rules", {"rules2"})>>
      BY <3>2 DEF SecurityGroups, Lister
    <3>4. /\ Call("describe_security_group_rules", {"rules1"}) \in SweepCalls
          /\ Call("describe_security_group_rules", {"rules2"}) \in SweepCalls
      BY <3>3, ElementsOf DEF SweepCalls
    <3>5. "rules1" \in DOMAIN seen[t] /\ "rules2" \in DOMAIN seen[t]
      BY <1>1, <3>1, <3>4, SweptAll DEF Asker, Call
    <3>6. \A c \in Configs(subject, t) : "rules1" \in DOMAIN c /\ "rules2" \in DOMAIN c
      BY <1>1, ConfigIsAgreed DEF ThingConfigs, RuleSetConfigs
    <3>7. PICK w \in past : From(w, t, "rules1") /\ From(w, t, "rules2")
      BY <1>1, <1>5, <3>5, <3>6, TwoAspects DEF Follows
    <3>8. t \in DOMAIN w /\ "rules1" \in DOMAIN w[t] /\ "rules2" \in DOMAIN w[t]
          /\ seen[t].rules1 = w[t].rules1 /\ seen[t].rules2 = w[t].rules2
      BY <3>7 DEF From
    <3>9. Observed(t) = SecurityGroupObservations(w[t])
      BY <1>2, <3>5, <3>8 DEF SecurityGroupObservations, Got
    <3>10. /\ Deserved(Observed(t), Program.provider, collector, policy, t, w)
           /\ Covered(Observed(t), collector, policy, t, w)
      BY <1>1, <1>2, <1>3, <3>8, <3>9, AwsRuleSet
    <3>11. Justified(t)
      BY <3>8, <3>10, OneWorld
    <3>12. QED
      BY <3>11 DEF Justified
  <2>3. QED
    BY <2>1, <2>2
<1>6. QED
  BY <1>4, <1>5

\* The rules of a group or an ACL of IBM: a page that was read shows what was
\* so, and both pages belong to one world if little changed.
LEMMA IbmGroupsSettled ==
  ASSUME Over, collector \in {"ibm.vpc.security_groups", "ibm.vpc.network_acls"}, NEW t \in listed
  PROVE  FailsRightly(t) /\ (changes <= 1 => PassesRightly(t) /\ Notices(t))
<1>1. t \in Things /\ t # 0 /\ policy \in Net /\ {"rules1", "rules2"} \subseteq DOMAIN seen[t]
  BY AllTold, KnownOfIbm, NothingLeft DEF Followed, NetworkPolicies, Net
<1>2. Program.provider = "ibm" /\ Observed(t) = IbmObservations(collector, t, seen[t])
  BY <1>1, ProgramOf, ObservedOf DEF IbmNames
<1>3. \A c \in Configs(subject, t) :
        /\ c \in ThingConfigs(collector) /\ Agreed(collector, policy, c)
        /\ DOMAIN c = {"rules1", "rules2"}
        /\ c.rules1 \in SUBSET FirewallRules /\ c.rules2 \in SUBSET FirewallRules
        /\ \A r \in c.rules1 \cup c.rules2 : AgreedRule(collector, policy, r)
  BY <1>1, ConfigIsAgreed DEF ThingConfigs, RuleSetConfigs, Agreed
<1>4. FailsRightly(t)
  <2> DEFINE A == seen[t].rules1
             B == seen[t].rules2
             parts == RuleParts(<<A, B>>)
  <2>1. PICK v \in past : From(v, t, "rules1")
    BY <1>1, ReadAt
  <2>2. PICK u \in past : From(u, t, "rules2")
    BY <1>1, ReadAt
  <2>3. /\ A \in SUBSET FirewallRules /\ B \in SUBSET FirewallRules
        /\ \A r \in A \cup B : AgreedRule(collector, policy, r)
        /\ t \in DOMAIN v /\ v[t].rules1 = A /\ t \in DOMAIN u /\ u[t].rules2 = B
    BY <1>3, <2>1, <2>2 DEF From
  <2>4. Observed(t) = {Observation(i, RuleType(i), IbmFirewallFacts(parts[i])) : i \in DOMAIN parts}
    BY <1>1, <1>2 DEF IbmObservations
  <2> HIDE DEF A, B
  <2>5. SUFFICES ASSUME NEW i \in DOMAIN parts,
                        Says(policy, "ibm", RuleType(i), IbmFirewallFacts(parts[i])) = "fail"
                 PROVE  \E w \in past : TruthIn(w, t, i) = "bad"
    <3> HIDE DEF parts
    <3>1. SUFFICES ASSUME NEW i \in DOMAIN parts,
                          Verdict(Observation(i, RuleType(i), IbmFirewallFacts(parts[i]))) = "fail"
                   PROVE  \E w \in past : TruthIn(w, t, i) = "bad"
      BY <2>4 DEF FailsRightly, Observation
    <3>2. QED
      BY <1>2, <2>5, <3>1 DEF Verdict, Says, Observation
  <2>6. i \in {0, 1, 2} /\ parts[i] = IF i = 0 THEN A \cup B ELSE IF i = 1 THEN A ELSE B
    <3>1. DOMAIN parts = {0} \cup (IF A = {} THEN {} ELSE {1}) \cup (IF B = {} THEN {} ELSE {2})
      BY PartsOfRules
    <3>2. \A j \in DOMAIN parts : parts[j] = IF j = 0 THEN A \cup B ELSE IF j = 1 THEN A ELSE B
      BY PartsOfRules
    <3> HIDE DEF parts
    <3>3. QED
      BY <2>5, <3>1, <3>2
  <2>7. parts[i] \in SUBSET FirewallRules
        /\ \A r \in parts[i] : AgreedRule(collector, policy, r)
    BY <2>3, <2>6
  <2>8. RulesTruth(parts[i], policy) = "bad"
    <3>1. RuleType(i) \in Firewalls
      BY DEF RuleType, Firewalls
    <3> HIDE DEF parts
    <3>2. QED
      BY <1>1, <2>5, <2>7, <3>1, IbmRules DEF Right
  <2>9. PICK r \in parts[i] : \A c \in Completions(r) : Exposes(c, policy)
    BY <2>8 DEF RulesTruth, Judge
  <2>10. PICK w \in past : /\ t \in DOMAIN w
                           /\ r \in IF i = 0 THEN w[t].rules1 \cup w[t].rules2
                                    ELSE IF i = 1 THEN w[t].rules1 ELSE w[t].rules2
    BY <2>3, <2>6, <2>9
  <2>11. r \in RulesOf(collector, t, i, w)
    BY <2>6, <2>10 DEF RulesOf
  <2>12. Completions(r) = {r}
    BY <1>1, <2>7, <2>9, IbmRule
  <2>13. RulesTruth(RulesOf(collector, t, i, w), policy) = "bad"
    BY <2>9, <2>11, <2>12 DEF RulesTruth, Judge
  <2>14. QED
    BY <1>1, <2>10, <2>13, TruthOfRules DEF TruthIn
<1>5. ASSUME changes <= 1 PROVE PassesRightly(t) /\ Notices(t)
  <2>1. PICK w \in past : From(w, t, "rules1") /\ From(w, t, "rules2")
    BY <1>1, <1>3, <1>5, TwoAspects DEF Follows
  <2>2. /\ t \in DOMAIN w /\ w[t] \in ThingConfigs(collector) /\ Agreed(collector, policy, w[t])
        /\ seen[t].rules1 = w[t].rules1 /\ seen[t].rules2 = w[t].rules2
    BY <1>3, <2>1 DEF From
  <2>3. Observed(t) = IbmObservations(collector, t, w[t])
    BY <1>2, <2>2 DEF IbmObservations
  <2>4. /\ Deserved(Observed(t), Program.provider, collector, policy, t, w)
        /\ Covered(Observed(t), collector, policy, t, w)
    BY <1>1, <1>2, <2>2, <2>3, IbmRuleSet
  <2>5. QED
    BY <2>2, <2>4, OneWorld DEF Justified
<1>6. QED
  BY <1>4, <1>5

\* The keys of a service ID, of which the listing has two pages, too.  An old
\* key that is known was there.
LEMMA ServiceIdKeysSettled ==
  ASSUME Over, collector = "ibm.iam.identity", policy = "IAM-002", NEW t \in listed
  PROVE  FailsRightly(t) /\ (changes <= 1 => PassesRightly(t) /\ Notices(t))
<1>1. t \in Things /\ t # 0 /\ policy \notin Net \cup {"LOG-001"}
  BY AllTold DEF Net
<1> DEFINE o == Observation(0, "identity.principal", ServiceIdFacts(seen[t]))
<1>2. /\ Program.provider = "ibm" /\ Observed(t) = {o} /\ o.part = 0
      /\ Verdict(o) = Says("IAM-002", "ibm", "identity.principal", ServiceIdFacts(seen[t]))
  BY <1>1, ProgramOf, ObservedOf DEF IbmNames, IbmObservations, Verdict, Says, Observation
<1> HIDE DEF o
<1>3. \A c \in Configs(subject, t) :
        /\ c \in ThingConfigs("ibm.iam.identity") /\ Agreed("ibm.iam.identity", "IAM-002", c)
        /\ DOMAIN c = {"keys1", "keys2"}
        /\ c.keys1 \in SUBSET AccessKeys /\ c.keys2 \in SUBSET AccessKeys
        /\ \A key \in c.keys1 \cup c.keys2 : key.age # NoAge
  BY <1>1, ConfigIsAgreed DEF ThingConfigs, Agreed
<1>4. FailsRightly(t)
  <2> DEFINE A == Got(seen[t], "keys1", {})
             B == Got(seen[t], "keys2", {})
             ages == {k.age : k \in A \cup B} \ {NoAge}
  <2>1. A = {} \/ \E w \in past : From(w, t, "keys1") /\ A = w[t].keys1
    BY <1>1, ReadAt DEF From, Got
  <2>2. B = {} \/ \E w \in past : From(w, t, "keys2") /\ B = w[t].keys2
    BY <1>1, ReadAt DEF From, Got
  <2>3. SUFFICES ASSUME Says("IAM-002", "ibm", "identity.principal", ServiceIdFacts(seen[t])) = "fail"
                 PROVE  \E w \in past : TruthIn(w, t, 0) = "bad"
    BY <1>2 DEF FailsRightly
  <2> DEFINE facts == ServiceIdFacts(seen[t])
  <2>4. /\ "credential_age_days" \in DOMAIN facts
        /\ facts["credential_age_days"] = IF ages = {} THEN NoAge ELSE Max(ages)
    BY DEF ServiceIdFacts
  <2>5. A \cup B \in SUBSET AccessKeys
    BY <1>3, <2>1, <2>2 DEF From
  <2> HIDE DEF A, B
  <2>6. ages \in SUBSET Ages /\ NoAge \notin ages
    BY <2>5 DEF AccessKeys, Ages
  <2> HIDE DEF ages, facts
  <2>7. Right(Says("IAM-002", "ibm", "identity.principal", facts), Judge(\A a \in ages : a <= 90, TRUE))
    BY <2>4, <2>6, AgeRight
  <2>8. PICK key \in A \cup B : ~(key.age <= 90)
    BY <2>3, <2>7 DEF Right, Judge, facts, ages
  <2>9. PICK w \in past : t \in DOMAIN w /\ w[t] \in Configs(subject, t)
                          /\ key \in w[t].keys1 \cup w[t].keys2
    BY <2>1, <2>2, <2>8 DEF From
  <2>10. TruthOfThing("ibm.iam.identity", "IAM-002", w[t]) = "bad"
    <3>1. TruthOfThing("ibm.iam.identity", "IAM-002", w[t])
            = KeysTruth("ibm.iam.identity", w[t].keys1 \cup w[t].keys2)
      BY <1>3, <2>9 DEF TruthOfThing
    <3>2. \A j \in w[t].keys1 \cup w[t].keys2 : j.age # NoAge
      BY <1>3, <2>9
    <3>3. QED
      BY <2>8, <2>9, <3>1, <3>2 DEF KeysTruth, Judge
  <2>11. DOMAIN w[t] # {}
    BY <1>3, <2>9
  <2>12. QED
    BY <1>1, <2>9, <2>10, <2>11, TruthOfOne DEF TruthIn
<1>5. ASSUME changes <= 1 PROVE PassesRightly(t) /\ Notices(t)
  <2>1. CASE \E w \in past : t \notin DOMAIN w
    <3>1. PICK w \in past : t \notin DOMAIN w
      BY <2>1
    <3>2. \A part : TruthIn(w, t, part) = "none"
      BY <3>1 DEF TruthIn
    <3>3. QED
      BY <3>1, <3>2 DEF PassesRightly, Notices, Throughout
  <2>2. CASE \A w \in past : t \in DOMAIN w
    <3>1. Always(t, "keys1") /\ Always(t, "keys2")
      BY <1>1, <1>3, <2>2 DEF Always, Over, Ground, Configured
    <3>2. Program = IamIdentity
      BY ProgramOf DEF IbmNames, IbmProgram
    <3>3. Program.before = <<Call("get_account_settings", {"mfa"}), Call("list_api_keys", {"keys1"}),
                             Call("list_api_keys", {"keys2"})>>
      BY <3>2 DEF IamIdentity, Lister
    <3>4. /\ Call("list_api_keys", {"keys1"}) \in SweepCalls
          /\ Call("list_api_keys", {"keys2"}) \in SweepCalls
      BY <3>3, ElementsOf DEF SweepCalls
    <3>5. "keys1" \in DOMAIN seen[t] /\ "keys2" \in DOMAIN seen[t]
      BY <1>1, <3>1, <3>4, SweptAll DEF Asker, Call
    <3>6. PICK w \in past : From(w, t, "keys1") /\ From(w, t, "keys2")
      BY <1>1, <1>3, <1>5, <3>5, TwoAspects DEF Follows
    <3>7. /\ t \in DOMAIN w /\ w[t] \in Configs(subject, t) /\ DOMAIN w[t] # {}
          /\ seen[t].keys1 = w[t].keys1 /\ seen[t].keys2 = w[t].keys2
      BY <3>6 DEF From
    <3>8. Right(Says("IAM-002", "ibm", "identity.principal", ServiceIdFacts(seen[t])),
                TruthOfThing("ibm.iam.identity", "IAM-002", w[t]))
      BY <1>3, <3>5, <3>7, ServiceKeys
    <3>9. /\ Deserved(Observed(t), Program.provider, collector, policy, t, w)
          /\ Covered(Observed(t), collector, policy, t, w)
      BY <1>1, <1>2, <3>7, <3>8, OneObservation DEF o
    <3>10. QED
      BY <3>7, <3>9, OneWorld DEF Justified
  <2>3. QED
    BY <2>1, <2>2
<1>6. QED
  BY <1>4, <1>5

\* All rules of a project that are listed were there in one world, if the
\* account changed once at most.
LEMMA ListedTogether ==
  ASSUME Over, collector = "gcp.compute.firewalls", changes <= 1
  PROVE  \E w \in past : \A t \in Things : /\ t \in listed <=> t \in DOMAIN w
                                           /\ t \in listed => w[t].rule = seen[t].rule
<1>1. /\ FewChanges /\ changes \in Nat /\ listed \subseteq Things
      /\ world \in past /\ \A w \in past : 0 \in DOMAIN w /\ DOMAIN w \subseteq Things \cup {0}
  BY AccountIsThere, NothingLeft, BoundAssumption
     DEF Over, Knowing, FewChanges, Ground, IInv, Accountable
<1>2. \A t \in listed : \E w \in past : t \in DOMAIN w /\ w[t].rule = seen[t].rule
  <2>1. TAKE t \in listed
  <2>2. t \in Things /\ "rule" \in DOMAIN seen[t]
    BY AllTold, KnownOfGcp
  <2>3. PICK w \in past : From(w, t, "rule")
    BY <2>2, ReadAt
  <2>4. QED
    BY <2>3 DEF From
<1>3. \A t \in Things : (\A w \in past : t \in DOMAIN w) => t \in listed
  <2>1. SUFFICES ASSUME NEW t \in Things, \A w \in past : t \in DOMAIN w PROVE t \in listed
    OBVIOUS
  <2>2. \A w \in past : w[t] \in ThingConfigs(collector)
    BY <2>1, ConfigIsAgreed DEF Over, Ground, Configured
  <2>3. \A w \in past : Kept(w[t])
    BY <2>2 DEF Kept, ThingConfigs
  <2>4. Program = ComputeFirewalls
    BY ProgramOf DEF GcpNames, GcpProgram
  <2>5. Program.lists
    BY <2>4 DEF ComputeFirewalls, Lister
  <2>6. QED
    BY <2>1, <2>3, <2>5, NothingLeft DEF Throughout
<1>4. CASE changes = 0
  <2>1. past = {world}
    BY <1>1, <1>4 DEF FewChanges
  <2>2. QED
    BY <1>2, <1>3, <2>1
<1>5. CASE changes = 1
  <2>1. PICK v \in past, u \in Things \cup {0} : past = {v, world} /\ OneApart(v, world, u)
    BY <1>1, <1>5 DEF FewChanges
  <2>2. \A t \in Things \ {u} : (t \in DOMAIN v <=> t \in DOMAIN world)
                                 /\ (t \in DOMAIN v => v[t] = world[t])
    BY <2>1 DEF OneApart
  <2>3. \A w \in past : \A t \in Things \ {u} : /\ t \in listed <=> t \in DOMAIN w
                                                /\ t \in listed => w[t].rule = seen[t].rule
    <3>1. TAKE w \in past
    <3>2. TAKE t \in Things \ {u}
    <3>3. t \in listed => t \in DOMAIN w /\ w[t].rule = seen[t].rule
      BY <1>2, <2>1, <2>2
    <3>4. t \in DOMAIN w => t \in listed
      BY <1>3, <2>1, <2>2
    <3>5. QED
      BY <3>3, <3>4
  <2>4. CASE u \in listed
    <3>1. PICK w \in past : u \in DOMAIN w /\ w[u].rule = seen[u].rule
      BY <1>2, <2>4
    <3>2. QED
      BY <2>3, <2>4, <3>1
  <2>5. CASE u \in Things \ listed
    <3>1. PICK w \in past : u \notin DOMAIN w
      BY <1>3, <2>5
    <3>2. QED
      BY <2>3, <2>5, <3>1
  <2>6. CASE u \notin Things
    BY <1>1, <2>3, <2>6
  <2>7. QED
    BY <2>4, <2>5, <2>6
<1>6. QED
  BY <1>1, <1>4, <1>5

LEMMA GcpProjectSettled ==
  ASSUME Over, collector = "gcp.compute.firewalls"
  PROVE  FailsRightly(0) /\ (changes <= 1 => PassesRightly(0) /\ Notices(0))
<1> DEFINE rules == {seen[i].rule : i \in listed}
<1>1. policy \in Net /\ 0 \notin listed /\ listed \subseteq Things
  BY NothingLeft, ThingsAssumption DEF Followed, NetworkPolicies, Net
<1>2. /\ Program.provider = "gcp"
      /\ Observed(0) = {Observation(0, "network.firewall_ruleset", GcpFirewallFacts(rules))}
  <2> DEFINE known == [i \in listed \cup {0} |-> seen[i]]
  <2>1. {known[i].rule : i \in DOMAIN known \ {0}} = rules
    BY <1>1
  <2>2. Observed(0) = FirewallObservations(0, known) /\ Program.provider = "gcp"
    BY ProgramOf, ObservedOf DEF GcpNames, GcpObservations
  <2> HIDE DEF known, rules
  <2>3. QED
    BY <2>1, <2>2 DEF FirewallObservations
<1>3. \A w \in past : \A t \in Things : t \in DOMAIN w =>
        w[t].rule \in FirewallRules /\ AgreedRule("gcp.compute.firewalls", policy, w[t].rule)
  <2>1. TAKE w \in past
  <2>2. TAKE t \in Things
  <2>3. HAVE t \in DOMAIN w
  <2>4. w[t] \in ThingConfigs(collector) /\ Agreed(collector, policy, w[t])
    BY <2>3, ConfigIsAgreed DEF Over, Ground, Configured
  <2>5. QED
    BY <2>4 DEF ThingConfigs, Agreed
<1>4. \A t \in listed : \E w \in past : t \in DOMAIN w /\ w[t].rule = seen[t].rule
  <2>1. TAKE t \in listed
  <2>2. t \in Things /\ "rule" \in DOMAIN seen[t]
    BY AllTold, KnownOfGcp
  <2>3. PICK w \in past : From(w, t, "rule")
    BY <2>2, ReadAt
  <2>4. QED
    BY <2>3 DEF From
<1>5. rules \in SUBSET FirewallRules
      /\ \A r \in rules : AgreedRule("gcp.compute.firewalls", policy, r)
  BY <1>1, <1>3, <1>4
<1> HIDE DEF rules
<1>6. Right(Says(policy, "gcp", "network.firewall_ruleset", GcpFirewallFacts(rules)),
            RulesTruth(rules, policy))
  BY <1>1, <1>5, GcpRules DEF Firewalls
<1>7. \A w \in past : \A part :
        Truth(collector, policy, 0, part, w)
          = IF part = 0 THEN RulesTruth({w[i].rule : i \in DOMAIN w \ {0}}, policy) ELSE "open"
  <2>1. TAKE w \in past
  <2>2. RulesOf(collector, 0, 0, w) = {w[i].rule : i \in DOMAIN w \ {0}}
    BY DEF RulesOf
  <2>3. QED
    BY <1>1, <2>2, TruthOfRules
<1>8. \A w \in past : 0 \in DOMAIN w
  BY AccountIsThere
<1>9. FailsRightly(0)
  <2>1. SUFFICES ASSUME Says(policy, "gcp", "network.firewall_ruleset", GcpFirewallFacts(rules)) = "fail"
                 PROVE  \E w \in past : TruthIn(w, 0, 0) = "bad"
    BY <1>2 DEF FailsRightly, Verdict, Says, Observation
  <2>2. RulesTruth(rules, policy) = "bad"
    BY <1>6, <2>1 DEF Right
  <2>3. PICK r \in rules : \A c \in Completions(r) : Exposes(c, policy)
    BY <2>2 DEF RulesTruth, Judge
  <2>4. PICK t \in listed : r = seen[t].rule
    BY <2>3 DEF rules
  <2>5. PICK w \in past : t \in DOMAIN w /\ w[t].rule = r
    BY <1>4, <2>4
  <2>6. Completions(r) = {r}
    BY <1>1, <1>5, GcpRule
  <2>7. RulesTruth({w[i].rule : i \in DOMAIN w \ {0}}, policy) = "bad"
    <3>1. r \in {w[i].rule : i \in DOMAIN w \ {0}}
      BY <1>1, <2>5
    <3>2. QED
      BY <2>3, <2>6, <3>1 DEF RulesTruth, Judge
  <2>8. QED
    BY <1>7, <1>8, <2>7 DEF TruthIn
<1>10. ASSUME changes <= 1 PROVE PassesRightly(0) /\ Notices(0)
  <2>1. PICK w \in past : \A t \in Things : /\ t \in listed <=> t \in DOMAIN w
                                            /\ t \in listed => w[t].rule = seen[t].rule
    BY <1>10, ListedTogether
  <2>2. DOMAIN w \ {0} = listed
    BY <1>1, <2>1 DEF Over, Ground, IInv, Accountable
  <2>3. {w[i].rule : i \in DOMAIN w \ {0}} = rules
    BY <1>1, <2>1, <2>2 DEF rules
  <2>4. \A part : Truth(collector, policy, 0, part, w)
                    = IF part = 0 THEN RulesTruth(rules, policy) ELSE "open"
    BY <1>7, <2>3
  <2>5. /\ Deserved(Observed(0), Program.provider, collector, policy, 0, w)
        /\ Covered(Observed(0), collector, policy, 0, w)
    <3> DEFINE o == Observation(0, "network.firewall_ruleset", GcpFirewallFacts(rules))
    <3>1. /\ o.part = 0 /\ o.type = "network.firewall_ruleset" /\ o.facts = GcpFirewallFacts(rules)
          /\ Observed(0) = {o}
      BY <1>2 DEF Observation
    <3>2. Truth(collector, policy, 0, 0, w) = RulesTruth(rules, policy)
          /\ \A part : part # 0 => Truth(collector, policy, 0, part, w) = "open"
      BY <2>4
    <3> HIDE DEF o
    <3>3. QED
      BY <1>2, <1>6, <3>1, <3>2 DEF Deserved, Covered
  <2>6. Justified(0)
    BY <1>8, <2>5, OneWorld
  <2>7. QED
    BY <2>6 DEF Justified
<1>11. QED
  BY <1>9, <1>10

\* The ACL, the policy of a bucket and the status of the policy.  A policy
\* with conditions is read for more than it says, so nothing may change then.
LEMMA CosSettled ==
  ASSUME Over, collector = "ibm.cos.buckets", NEW t \in listed, changes <= IF Conditional THEN 0 ELSE 1
  PROVE  Justified(t)
<1>1. t \in Things /\ t # 0 /\ {"acl", "policy", "public"} \subseteq DOMAIN seen[t]
      /\ policy \in PublicPolicies /\ changes \in Nat /\ changes <= 1
  BY AllTold, KnownOfIbm, NothingLeft, BoundAssumption
     DEF Followed, PublicPolicies, Over, Knowing, FewChanges
<1> DEFINE o == Observation(0, "object_storage.bucket", CosBucketFacts(seen[t]))
           kind == KindOf(policy)
<1>2. Observed(t) = {o} /\ o.part = 0
      /\ Verdict(o) = Says(policy, "ibm", "object_storage.bucket", CosBucketFacts(seen[t]))
  BY <1>1, ProgramOf, ObservedOf DEF IbmNames, IbmObservations, Verdict, Says, Observation
<1>3. \A w \in past : t \in DOMAIN w =>
        /\ w[t] \in Configs(subject, t) /\ DOMAIN w[t] = {"acl", "policy", "public"}
        /\ w[t].acl \cap {"write_acp", "absent"} = {}
        /\ "guarded" \in w[t].policy => w[t].policy \cap {"read", "write"} = {}
        /\ w[t].public = Is(w[t].policy \cap {"read", "write", "all"} # {})
        /\ \A part : TruthIn(w, t, part) =
             IF part = 0 THEN TruthOfThing(collector, policy, w[t]) ELSE "open"
  <2>1. TAKE w \in past
  <2>2. HAVE t \in DOMAIN w
  <2>3. w[t] \in Configs(subject, t)
    BY <2>2 DEF Over, Ground, Configured
  <2>4. w[t] \in ThingConfigs(collector) /\ Consistent(collector, w[t]) /\ Agreed(collector, policy, w[t])
    BY <1>1, <2>3, ConfigIsAgreed
  <2>5. DOMAIN w[t] = {"acl", "policy", "public"}
    BY <2>4 DEF ThingConfigs
  <2>6. \A part : TruthIn(w, t, part) = IF part = 0 THEN TruthOfThing(collector, policy, w[t]) ELSE "open"
    BY <1>1, <2>2, <2>5, TruthOfBucket
  <2>7. QED
    BY <2>3, <2>4, <2>5, <2>6 DEF Consistent, Agreed
<1>4. \A w \in past : t \in DOMAIN w =>
        LET truth == TruthIn(w, t, 0)
        IN /\ AclClosed(w[t].acl, policy) /\ w[t].public = "no" => truth = "good"
           /\ truth = "bad" <=> AclOpen(w[t].acl, policy) \/ PolicyOpen(w[t].policy, policy)
           /\ PolicyOpen(w[t].policy, policy) => w[t].public = "yes"
           /\ w[t].public \in {"yes", "no"}
           /\ w[t].public = "yes" => w[t].policy \cap {"read", "write", "all"} # {}
  <2>1. TAKE w \in past
  <2>2. HAVE t \in DOMAIN w
  <2>3. w[t] \in ThingConfigs("ibm.cos.buckets") /\ Consistent("ibm.cos.buckets", w[t])
    BY <1>1, <1>3, <2>2, ConfigIsAgreed
  <2>4. TruthIn(w, t, 0) = TruthOfThing("ibm.cos.buckets", policy, w[t])
    BY <1>3, <2>2
  <2>5. QED
    BY <1>1, <2>3, <2>4, IbmPublic
<1>5. PICK wa \in past : From(wa, t, "acl")
  BY <1>1, ReadAt
<1>6. PICK ws \in past : From(ws, t, "public")
  BY <1>1, ReadAt
<1>7. seen[t].acl \cap {"write_acp", "absent"} = {} /\ seen[t].public \in TriStates
  BY <1>3, <1>4, <1>5, <1>6 DEF From, TriStates
<1>8. /\ Verdict(o) = "fail" <=> \/ AclOpen(seen[t].acl, policy)
                                 \/ seen[t].public = "yes" /\ PolicyAccess(seen[t].policy, kind) = "yes"
      /\ Verdict(o) = "pass" => AclClosed(seen[t].acl, policy) /\ seen[t].public = "no"
  BY <1>1, <1>2, <1>7, IbmAccess
<1>9. PolicyAccess(seen[t].policy, kind) = "yes"
        <=> "unreadable" \notin seen[t].policy /\ seen[t].policy \cap {kind, "all", "guarded"} # {}
  BY DEF PolicyAccess, TriState
<1>10. seen[t].policy = {} \/ \E w \in past : From(w, t, "policy")
  <2>1. CASE \E w \in past : t \in DOMAIN w /\ "policy" \in DOMAIN w[t] /\ w[t].policy = seen[t].policy
    BY <1>3, <2>1 DEF From
  <2>2. CASE ~\E w \in past : t \in DOMAIN w /\ "policy" \in DOMAIN w[t] /\ w[t].policy = seen[t].policy
    BY <1>1, <2>2 DEF Over, Ground, KnownWasSo
  <2>3. QED
    BY <2>1, <2>2
<1>11. \A v, w \in past : t \in DOMAIN v /\ t \in DOMAIN w =>
         v[t].acl = w[t].acl \/ v[t].policy = w[t].policy
  <2>1. TAKE v, w \in past
  <2>2. HAVE t \in DOMAIN v /\ t \in DOMAIN w
  <2>3. PICK b : \A a \in (DOMAIN v[t] \cap DOMAIN w[t]) \ Follows : a # b => v[t][a] = w[t][a]
    BY <1>1, <2>2, OneSetting
  <2>4. "acl" \in (DOMAIN v[t] \cap DOMAIN w[t]) \ Follows
        /\ "policy" \in (DOMAIN v[t] \cap DOMAIN w[t]) \ Follows
    BY <1>3, <2>2 DEF Follows
  <2>5. QED
    BY <2>3, <2>4
<1> HIDE DEF o, kind
<1>12. FailsRightly(t)
  <2>1. SUFFICES ASSUME Verdict(o) = "fail" PROVE \E w \in past : TruthIn(w, t, 0) = "bad"
    BY <1>2 DEF FailsRightly
  <2>2. CASE AclOpen(seen[t].acl, policy)
    BY <1>4, <1>5, <2>2 DEF From
  <2>3. CASE seen[t].public = "yes" /\ PolicyAccess(seen[t].policy, kind) = "yes"
    <3>1. PICK w \in past : From(w, t, "policy")
      BY <1>9, <1>10, <2>3
    <3>2. /\ t \in DOMAIN w /\ "unreadable" \notin w[t].policy
          /\ w[t].policy \cap {kind, "all", "guarded"} # {}
      BY <1>9, <2>3, <3>1 DEF From
    <3>3. CASE "guarded" \notin w[t].policy
      <4>1. PolicyOpen(w[t].policy, policy)
        BY <3>2, <3>3 DEF PolicyOpen, kind
      <4>2. QED
        BY <1>4, <3>2, <4>1
    <3>4. CASE "guarded" \in w[t].policy
      <4>1. Conditional
        BY <1>1, <3>2, <3>4 DEF Conditional
      <4>2. past = {world}
        BY <1>1, <4>1 DEF Over, Knowing, FewChanges
      <4>3. w[t].public = "yes"
        BY <1>6, <2>3, <4>2 DEF From
      <4>4. "all" \in w[t].policy
        BY <1>3, <1>4, <3>2, <3>4, <4>3
      <4>5. PolicyOpen(w[t].policy, policy)
        BY <3>2, <4>4 DEF PolicyOpen
      <4>6. QED
        BY <1>4, <3>2, <4>5
    <3>5. QED
      BY <3>3, <3>4
  <2>4. QED
    BY <1>8, <2>1, <2>2, <2>3
<1>13. PassesRightly(t)
  <2>1. SUFFICES ASSUME Verdict(o) = "pass" PROVE \E w \in past : TruthIn(w, t, 0) = "good"
    BY <1>2 DEF PassesRightly
  <2>2. AclClosed(wa[t].acl, policy) /\ ws[t].public = "no" /\ t \in DOMAIN wa /\ t \in DOMAIN ws
    BY <1>5, <1>6, <1>8, <2>1 DEF From
  <2>3. CASE wa[t].acl = ws[t].acl
    BY <1>4, <2>2, <2>3
  <2>4. CASE wa[t].policy = ws[t].policy
    <3>1. wa[t].public = ws[t].public
      BY <1>3, <2>2, <2>4
    <3>2. QED
      BY <1>4, <2>2, <3>1
  <2>5. QED
    BY <1>11, <2>2, <2>3, <2>4
<1>14. Notices(t)
  <2>1. SUFFICES ASSUME NEW part \in 0..2,
                        \A w \in past : t \in DOMAIN w /\ TruthIn(w, t, part) = "bad"
                 PROVE  part = 0 /\ Verdict(o) = "fail"
    BY <1>2 DEF Notices, Throughout
  <2>2. part = 0
    BY <1>3, <1>5, <2>1
  <2>3. CASE AclOpen(wa[t].acl, policy)
    BY <1>5, <1>8, <2>2, <2>3 DEF From
  <2>4. CASE ~AclOpen(wa[t].acl, policy)
    <3>1. \A w \in past : PolicyOpen(w[t].policy, policy)
      <4>1. TAKE w \in past
      <4>2. AclOpen(w[t].acl, policy) \/ PolicyOpen(w[t].policy, policy)
        BY <1>4, <2>1, <2>2
      <4>3. PolicyOpen(wa[t].policy, policy)
        BY <1>4, <2>1, <2>2, <2>4
      <4>4. wa[t].acl = w[t].acl \/ wa[t].policy = w[t].policy
        BY <1>11, <2>1
      <4>5. QED
        BY <2>4, <4>2, <4>3, <4>4
    <3>2. seen[t].public = "yes"
      BY <1>4, <1>6, <2>1, <3>1 DEF From
    <3>3. \E w \in past : w[t].policy = seen[t].policy
      <4>1. Exists(t)
        BY <2>1, AccountIsThere DEF Exists
      <4>2. QED
        BY <1>1, <4>1 DEF Over, Ground, KnownWasSo
    <3>4. PolicyOpen(seen[t].policy, policy)
      BY <3>1, <3>3
    <3>5. PolicyAccess(seen[t].policy, kind) = "yes"
      BY <1>9, <3>4 DEF PolicyOpen, kind
    <3>6. QED
      BY <1>8, <2>2, <3>2, <3>5
  <2>5. QED
    BY <2>3, <2>4
<1>15. QED
  BY <1>12, <1>13, <1>14 DEF Justified

-----------------------------------------------------------------------------
(***************************************************************************)
(* The verdicts of every collector.                                        *)
(***************************************************************************)
LEMMA NothingListed ==
  ASSUME Over, ~Program.lists
  PROVE  /\ listed = {}
         /\ collector \in {"aws.s3.account", "gcp.logging.audit_config"}
<1>1. listed = {}
  BY DEF Over, Knowing, Unlisted
<1>2. collector \in AwsNames \cup AzureNames \cup GcpNames \cup IbmNames
  BY NothingLeft, SubjectsAssumption DEF collector
<1>3. CASE collector \in AwsNames
  <2>1. \A k \in AwsNames \ {"aws.s3.account"} : AwsProgram(k).lists
    BY DEF AwsNames, AwsProgram, S3Buckets, SecurityGroups, IamPrincipals, CloudTrail, KmsKeys, Lister
  <2>2. QED
    BY <1>1, <1>3, <2>1, ProgramOf
<1>4. CASE collector \in AzureNames
  <2>1. \A k \in AzureNames : AzureProgram(k).lists
    BY DEF AzureNames, AzureProgram, Inventory, StorageAccounts, StorageContainers,
           NetworkSecurityGroups, RoleAssignments, DiagnosticSettings, KeyVaults, Lister
  <2>2. QED
    BY <1>4, <2>1, ProgramOf
<1>5. CASE collector \in GcpNames
  <2>1. \A k \in GcpNames \ {"gcp.logging.audit_config"} : GcpProgram(k).lists
    BY DEF GcpNames, GcpProgram, GcpInventory, StorageBuckets, ComputeFirewalls, ProjectIamPolicy,
           GcpKmsKeys, Lister
  <2>2. QED
    BY <1>1, <1>5, <2>1, ProgramOf
<1>6. CASE collector \in IbmNames
  <2>1. \A k \in IbmNames : IbmProgram(k).lists
    BY DEF IbmNames, IbmProgram, IbmInventory, CosBuckets, IbmSecurityGroups, NetworkAcls,
           IamPolicies, IamIdentity, IamUsers, Lister
  <2>2. QED
    BY <1>6, <2>1, ProgramOf
<1>7. QED
  BY <1>2, <1>3, <1>4, <1>5, <1>6

\* What is said of the verdicts on a thing, if the account did not change
\* more often than is good for the collector.
Warranted(t) ==
  /\ Judged(FailsJoin) => FailsRightly(t)
  /\ Judged(PassesJoin) => PassesRightly(t) /\ Notices(t)

LEMMA FewEnough ==
  ASSUME NEW joining, Judged(joining), collector \in joining,
         policy \in Joining
  PROVE  changes <= IF Conditional THEN 0 ELSE 1
  BY DEF Judged

LEMMA OnceAtMost ==
  ASSUME Over, NEW joining, Judged(joining), collector \in joining,
         policy \in Joining
  PROVE  changes <= 1
<1>1. changes \in Nat /\ changes <= IF Conditional THEN 0 ELSE 1
  BY FewEnough, BoundAssumption DEF Over, Knowing, FewChanges
<1>2. QED
  BY <1>1

LEMMA AccountWarranted ==
  ASSUME Over
  PROVE  Warranted(0)
<1>1. CASE collector \in {"aws.s3.account", "aws.iam.principals", "ibm.iam.identity"}
  BY <1>1, S3AccountSettled, RootSettled, IbmAccountSettled DEF Warranted, Justified
<1>2. CASE collector = "gcp.compute.firewalls"
  <2>1. policy \in {"NET-001", "NET-002", "NET-003"}
    BY <1>2, NothingLeft DEF Followed, NetworkPolicies
  <2>2. Judged(PassesJoin) => changes <= 1
    BY <1>2, <2>1, OnceAtMost DEF PassesJoin, Joining
  <2>3. QED
    BY <1>2, <2>2, GcpProjectSettled DEF Warranted
<1>3. CASE collector \in SilentCollectors
  BY <1>3, SilentOnes DEF Warranted, Justified
<1>4. CASE collector \notin OfAccount \cup SilentCollectors
  BY <1>4, NothingOfAccount DEF Warranted, Justified
<1>5. QED
  BY <1>1, <1>2, <1>3, <1>4 DEF OfAccount

LEMMA AwsWarranted ==
  ASSUME Over, collector \in AwsNames, NEW t \in listed
  PROVE  Warranted(t)
<1>1. CASE collector = "aws.s3.buckets"
  <2>1. policy \in StoragePolicies
    BY <1>1, NothingLeft DEF Followed
  <2>2. CASE policy \in PublicPolicies
    <3>1. Judged(FailsJoin) => changes <= 1
      BY <1>1, <2>2, OnceAtMost DEF FailsJoin, PublicPolicies, Joining
    <3>2. QED
      BY <1>1, <2>2, <3>1, S3PublicSettled DEF Warranted
  <2>3. CASE policy \notin PublicPolicies
    <3>1. policy \in {"STOR-003", "STOR-004", "STOR-005"}
      BY <2>1, <2>3 DEF StoragePolicies, PublicPolicies
    <3>2. QED
      BY <1>1, <3>1, S3Settings DEF Warranted, Justified
  <2>4. QED
    BY <2>2, <2>3
<1>2. CASE collector = "aws.s3.account"
  <2>1. ~Program.lists
    BY <1>2, TheirPrograms DEF S3Account, Reader, Lister
  <2>2. QED
    BY <2>1, NothingListed
<1>3. CASE collector = "aws.ec2.security_groups"
  <2>1. policy \in {"NET-001", "NET-002", "NET-003"}
    BY <1>3, NothingLeft DEF Followed, NetworkPolicies
  <2>2. Judged(PassesJoin) => changes <= 1
    BY <1>3, <2>1, OnceAtMost DEF PassesJoin, Joining
  <2>3. QED
    BY <1>3, <2>2, AwsGroupsSettled DEF Warranted
<1>4. CASE collector \in {"aws.iam.principals", "aws.cloudtrail.trails", "aws.kms.keys"}
  BY <1>4, Users, Trails, RotationOfKeys DEF Warranted, Justified
<1>5. QED
  BY <1>1, <1>2, <1>3, <1>4 DEF AwsNames

LEMMA OthersWarranted ==
  ASSUME Over, collector \in AzureNames \cup GcpNames \cup IbmNames, NEW t \in listed
  PROVE  Warranted(t)
<1>1. CASE collector \in SilentCollectors
  BY <1>1, SilentOnes DEF Warranted, Justified
<1>2. CASE collector \in {"azure.storage.containers", "azure.network.security_groups",
                          "azure.monitor.diagnostic_settings", "azure.keyvault.vaults"}
  BY <1>2, Containers, AzureGroups, Settings, Vaults DEF Warranted, Justified
<1>3. CASE collector = "gcp.storage.buckets"
  <2>1. policy \in {"STOR-001", "STOR-002", "STOR-003", "STOR-004", "GCP-STOR-001", "GCP-STOR-002"}
    BY <1>3, NothingLeft DEF Followed
  <2>2. CASE policy \in PublicPolicies
    <3>1. Judged(FailsJoin) => changes <= 1
      BY <1>3, <2>2, OnceAtMost DEF FailsJoin, PublicPolicies, Joining
    <3>2. QED
      BY <1>3, <2>2, <3>1, GcpPublicSettled DEF Warranted
  <2>3. CASE policy \notin PublicPolicies
    <3>1. policy \in {"STOR-003", "STOR-004", "GCP-STOR-001", "GCP-STOR-002"}
      BY <2>1, <2>3 DEF PublicPolicies
    <3>2. QED
      BY <1>3, <3>1, GcpBucketSettings DEF Warranted, Justified
  <2>4. QED
    BY <2>2, <2>3
<1>4. CASE collector \in {"gcp.compute.firewalls", "gcp.kms.keys"}
  BY <1>4, FirewallRulesOfGcp, KeysOfRings DEF Warranted, Justified
<1>5. CASE collector = "ibm.cos.buckets"
  <2>1. policy \in {"STOR-001", "STOR-002"}
    BY <1>5, NothingLeft DEF Followed
  <2>2. Judged(FailsJoin) \/ Judged(PassesJoin) => changes <= IF Conditional THEN 0 ELSE 1
    BY <1>5, <2>1, FewEnough DEF FailsJoin, PassesJoin, Joining
  <2>3. QED
    BY <1>5, <2>2, CosSettled DEF Warranted, Justified
<1>6. CASE collector \in {"ibm.vpc.security_groups", "ibm.vpc.network_acls"}
  <2>1. policy \in {"NET-001", "NET-002", "NET-003"}
    BY <1>6, NothingLeft DEF Followed, NetworkPolicies
  <2>2. Judged(PassesJoin) => changes <= 1
    BY <1>6, <2>1, OnceAtMost DEF PassesJoin, Joining
  <2>3. QED
    BY <1>6, <2>2, IbmGroupsSettled DEF Warranted
<1>7. CASE collector = "ibm.iam.identity"
  <2>1. policy \in {"IBM-IAM-001", "IAM-002"}
    BY <1>7, NothingLeft DEF Followed
  <2>2. CASE policy = "IBM-IAM-001"
    BY <1>7, <2>2, ServiceIdMfa DEF Warranted, Justified
  <2>3. CASE policy = "IAM-002"
    <3>1. Judged(PassesJoin) => changes <= 1
      BY <1>7, <2>3, OnceAtMost DEF PassesJoin, Joining
    <3>2. QED
      BY <1>7, <2>3, <3>1, ServiceIdKeysSettled DEF Warranted
  <2>4. QED
    BY <2>1, <2>2, <2>3
<1>8. CASE collector = "ibm.iam.identity.users"
  BY <1>8, MfaOfUsers DEF Warranted, Justified
<1>9. QED
  BY <1>1, <1>2, <1>3, <1>4, <1>5, <1>6, <1>7, <1>8 DEF SilentCollectors, AzureNames, GcpNames, IbmNames

LEMMA AllWarranted ==
  ASSUME Over, NEW t \in listed \cup {0}
  PROVE  Warranted(t)
<1>1. collector \in AwsNames \cup AzureNames \cup GcpNames \cup IbmNames
  BY NothingLeft, SubjectsAssumption DEF collector
<1>2. QED
  BY <1>1, AccountWarranted, AwsWarranted, OthersWarranted

\* What is not listed is gone at some time, or no policy is about it.
LEMMA UnlistedNotices ==
  ASSUME Over, NEW t \in Things \ listed
  PROVE  Notices(t)
<1>1. CASE Program.lists
  BY <1>1, NothingLeft DEF Notices
<1>2. CASE ~Program.lists
  <2>1. collector \in {"aws.s3.account", "gcp.logging.audit_config"}
    BY <1>2, NothingListed
  <2>2. world \in past
    BY AccountIsThere
  <2>3. SUFFICES ASSUME NEW part, t \in DOMAIN world PROVE TruthIn(world, t, part) # "bad"
    BY <2>2 DEF Notices, Throughout
  <2>4. world[t] \in ThingConfigs(collector)
    BY <2>2, <2>3, ConfigIsAgreed DEF Over, Ground, Configured
  <2>5. world[t] = <<>>
    BY <2>1, <2>4 DEF ThingConfigs
  <2>6. DOMAIN world[t] = {}
    BY <2>5
  <2>7. policy \in {"AWS-S3-001", "LOG-001"}
    BY <2>1, NothingLeft DEF Followed
  <2>8. Truth(collector, policy, t, part, world) = "open"
    BY <2>6, <2>7, TruthOfOne, TruthOfLog DEF Net
  <2>9. QED
    BY <2>8 DEF TruthIn
<1>3. QED
  BY <1>1, <1>2

LEMMA VerdictsHold ==
  ASSUME Ground, Knowing
  PROVE  FailWarranted /\ PassWarranted /\ NothingOverlooked
<1>1. CASE ~Complete
  BY <1>1 DEF FailWarranted, PassWarranted, NothingOverlooked, Judged
<1>2. CASE Complete
  <2>1. Over
    BY <1>2 DEF Over
  <2>2. FailWarranted
    BY <2>1, AllWarranted DEF FailWarranted, Warranted, FailsRightly
  <2>3. PassWarranted
    BY <2>1, AllWarranted DEF PassWarranted, Warranted, PassesRightly
  <2>4. NothingOverlooked
    <3>1. SUFFICES ASSUME Judged(PassesJoin), NEW t \in Things \cup {0} PROVE Notices(t)
      BY DEF NothingOverlooked, Notices
    <3>2. QED
      BY <2>1, <3>1, AllWarranted, UnlistedNotices DEF Warranted
  <2>5. QED
    BY <2>2, <2>3, <2>4
<1>3. QED
  BY <1>1, <1>2

\* No finding is made up from answers of different times.
THEOREM FailsAreWarranted == Spec => []FailWarranted
  BY KnowledgeIsGrounded, VerdictsHold, PTL

\* What cannot be read never passes, and what passes deserved it once.
THEOREM PassesAreWarranted == Spec => []PassWarranted
  BY KnowledgeIsGrounded, VerdictsHold, PTL

\* What violates a policy all the time gets a failing verdict.
THEOREM NothingIsOverlooked == Spec => []NothingOverlooked
  BY KnowledgeIsGrounded, VerdictsHold, PTL
-----------------------------------------------------------------------------
(***************************************************************************)
(* The types of what is observed.                                          *)
(***************************************************************************)
Typed(facts) == \A f \in DOMAIN facts : facts[f] \in FactType(f)

\* An observation of a type the collector may produce, with facts that are
\* values of the fact models.
WellFormed(o) == o.type \in Produces /\ Typed(o.facts)

LEMMA TriValues ==
  /\ \A unread, is : TriState(unread, is) \in TriStates
  /\ \A b : Is(b) \in TriStates
  /\ \A values : AnyOf(values) \in TriStates
  /\ \A value : IbmTri(value) \in TriStates
  /\ \A block : AllPublicBlocks(block) \in TriStates
  /\ "unknown" \in TriStates /\ "yes" \in TriStates /\ "no" \in TriStates
  BY DEF TriState, Is, AnyOf, IbmTri, AllPublicBlocks, TriStates

LEMMA FactTypes ==
  /\ FactType("encryption_at_rest") = {"customer_managed", "provider_managed", "none", "unknown"}
  /\ FactType("credential_age_days") = Ages
  /\ \A f : f # "encryption_at_rest" /\ f # "credential_age_days" => FactType(f) = TriStates
  BY DEF FactType, Ages

LEMMA FirewallFactsTyped ==
  ASSUME NEW a \in TriStates, NEW b \in TriStates, NEW c \in TriStates
  PROVE  Typed([unrestricted_admin_ingress |-> a, unrestricted_all_ports |-> b,
                unrestricted_datastore_ingress |-> c])
  BY FactTypes DEF Typed

\* The age of the oldest of some keys.
LEMMA OldestAge ==
  ASSUME NEW keys \in SUBSET AccessKeys
  PROVE  CredentialAge(keys) \in Ages
<1> DEFINE ages == {k.age : k \in {j \in keys : j.active}}
<1>1. ages \subseteq Ages
  BY DEF AccessKeys, Ages
<1>2. 0 \in Ages /\ NoAge \in Ages
  BY AgeRange
<1>3. ages # {} => Max(ages) \in Ages
  <2> HIDE DEF ages
  <2>1. QED
    BY <1>1, Oldest
<1>4. QED
  BY <1>2, <1>3 DEF CredentialAge

LEMMA OldestServiceAge ==
  ASSUME NEW s, "keys1" \in DOMAIN s => s.keys1 \in SUBSET AccessKeys,
         "keys2" \in DOMAIN s => s.keys2 \in SUBSET AccessKeys
  PROVE  Typed(ServiceIdFacts(s))
<1> DEFINE keys == Got(s, "keys1", {}) \cup Got(s, "keys2", {})
           ages == {k.age : k \in keys} \ {NoAge}
<1>1. keys \in SUBSET AccessKeys
  BY DEF Got
<1>2. ages \subseteq Ages
  BY <1>1 DEF AccessKeys, Ages
<1>3. (IF ages = {} THEN NoAge ELSE Max(ages)) \in Ages
  <2>1. NoAge \in Ages
    BY AgeRange
  <2> HIDE DEF ages
  <2>2. QED
    BY <1>2, <2>1, Oldest
<1>4. ServiceIdFacts(s) = [mfa_enabled |-> "unknown",
                           credential_age_days |-> IF ages = {} THEN NoAge ELSE Max(ages)]
  BY DEF ServiceIdFacts
<1> HIDE DEF ages
<1>5. QED
  BY <1>3, <1>4, FactTypes, TriValues DEF Typed

LEMMA AwsFacts ==
  ASSUME NEW s
  PROVE  /\ Typed(S3BucketFacts(s)) /\ Typed(S3AccountFacts(s))
         /\ \A rules : Typed(AwsFirewallFacts(rules))
         /\ s.root_mfa \in TriStates /\ s.root_keys \in TriStates => Typed(RootFacts(s))
         /\ s.root_mfa \in TriStates => Typed(AccountSummaryFacts(s))
         /\ s.keys \in SUBSET AccessKeys => Typed(UserFacts(s))
         /\ s.logging \in TriStates /\ s.validation \in TriStates => Typed(TrailFacts(s))
         /\ /\ s.supports \in TriStates
            /\ "rotation" \in DOMAIN s => s.rotation \in TriStates
            => Typed(KmsKeyFacts(s))
<1>1. Typed(S3BucketFacts(s))
  <2>1. EncryptionPosture(s.encryption) \in FactType("encryption_at_rest")
    BY FactTypes DEF EncryptionPosture
  <2>2. QED
    BY <2>1, FactTypes, TriValues DEF Typed, S3BucketFacts
<1>2. Typed(S3AccountFacts(s))
  BY FactTypes, TriValues DEF Typed, S3AccountFacts
<1>3. ASSUME NEW rules PROVE Typed(AwsFirewallFacts(rules))
  <2> DEFINE a == Is(\E r \in rules : AwsOpens(r, AwsAdminPorts))
             b == Is(\E r \in rules : AwsOpens(r, {}))
             c == Is(\E r \in rules : AwsOpens(r, AwsDatastorePorts))
  <2>1. AwsFirewallFacts(rules) = [unrestricted_admin_ingress |-> a, unrestricted_all_ports |-> b,
                                 unrestricted_datastore_ingress |-> c]
    BY DEF AwsFirewallFacts
  <2>2. a \in TriStates /\ b \in TriStates /\ c \in TriStates
    BY DEF Is, TriState, TriStates
  <2> HIDE DEF a, b, c
  <2>3. QED
    BY <2>1, <2>2, FirewallFactsTyped
<1>4. s.root_mfa \in TriStates /\ s.root_keys \in TriStates => Typed(RootFacts(s))
  BY FactTypes, TriValues, AgeRange DEF Typed, RootFacts, PasswordPolicyStrong
<1>5. s.root_mfa \in TriStates => Typed(AccountSummaryFacts(s))
  BY FactTypes, TriValues DEF Typed, AccountSummaryFacts, PasswordPolicyStrong
<1>6. s.keys \in SUBSET AccessKeys => Typed(UserFacts(s))
  BY FactTypes, TriValues, OldestAge DEF Typed, UserFacts
<1>7. s.logging \in TriStates /\ s.validation \in TriStates => Typed(TrailFacts(s))
  BY FactTypes, TriValues DEF Typed, TrailFacts
<1>8. /\ s.supports \in TriStates
      /\ "rotation" \in DOMAIN s => s.rotation \in TriStates
      => Typed(KmsKeyFacts(s))
  BY FactTypes, TriValues DEF Typed, KmsKeyFacts, Got
<1>9. QED
  BY <1>1, <1>2, <1>3, <1>4, <1>5, <1>6, <1>7, <1>8

LEMMA AzureFacts ==
  ASSUME NEW s
  PROVE  /\ Typed(InventoryFacts) /\ Typed(IdentityFacts)
         /\ \A rules : Typed(AzureFirewallFacts(rules))
         /\ \A enabled : Typed(DiagnosticFacts(enabled))
         /\ /\ s.key \in {"vault", "platform", "absent"}
            /\ s.https \in TriStates /\ s.shared \in TriStates
            => Typed(AccountStorageFacts(s)) /\ Typed(ContainerFacts(s))
         /\ s.soft \in TriStates /\ s.purge \in TriStates => Typed(KeyVaultFacts(s))
<1>1. Typed(InventoryFacts) /\ Typed(IdentityFacts)
  BY FactTypes, TriValues, AgeRange DEF Typed, InventoryFacts, AccountFacts, IdentityFacts
<1>2. \A rules : Typed(AzureFirewallFacts(rules))
  BY FactTypes, TriValues DEF Typed, AzureFirewallFacts
<1>3. \A enabled : Typed(DiagnosticFacts(enabled))
  BY FactTypes, TriValues DEF Typed, DiagnosticFacts
<1>4. ASSUME s.key \in {"vault", "platform", "absent"}, s.https \in TriStates, s.shared \in TriStates
      PROVE  Typed(AccountStorageFacts(s)) /\ Typed(ContainerFacts(s))
  <2>1. Typed(AccountStorageFacts(s))
    BY <1>4, FactTypes, TriValues DEF Typed, AccountStorageFacts
  <2>2. ContainerFacts(s) = [AccountStorageFacts(s) EXCEPT !.public_read_access =
                               Is(s.access \in {"blob", "container"})]
        /\ DOMAIN AccountStorageFacts(s) = DOMAIN ContainerFacts(s)
    BY DEF ContainerFacts, AccountStorageFacts
  <2>3. QED
    BY <2>1, <2>2, FactTypes, TriValues DEF Typed
<1>5. s.soft \in TriStates /\ s.purge \in TriStates => Typed(KeyVaultFacts(s))
  BY FactTypes, TriValues DEF Typed, KeyVaultFacts
<1>6. QED
  BY <1>1, <1>2, <1>3, <1>4, <1>5

LEMMA GcpFacts ==
  ASSUME NEW s
  PROVE  /\ Typed(AccountFacts) /\ Typed(IdentityFacts) /\ Typed(AuditConfigFacts)
         /\ \A rules : Typed(GcpFirewallFacts(rules))
         /\ s.uniform \in TriStates => Typed(StorageBucketFacts(s))
         /\ Typed(RotationFacts(s))
<1>1. Typed(AccountFacts) /\ Typed(IdentityFacts) /\ Typed(AuditConfigFacts)
  BY FactTypes, TriValues, AgeRange DEF Typed, AccountFacts, IdentityFacts, AuditConfigFacts
<1>2. ASSUME NEW rules PROVE Typed(GcpFirewallFacts(rules))
  <2> DEFINE a == Is(\E r \in rules : GcpExposes(r, GcpAdminPorts))
             b == Is(\E r \in rules : GcpExposes(r, {}))
             c == Is(\E r \in rules : GcpExposes(r, GcpDatastorePorts))
  <2>1. GcpFirewallFacts(rules) = [unrestricted_admin_ingress |-> a, unrestricted_all_ports |-> b,
                                 unrestricted_datastore_ingress |-> c]
    BY DEF GcpFirewallFacts
  <2>2. a \in TriStates /\ b \in TriStates /\ c \in TriStates
    BY DEF Is, TriState, TriStates
  <2> HIDE DEF a, b, c
  <2>3. QED
    BY <2>1, <2>2, FirewallFactsTyped
<1>3. s.uniform \in TriStates => Typed(StorageBucketFacts(s))
  BY FactTypes, TriValues DEF Typed, StorageBucketFacts
<1>4. Typed(RotationFacts(s))
  BY FactTypes, TriValues DEF Typed, RotationFacts
<1>5. QED
  BY <1>1, <1>2, <1>3, <1>4

LEMMA IbmFacts ==
  ASSUME NEW s
  PROVE  /\ Typed(CosBucketFacts(s)) /\ Typed(AccountSettingsFacts(s)) /\ Typed(UserMfaFacts(s))
         /\ \A rules : Typed(IbmFirewallFacts(rules))
<1>1. Typed(CosBucketFacts(s))
  BY FactTypes, TriValues DEF Typed, CosBucketFacts
<1>2. Typed(AccountSettingsFacts(s)) /\ Typed(UserMfaFacts(s))
  BY FactTypes, TriValues, AgeRange DEF Typed, AccountSettingsFacts, UserMfaFacts
<1>3. ASSUME NEW rules PROVE Typed(IbmFirewallFacts(rules))
  <2> DEFINE a == Is(\E r \in rules : IbmOpens(r, IbmAdminPorts))
             b == Is(\E r \in rules : IbmOpens(r, {}))
             c == Is(\E r \in rules : IbmOpens(r, IbmDatastorePorts))
  <2>1. IbmFirewallFacts(rules) = [unrestricted_admin_ingress |-> a, unrestricted_all_ports |-> b,
                                 unrestricted_datastore_ingress |-> c]
    BY DEF IbmFirewallFacts
  <2>2. a \in TriStates /\ b \in TriStates /\ c \in TriStates
    BY DEF Is, TriState, TriStates
  <2> HIDE DEF a, b, c
  <2>3. QED
    BY <2>1, <2>2, FirewallFactsTyped
<1>4. QED
  BY <1>1, <1>2, <1>3
-----------------------------------------------------------------------------
\* What a collector may produce.
LEMMA ProducesOf ==
  /\ collector \in {"aws.s3.buckets", "azure.storage.containers", "gcp.storage.buckets",
                    "ibm.cos.buckets"} => "object_storage.bucket" \in Produces
  /\ collector \in {"aws.ec2.security_groups", "azure.network.security_groups",
                    "gcp.compute.firewalls", "ibm.vpc.security_groups",
                    "ibm.vpc.network_acls"} =>
       /\ "network.firewall_rule" \in Produces /\ "network.firewall_ruleset" \in Produces
       /\ \A part : RuleType(part) \in Produces
  /\ collector \in {"aws.s3.account", "aws.iam.principals", "azure.inventory.resources",
                    "gcp.inventory.assets", "gcp.iam.project_policy",
                    "ibm.inventory.resources", "ibm.iam.identity"} =>
       "account.scope" \in Produces
  /\ collector \in {"aws.iam.principals", "ibm.iam.identity", "ibm.iam.identity.users"} =>
       "identity.principal" \in Produces
  /\ collector \in {"azure.authorization.role_assignments", "ibm.iam.policies",
                    "gcp.iam.project_policy"} => "identity.policy_binding" \in Produces
  /\ collector \in {"aws.cloudtrail.trails", "gcp.logging.audit_config"} =>
       "logging.audit_trail" \in Produces
  /\ collector = "azure.monitor.diagnostic_settings" => "logging.diagnostic_setting" \in Produces
  /\ collector \in {"aws.kms.keys", "gcp.kms.keys"} => "kms.key" \in Produces
  /\ collector = "azure.keyvault.vaults" => "kms.vault" \in Produces
  /\ collector = "azure.storage.accounts" => "object_storage.account" \in Produces
  BY DEF Produces, Buckets, Firewalls, Accounts, Principals, RuleType

LEMMA OneWellFormed ==
  ASSUME NEW part, NEW type \in Produces, NEW facts, Typed(facts)
  PROVE  \A o \in {Observation(part, type, facts)} : WellFormed(o)
  BY DEF WellFormed, Observation

\* A value that is known is one that a configuration may have.
LEMMA ValueOf ==
  ASSUME Over, NEW t \in listed, NEW a \in DOMAIN seen[t],
         ~(collector = "ibm.cos.buckets" /\ a = "policy")
  PROVE  \E c \in ThingConfigs(collector) : a \in DOMAIN c /\ seen[t][a] = c[a]
<1>1. t \in Things
  BY NothingLeft
<1>2. PICK w \in past : From(w, t, a)
  BY <1>1, ReadAt
<1>3. QED
  BY <1>1, <1>2, ConfigIsAgreed DEF From

LEMMA AccountValueOf ==
  ASSUME Over, NEW a \in DOMAIN seen[0], a # "policy"
  PROVE  \E c \in AccountConfigs(collector) : a \in DOMAIN c /\ seen[0][a] = c[a]
<1>1. PICK w \in past : From(w, 0, a)
  BY ReadAt
<1>2. QED
  BY <1>1, AccountIsThere DEF From

LEMMA AwsWellFormed ==
  ASSUME Over, collector \in AwsNames, NEW t \in listed \cup {0}
  PROVE  \A o \in Observed(t) : WellFormed(o)
<1>1. Observed(t) = AwsObservations(collector, t, seen[t]) /\ (t # 0 => t \in listed)
      /\ (t \in listed => t # 0)
  BY ObservedOf, AllTold
<1>2. CASE collector = "aws.s3.buckets"
  <2>1. Observed(t) \subseteq {Observation(0, "object_storage.bucket", S3BucketFacts(seen[t]))}
    BY <1>1, <1>2 DEF AwsObservations
  <2>2. QED
    BY <1>2, <2>1, ProducesOf, AwsFacts, OneWellFormed
<1>3. CASE collector = "aws.s3.account"
  <2>1. Observed(t) = {Observation(0, "account.scope", S3AccountFacts(seen[t]))}
    BY <1>1, <1>3 DEF AwsObservations
  <2>2. QED
    BY <1>3, <2>1, ProducesOf, AwsFacts, OneWellFormed
<1>4. CASE collector = "aws.ec2.security_groups"
  <2> DEFINE parts == RuleParts(<<Got(seen[t], "rules1", {}), Got(seen[t], "rules2", {})>>)
  <2>1. Observed(t) \subseteq
          {Observation(i, RuleType(i), AwsFirewallFacts(parts[i])) : i \in DOMAIN parts}
    BY <1>1, <1>4 DEF AwsObservations, SecurityGroupObservations
  <2> HIDE DEF parts
  <2>2. SUFFICES ASSUME NEW i \in DOMAIN parts
                 PROVE  WellFormed(Observation(i, RuleType(i), AwsFirewallFacts(parts[i])))
    BY <2>1
  <2>3. RuleType(i) \in Produces /\ Typed(AwsFirewallFacts(parts[i]))
    BY <1>4, ProducesOf, AwsFacts
  <2>4. QED
    BY <2>3, OneWellFormed
<1>5. CASE collector = "aws.iam.principals" /\ t = 0
  <2>1. Observed(0) = {Observation(0, "identity.principal", RootFacts(seen[0])),
                       Observation(1, "account.scope", AccountSummaryFacts(seen[0]))}
    BY <1>1, <1>5 DEF AwsObservations
  <2>2. {"root_keys", "root_mfa"} \subseteq DOMAIN seen[0]
    BY <1>5, KnownOfAccount
  <2>3. seen[0].root_keys \in TriStates
    <3>1. PICK c \in AccountConfigs(collector) : seen[0].root_keys = c.root_keys
      BY <2>2, AccountValueOf
    <3>2. QED
      BY <1>5, <3>1 DEF AccountConfigs
  <2>4. seen[0].root_mfa \in TriStates
    <3>1. PICK c \in AccountConfigs(collector) : seen[0].root_mfa = c.root_mfa
      BY <2>2, AccountValueOf
    <3>2. QED
      BY <1>5, <3>1 DEF AccountConfigs
  <2>5. Typed(RootFacts(seen[0])) /\ Typed(AccountSummaryFacts(seen[0]))
    BY <2>3, <2>4, AwsFacts
  <2>6. "identity.principal" \in Produces /\ "account.scope" \in Produces
    BY <1>5, ProducesOf
  <2>7. QED
    BY <1>5, <2>1, <2>5, <2>6, OneWellFormed
<1>6. CASE collector = "aws.iam.principals" /\ t # 0
  <2>1. Observed(t) = {Observation(0, "identity.principal", UserFacts(seen[t]))}
    BY <1>1, <1>6 DEF AwsObservations
  <2>2. PICK c \in ThingConfigs(collector) : seen[t].keys = c.keys
    BY <1>1, <1>6, KnownOfAws, ValueOf
  <2>3. seen[t].keys \in SUBSET AccessKeys
    BY <1>6, <2>2 DEF ThingConfigs
  <2>4. QED
    BY <1>6, <2>1, <2>3, ProducesOf, AwsFacts, OneWellFormed
<1>7. CASE collector = "aws.cloudtrail.trails" /\ t # 0
  <2>1. Observed(t) = {Observation(0, "logging.audit_trail", TrailFacts(seen[t]))}
    BY <1>1, <1>7 DEF AwsObservations
  <2>2. PICK c \in ThingConfigs(collector) : seen[t].logging = c.logging
    BY <1>1, <1>7, KnownOfAws, ValueOf
  <2>3. PICK d \in ThingConfigs(collector) : seen[t].validation = d.validation
    BY <1>1, <1>7, KnownOfAws, ValueOf
  <2>4. seen[t].logging \in TriStates /\ seen[t].validation \in TriStates
    BY <1>7, <2>2, <2>3 DEF ThingConfigs
  <2>5. QED
    BY <1>7, <2>1, <2>4, ProducesOf, AwsFacts, OneWellFormed
<1>8. CASE collector = "aws.kms.keys" /\ t # 0
  <2>1. Observed(t) = {Observation(0, "kms.key", KmsKeyFacts(seen[t]))}
    BY <1>1, <1>8 DEF AwsObservations
  <2>2. PICK c \in ThingConfigs(collector) : seen[t].supports = c.supports
    BY <1>1, <1>8, KnownOfAws, ValueOf
  <2>3. seen[t].supports \in TriStates
    BY <1>8, <2>2 DEF ThingConfigs
  <2>4. ASSUME "rotation" \in DOMAIN seen[t] PROVE seen[t].rotation \in TriStates
    <3>1. PICK d \in ThingConfigs(collector) : seen[t].rotation = d.rotation
      BY <1>1, <1>8, <2>4, ValueOf
    <3>2. QED
      BY <1>8, <3>1 DEF ThingConfigs
  <2>5. QED
    BY <1>8, <2>1, <2>3, <2>4, ProducesOf, AwsFacts, OneWellFormed
<1>9. CASE collector \in {"aws.cloudtrail.trails", "aws.kms.keys"} /\ t = 0
  BY <1>1, <1>9 DEF AwsObservations
<1>10. QED
  BY <1>2, <1>3, <1>4, <1>5, <1>6, <1>7, <1>8, <1>9 DEF AwsNames

LEMMA AzureWellFormed ==
  ASSUME Over, collector \in AzureNames, NEW t \in listed \cup {0}
  PROVE  \A o \in Observed(t) : WellFormed(o)
<1> SUFFICES ASSUME t # 0 PROVE \A o \in Observed(t) : WellFormed(o)
  BY ObservedOf
<1>1. Observed(t) = AzureObservations(collector, seen[t]) /\ t \in listed
  BY ObservedOf
<1>2. CASE collector = "azure.inventory.resources"
  <2>1. Observed(t) = {Observation(0, "account.scope", InventoryFacts)}
    BY <1>1, <1>2 DEF AzureObservations
  <2>2. QED
    BY <1>2, <2>1, ProducesOf, AzureFacts, OneWellFormed
<1>3. CASE collector \in {"azure.storage.accounts", "azure.storage.containers"}
  <2>1. {"key", "https", "shared"} \subseteq DOMAIN seen[t]
    BY <1>1, <1>3, KnownOfAzure
  <2>2. ThingConfigs(collector) = StorageAccountConfigs
    BY <1>3 DEF ThingConfigs
  <2>3. seen[t].key \in {"vault", "platform", "absent"}
    <3>1. PICK c \in StorageAccountConfigs : seen[t].key = c.key
      BY <1>1, <1>3, <2>1, <2>2, ValueOf
    <3>2. QED
      BY <3>1 DEF StorageAccountConfigs
  <2>4. seen[t].https \in TriStates
    <3>1. PICK c \in StorageAccountConfigs : seen[t].https = c.https
      BY <1>1, <1>3, <2>1, <2>2, ValueOf
    <3>2. QED
      BY <3>1 DEF StorageAccountConfigs
  <2>5. seen[t].shared \in TriStates
    <3>1. PICK c \in StorageAccountConfigs : seen[t].shared = c.shared
      BY <1>1, <1>3, <2>1, <2>2, ValueOf
    <3>2. QED
      BY <3>1 DEF StorageAccountConfigs
  <2>6. Typed(AccountStorageFacts(seen[t])) /\ Typed(ContainerFacts(seen[t]))
    BY <2>3, <2>4, <2>5, AzureFacts
  <2>7. CASE collector = "azure.storage.accounts"
    <3>1. Observed(t) = {Observation(0, "object_storage.account", AccountStorageFacts(seen[t]))}
      BY <1>1, <2>7 DEF AzureObservations
    <3>2. QED
      BY <2>6, <2>7, <3>1, ProducesOf, OneWellFormed
  <2>8. CASE collector = "azure.storage.containers"
    <3>1. Observed(t) \subseteq {Observation(0, "object_storage.bucket", ContainerFacts(seen[t]))}
      BY <1>1, <2>8 DEF AzureObservations, ContainerObservations
    <3>2. QED
      BY <2>6, <2>8, <3>1, ProducesOf, OneWellFormed
  <2>9. QED
    BY <1>3, <2>7, <2>8
<1>4. CASE collector = "azure.network.security_groups"
  <2> DEFINE parts == RuleParts(<<seen[t].rules1, seen[t].rules2>>)
  <2>1. Observed(t) = {Observation(i, RuleType(i), AzureFirewallFacts(parts[i])) : i \in DOMAIN parts}
    BY <1>1, <1>4 DEF AzureObservations
  <2> HIDE DEF parts
  <2>2. SUFFICES ASSUME NEW i \in DOMAIN parts
                 PROVE  WellFormed(Observation(i, RuleType(i), AzureFirewallFacts(parts[i])))
    BY <2>1
  <2>3. RuleType(i) \in Produces /\ Typed(AzureFirewallFacts(parts[i]))
    BY <1>4, ProducesOf, AzureFacts
  <2>4. QED
    BY <2>3, OneWellFormed
<1>5. CASE collector = "azure.authorization.role_assignments"
  <2>1. Observed(t) = {Observation(0, "identity.policy_binding", IdentityFacts)}
    BY <1>1, <1>5 DEF AzureObservations
  <2>2. QED
    BY <1>5, <2>1, ProducesOf, AzureFacts, OneWellFormed
<1>6. CASE collector = "azure.monitor.diagnostic_settings"
  <2> DEFINE settings == IF seen[t].settings = <<>> THEN <<FALSE>> ELSE seen[t].settings
  <2>1. Observed(t) = {Observation(i, "logging.diagnostic_setting", DiagnosticFacts(settings[i])) :
                         i \in DOMAIN settings}
    BY <1>1, <1>6 DEF AzureObservations, DiagnosticObservations
  <2> HIDE DEF settings
  <2>2. SUFFICES ASSUME NEW i \in DOMAIN settings
                 PROVE  WellFormed(Observation(i, "logging.diagnostic_setting",
                                               DiagnosticFacts(settings[i])))
    BY <2>1
  <2>3. QED
    BY <1>6, ProducesOf, AzureFacts, OneWellFormed
<1>7. CASE collector = "azure.keyvault.vaults"
  <2>1. Observed(t) = {Observation(0, "kms.vault", KeyVaultFacts(seen[t]))}
    BY <1>1, <1>7 DEF AzureObservations
  <2>2. PICK c \in ThingConfigs(collector) : seen[t].soft = c.soft
    BY <1>1, <1>7, KnownOfAzure, ValueOf
  <2>3. PICK d \in ThingConfigs(collector) : seen[t].purge = d.purge
    BY <1>1, <1>7, KnownOfAzure, ValueOf
  <2>4. seen[t].soft \in TriStates /\ seen[t].purge \in TriStates
    BY <1>7, <2>2, <2>3 DEF ThingConfigs
  <2>5. QED
    BY <1>7, <2>1, <2>4, ProducesOf, AzureFacts, OneWellFormed
<1>8. QED
  BY <1>2, <1>3, <1>4, <1>5, <1>6, <1>7 DEF AzureNames

LEMMA GcpWellFormed ==
  ASSUME Over, collector \in GcpNames, NEW t \in listed \cup {0}
  PROVE  \A o \in Observed(t) : WellFormed(o)
<1> DEFINE known == [i \in listed \cup {0} |-> seen[i]]
<1>1. Observed(t) = GcpObservations(collector, t, known) /\ (t # 0 => t \in listed)
      /\ known[t] = seen[t]
  BY ObservedOf
<1> HIDE DEF known
<1>2. CASE collector = "gcp.inventory.assets"
  <2>1. Observed(t) \subseteq {Observation(0, "account.scope", AccountFacts)}
    BY <1>1, <1>2 DEF GcpObservations
  <2>2. QED
    BY <1>2, <2>1, ProducesOf, GcpFacts, OneWellFormed
<1>3. CASE collector = "gcp.logging.audit_config"
  <2>1. Observed(t) = {Observation(0, "logging.audit_trail", AuditConfigFacts)}
    BY <1>1, <1>3 DEF GcpObservations
  <2>2. QED
    BY <1>3, <2>1, ProducesOf, GcpFacts, OneWellFormed
<1>4. CASE collector = "gcp.storage.buckets"
  <2>1. CASE t = 0
    BY <1>1, <1>4, <2>1 DEF GcpObservations
  <2>2. CASE t # 0
    <3>1. Observed(t) = {Observation(0, "object_storage.bucket", StorageBucketFacts(seen[t]))}
      BY <1>1, <1>4, <2>2 DEF GcpObservations
    <3>2. PICK c \in ThingConfigs(collector) : seen[t].uniform = c.uniform
      BY <1>1, <1>4, <2>2, KnownOfGcp, ValueOf
    <3>3. seen[t].uniform \in TriStates
      BY <1>4, <3>2 DEF ThingConfigs
    <3>4. QED
      BY <1>4, <3>1, <3>3, ProducesOf, GcpFacts, OneWellFormed
  <2>3. QED
    BY <2>1, <2>2
<1>5. CASE collector = "gcp.compute.firewalls"
  <2>1. \E type \in {"network.firewall_rule", "network.firewall_ruleset"} : \E rules :
          Observed(t) = {Observation(0, type, GcpFirewallFacts(rules))}
    BY <1>1, <1>5 DEF GcpObservations, FirewallObservations
  <2>2. QED
    BY <1>5, <2>1, ProducesOf, GcpFacts, OneWellFormed
<1>6. CASE collector = "gcp.iam.project_policy"
  <2>1. \/ Observed(t) = {Observation(0, "account.scope", AccountFacts)}
        \/ Observed(t) = {Observation(0, "identity.policy_binding", IdentityFacts)}
    BY <1>1, <1>6 DEF GcpObservations
  <2>2. QED
    BY <1>6, <2>1, ProducesOf, GcpFacts, OneWellFormed
<1>7. CASE collector = "gcp.kms.keys"
  <2>1. Observed(t) \subseteq {Observation(0, "kms.key", RotationFacts(seen[t]))}
    BY <1>1, <1>7 DEF GcpObservations, CryptoKeyObservations
  <2>2. QED
    BY <1>7, <2>1, ProducesOf, GcpFacts, OneWellFormed
<1>8. QED
  BY <1>2, <1>3, <1>4, <1>5, <1>6, <1>7 DEF GcpNames

LEMMA IbmWellFormed ==
  ASSUME Over, collector \in IbmNames, NEW t \in listed \cup {0}
  PROVE  \A o \in Observed(t) : WellFormed(o)
<1>1. Observed(t) = IbmObservations(collector, t, seen[t]) /\ (t # 0 => t \in listed)
  BY ObservedOf
<1>2. CASE collector = "ibm.inventory.resources"
  <2>1. Observed(t) \subseteq {Observation(0, "account.scope", AccountFacts)}
    BY <1>1, <1>2 DEF IbmObservations
  <2>2. QED
    BY <1>2, <2>1, ProducesOf, GcpFacts, OneWellFormed
<1>3. CASE collector = "ibm.cos.buckets"
  <2>1. Observed(t) \subseteq {Observation(0, "object_storage.bucket", CosBucketFacts(seen[t]))}
    BY <1>1, <1>3 DEF IbmObservations
  <2>2. QED
    BY <1>3, <2>1, ProducesOf, IbmFacts, OneWellFormed
<1>4. CASE collector \in {"ibm.vpc.security_groups", "ibm.vpc.network_acls"}
  <2> DEFINE parts == RuleParts(<<seen[t].rules1, seen[t].rules2>>)
  <2>1. Observed(t) \subseteq
          {Observation(i, RuleType(i), IbmFirewallFacts(parts[i])) : i \in DOMAIN parts}
    BY <1>1, <1>4 DEF IbmObservations
  <2> HIDE DEF parts
  <2>2. SUFFICES ASSUME NEW i \in DOMAIN parts
                 PROVE  WellFormed(Observation(i, RuleType(i), IbmFirewallFacts(parts[i])))
    BY <2>1
  <2>3. RuleType(i) \in Produces /\ Typed(IbmFirewallFacts(parts[i]))
    BY <1>4, ProducesOf, IbmFacts
  <2>4. QED
    BY <2>3, OneWellFormed
<1>5. CASE collector = "ibm.iam.policies"
  <2>1. Observed(t) \subseteq {Observation(0, "identity.policy_binding", IdentityFacts)}
    BY <1>1, <1>5 DEF IbmObservations
  <2>2. QED
    BY <1>5, <2>1, ProducesOf, GcpFacts, OneWellFormed
<1>6. CASE collector = "ibm.iam.identity"
  <2>1. CASE t = 0
    <3>1. Observed(t) = {Observation(0, "account.scope", AccountSettingsFacts(seen[t]))}
      BY <1>1, <1>6, <2>1 DEF IbmObservations
    <3>2. QED
      BY <1>6, <3>1, ProducesOf, IbmFacts, OneWellFormed
  <2>2. CASE t # 0
    <3>1. Observed(t) = {Observation(0, "identity.principal", ServiceIdFacts(seen[t]))}
      BY <1>1, <1>6, <2>2 DEF IbmObservations
    <3>2. ASSUME "keys1" \in DOMAIN seen[t] PROVE seen[t].keys1 \in SUBSET AccessKeys
      <4>1. PICK c \in ThingConfigs(collector) : seen[t].keys1 = c.keys1
        BY <1>1, <1>6, <2>2, <3>2, ValueOf
      <4>2. QED
        BY <1>6, <4>1 DEF ThingConfigs
    <3>3. ASSUME "keys2" \in DOMAIN seen[t] PROVE seen[t].keys2 \in SUBSET AccessKeys
      <4>1. PICK c \in ThingConfigs(collector) : seen[t].keys2 = c.keys2
        BY <1>1, <1>6, <2>2, <3>3, ValueOf
      <4>2. QED
        BY <1>6, <4>1 DEF ThingConfigs
    <3>4. Typed(ServiceIdFacts(seen[t]))
      BY <3>2, <3>3, OldestServiceAge
    <3>5. QED
      BY <1>6, <3>1, <3>4, ProducesOf, OneWellFormed
  <2>3. QED
    BY <2>1, <2>2
<1>7. CASE collector = "ibm.iam.identity.users"
  <2>1. Observed(t) \subseteq {Observation(0, "identity.principal", UserMfaFacts(seen[t]))}
    BY <1>1, <1>7 DEF IbmObservations
  <2>2. QED
    BY <1>7, <2>1, ProducesOf, IbmFacts, OneWellFormed
<1>8. QED
  BY <1>2, <1>3, <1>4, <1>5, <1>6, <1>7 DEF IbmNames

\* A collection runs, or it is complete, or it was given up.
Outcomes == outcome \in {"running", "complete", "missing"}

LEMMA OutcomesHold == Spec => []Outcomes
<1>1. Init => Outcomes
  BY DEF Init, Outcomes
<1>2. Outcomes /\ [Next]_vars => Outcomes'
  <2>1. SUFFICES ASSUME Outcomes, [Next]_vars PROVE Outcomes'
    OBVIOUS
  <2>2. ASSUME NEW rest, Advance(rest) PROVE Outcomes'
    BY <2>2 DEF Advance, Done, Outcomes
  <2>3. CASE SweepAll \/ ListPage \/ \E t \in Things : Skip(t) \/ Answered(t)
    BY <2>2, <2>3 DEF SweepAll, ListPage, Skip, Answered
  <2>4. CASE \E t \in Things : NotFound(t)
    BY <2>2, <2>4 DEF NotFound, Outcomes
  <2>5. CASE Reconfigure \/ Create \/ Delete \/ UNCHANGED vars
    BY <2>1, <2>5 DEF Reconfigure, Create, Delete, Becomes, Outcomes, vars
  <2>6. QED
    BY <2>1, <2>3, <2>4, <2>5 DEF Next
<1>3. QED
  BY <1>1, <1>2, PTL DEF Spec

LEMMA TypesHold ==
  ASSUME Outcomes, Ground, Knowing
  PROVE  TypeOK
<1>1. listed \subseteq Things /\ world \in past
  BY DEF Ground, IInv, Accountable, Configured
<1>2. changes \in 0..MaxChanges
  BY DEF Knowing, FewChanges
<1>3. ASSUME Complete, NEW t \in listed \cup {0}, NEW o \in Observed(t) PROVE WellFormed(o)
  <2>1. Over
    BY <1>3 DEF Over
  <2>2. collector \in AwsNames \cup AzureNames \cup GcpNames \cup IbmNames
    BY <2>1, NothingLeft, SubjectsAssumption DEF collector
  <2>3. QED
    BY <1>3, <2>1, <2>2, AwsWellFormed, AzureWellFormed, GcpWellFormed, IbmWellFormed
<1>4. QED
  BY <1>1, <1>2, <1>3 DEF TypeOK, Outcomes, WellFormed, Typed

\* What a collection reports is of the types its collector may produce, and
\* its facts are values of the fact models.
THEOREM CollectionsAreTyped == Spec => []TypeOK
  BY KnowledgeIsGrounded, OutcomesHold, TypesHold, PTL
=============================================================================
