----------------------------- MODULE Agreement -----------------------------
(***************************************************************************)
(* Collectors without the cases in which the code and the reference         *)
(* disagree although nothing changes.  What is excluded here is all they    *)
(* disagree about: for every other account, the verdicts are warranted.     *)
(***************************************************************************)
EXTENDS Collectors

\* The policies that read a fact of a collector.  A collector of which no
\* policy reads anything is followed by one policy that may apply to it.
Followed(k) ==
  CASE k = "aws.s3.buckets" -> StoragePolicies
    [] k = "aws.s3.account" -> {"AWS-S3-001"}
    [] k \in {"aws.ec2.security_groups", "azure.network.security_groups",
              "gcp.compute.firewalls", "ibm.vpc.security_groups", "ibm.vpc.network_acls"} ->
         NetworkPolicies
    [] k = "aws.iam.principals" -> {"IAM-001", "IAM-002", "AWS-IAM-001", "AWS-IAM-002"}
    [] k = "aws.cloudtrail.trails" -> {"LOG-001", "AWS-CT-001"}
    [] k \in {"aws.kms.keys", "gcp.kms.keys"} -> {"KMS-001"}
    [] k = "azure.storage.containers" ->
         {"STOR-001", "STOR-002", "STOR-003", "STOR-005", "AZ-STOR-001"}
    [] k = "azure.keyvault.vaults" -> {"AZ-KV-001", "AZ-KV-002"}
    [] k = "gcp.storage.buckets" ->
         {"STOR-001", "STOR-002", "STOR-003", "STOR-004", "GCP-STOR-001", "GCP-STOR-002"}
    [] k = "ibm.cos.buckets" -> {"STOR-001", "STOR-002"}
    [] k = "ibm.iam.identity" -> {"IBM-IAM-001", "IAM-002"}
    [] k = "ibm.iam.identity.users" -> {"IAM-001"}
    [] OTHER -> {"LOG-001"}

\* Ports some adapter takes for those of data stores and the others do not.
OwnDatastorePorts(k) ==
  CASE k = "aws.ec2.security_groups" -> {9200, 11211}
    [] k = "gcp.compute.firewalls"   -> {9200}
    [] k \in {"ibm.vpc.security_groups", "ibm.vpc.network_acls"} ->
         {2049, 2379, 2380, 9200, 9300}
    [] OTHER                         -> {}

\* A rule for all protocols has no ports, and at AWS a rule for one that has
\* ports names them.
AgreedForm(k, r) ==
  CASE k = "aws.ec2.security_groups" ->
         /\ r.protocol = "all" => r.ports = "any"
         /\ r.protocol \in {"tcp", "udp"} => r.ports # "any"
    [] k = "azure.network.security_groups" -> TRUE
    [] OTHER -> r.protocol = "all" => r.ports = "any"

\* Who does not look at protocols takes UDP, and some ICMP, for TCP.
AgreedProtocol(k, p, r) ==
  \/ r.protocol \in Carriers(p)
  \/ k = "gcp.compute.firewalls"
  \/ k = "aws.ec2.security_groups" /\ p = "NET-002"
  \/ ~(r.direction = "in" /\ r.access = "allow" /\ r.source = "world")
  \/ /\ r.protocol = "udp" /\ r.ports = "range"
     /\ ~Overlaps(r, Admin \cup Datastore \cup OwnDatastorePorts(k))

\* Only Azure says what it does when part of a rule is missing.  A range that
\* is "all ports" is one to some adapters and not to others.
AgreedRule(k, p, r) ==
  /\ k # "azure.network.security_groups" =>
       r.ports # "odd" /\ "absent" \notin {r.direction, r.access, r.source}
  /\ k = "aws.ec2.security_groups" => r.access = "allow"
  /\ AgreedForm(k, r)
  /\ AgreedProtocol(k, p, r)
  /\ r.ports = "range" =>
       /\ p = "NET-002" =>
            CASE k \in {"aws.ec2.security_groups", "gcp.compute.firewalls"} ->
                   ~(r.low <= 1 /\ r.high = 65535)
              [] k = "azure.network.security_groups" -> ~(r.low = 1 /\ r.high = 65535)
              [] OTHER                               -> TRUE
       /\ p = "NET-003" => Overlaps(r, Datastore) \/ ~Overlaps(r, OwnDatastorePorts(k))

Agreed(k, p, c) ==
  CASE k \in {"aws.ec2.security_groups", "azure.network.security_groups",
              "ibm.vpc.security_groups", "ibm.vpc.network_acls"} ->
         \A r \in c.rules1 \cup c.rules2 : AgreedRule(k, p, r)
    [] k = "gcp.compute.firewalls" -> AgreedRule(k, p, c.rule)
    [] k = "gcp.storage.buckets" /\ p = "STOR-001" -> c.iam \cap {"creator", "absent"} = {}
    [] k = "gcp.storage.buckets" /\ p = "STOR-002" -> "absent" \notin c.iam
    [] k = "gcp.kms.keys" -> c.purpose # "other"
    [] k = "ibm.cos.buckets" ->
         /\ c.acl \cap {"write_acp", "absent"} = {}
         /\ "guarded" \in c.policy => c.policy \cap {"read", "write"} = {}
    [] k = "ibm.iam.identity" /\ p = "IAM-002" ->
         \A key \in c.keys1 \cup c.keys2 : key.age # NoAge
    [] k = "ibm.iam.identity.users" -> c.report # "missing"
    [] OTHER -> TRUE

\* What an answer about the account lacks is taken for no by some adapters.
AgreedAccount(k, c) ==
  CASE k = "aws.s3.account"     -> c.block # "shapeless"
    [] k = "aws.iam.principals" -> c.password_policy # "shapeless"
    [] k = "ibm.iam.identity"   -> c.mfa # "missing"
    [] OTHER                    -> TRUE

ASSUME AgreementAssumption ==
  \A s \in Subjects :
    /\ s[2] \in Followed(s[1])
    /\ \A t \in Things : \A c \in Configs(s, t) : Agreed(s[1], s[2], c)
    /\ \A c \in Configs(s, 0) : AgreedAccount(s[1], c)
=============================================================================
