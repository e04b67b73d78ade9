---------------------------- MODULE MCCollectors ----------------------------
\* Accounts of at most two things for TLC.  One of them and the account have
\* all configurations that the followed policy tells apart, the other has a
\* plain one.
EXTENDS Collectors, SequencesExt

CONSTANT Forms    \* how answers may lack a value: "missing", "shapeless", "absent"

Plain(c) ==
  CASE c = "aws.s3.buckets" -> [block |-> "all", policy |-> {}, public |-> FALSE,
                                encryption |-> {"aes"}, logging |-> TRUE]
    [] c = "aws.ec2.security_groups" -> [rules1 |-> {}, rules2 |-> {}]
    [] c = "aws.iam.principals" -> [mfa |-> TRUE, keys |-> {}]
    [] c = "aws.cloudtrail.trails" -> [here |-> TRUE, logging |-> "yes", validation |-> "yes"]
    [] c = "aws.kms.keys" -> [supports |-> "yes", rotation |-> "yes"]
    [] c \in {"azure.storage.accounts", "azure.storage.containers"} ->
         [here |-> TRUE, key |-> "vault", https |-> "yes", shared |-> "no", access |-> "none"]
    [] c = "azure.network.security_groups" -> [here |-> TRUE, rules1 |-> {}, rules2 |-> {}]
    [] c = "azure.monitor.diagnostic_settings" -> [here |-> TRUE, settings |-> <<TRUE>>]
    [] c = "azure.keyvault.vaults" -> [here |-> TRUE, soft |-> "yes", purge |-> "yes"]
    [] c = "azure.inventory.resources" -> [here |-> TRUE]
    [] c = "gcp.storage.buckets" -> [pap |-> "inherited", uniform |-> "yes", cmek |-> TRUE,
                                     log |-> TRUE, iam |-> {}]
    [] c = "gcp.compute.firewalls" -> [rule |-> Rule("world", 443, 443)]
    [] c = "gcp.kms.keys" -> [purpose |-> "symmetric", rotation |-> TRUE]
    [] c = "ibm.cos.buckets" -> [acl |-> {}, policy |-> {}, public |-> "no"]
    [] c \in {"ibm.vpc.security_groups", "ibm.vpc.network_acls"} ->
         [rules1 |-> {}, rules2 |-> {}]
    [] c = "ibm.iam.identity" -> [keys1 |-> {}, keys2 |-> {}]
    [] c = "ibm.iam.identity.users" -> [report |-> "on", status |-> "on"]
    [] OTHER -> <<>>

PlainAccount(c) ==
  CASE c = "aws.s3.account" -> [block |-> "all"]
    [] c = "aws.iam.principals" ->
         [root_keys |-> "no", root_mfa |-> "yes", password_policy |-> "strong"]
    [] c = "ibm.iam.identity" -> [mfa |-> "on"]
    [] OTHER -> <<>>

Safe == Rule("world", 443, 443)
Ssh  == Rule("world", 22, 22)
Sql  == Rule("world", 3306, 3306)
All  == [Safe EXCEPT !.protocol = "all", !.ports = "any"]
Tcp  == [All EXCEPT !.protocol = "tcp"]
Udp  == [All EXCEPT !.protocol = "udp"]
Ping == [All EXCEPT !.protocol = "icmp"]
Dns  == [Rule("world", 53, 53) EXCEPT !.protocol = "udp"]
Lan  == [All EXCEPT !.source = "private"]
Out  == [All EXCEPT !.direction = "out"]
Deny == [All EXCEPT !.access = "deny"]
Unclear ==
  {[All EXCEPT !.direction = "absent"], [Out EXCEPT !.access = "absent"],
   [All EXCEPT !.source = "absent"], [All EXCEPT !.ports = "odd"],
   [Deny EXCEPT !.source = "absent"], Rule("world", 0, 65535), Tcp}

Opening(p) == CASE p = "NET-001" -> {Ssh, All}
                [] p = "NET-002" -> {All}
                [] p = "NET-003" -> {Sql, All}

Harmless(c) ==
  IF c \in {"ibm.vpc.security_groups", "ibm.vpc.network_acls"}
  THEN {Dns, Out, [Ping EXCEPT !.source = "private"]} ELSE {Safe, Dns, Lan, Out}

Rules(c, p) ==
  Harmless(c) \cup Opening(p)
    \cup (IF c = "gcp.compute.firewalls" THEN {Tcp, Udp, Ping} ELSE {})
    \cup (IF c \in {"azure.network.security_groups", "gcp.compute.firewalls",
                    "ibm.vpc.network_acls"} THEN {Deny} ELSE {})
    \cup (IF c = "azure.network.security_groups" THEN Unclear ELSE {})
    \cup (IF c \in {"ibm.vpc.security_groups", "ibm.vpc.network_acls"}
          THEN {Rule("world", 0, 65535)} ELSE {})

Key(active, age) == [active |-> active, age |-> age]

Values(c, p, aspect) ==
  CASE aspect = "here" -> BOOLEAN
    [] aspect = "block" -> {"absent", "all", "odd"}
                             \cup (IF p = "AWS-S3-001" THEN {"some"} ELSE {})
                             \cup (Forms \cap {"shapeless"})
    [] aspect = "policy" ->
        (CASE p = "STOR-001" -> {{}, {"read"}, {"write"}, {"guarded"}, {"all", "unreadable"}}
           [] p = "STOR-002" -> {{}, {"all"}, {"guarded"}, {"unreadable"}}
           [] p = "STOR-005" -> {{}, {"tls"}, {"tls", "read"}, {"unreadable"}})
    [] aspect = "encryption" -> {{"absent"}, {"aes"}, {"aws_kms"}, {"own_kms"},
                                 {"own_kms", "aes"}, {"odd"}}
    [] aspect = "logging" -> IF c = "aws.s3.buckets" THEN BOOLEAN ELSE TriStates
    [] aspect \in {"validation", "https", "shared", "soft", "purge", "uniform", "root_keys",
                   "root_mfa"} -> TriStates
    [] aspect \in {"log", "cmek"} -> BOOLEAN
    [] aspect = "supports" -> TriStates
    [] aspect = "rotation" -> IF c = "gcp.kms.keys" THEN BOOLEAN ELSE TriStates
    [] aspect = "purpose" -> {"symmetric", "asymmetric", "gone"}
    [] aspect = "password_policy" -> {"absent", "weak", "strong", "odd"}
    [] aspect = "mfa" -> IF c = "aws.iam.principals" THEN BOOLEAN
                         ELSE {"on", "off", "other"} \cup (Forms \cap {"missing"})
    [] aspect = "keys" ->
         {{}, {Key(TRUE, 90)}, {Key(TRUE, 91)}, {Key(TRUE, 1), Key(TRUE, 91)},
          {Key(FALSE, 91), Key(TRUE, 1)}, {Key(TRUE, NoAge)},
          {Key(TRUE, NoAge), Key(TRUE, 91)}}
    [] aspect = "keys1" -> {{}, {Key(TRUE, 90)}, {Key(FALSE, 91), Key(TRUE, 1)}}
    [] aspect = "keys2" -> {{}, {Key(TRUE, 1)}, {Key(TRUE, 91)}}
    [] aspect = "key" -> {"vault", "platform", "absent"}
    [] aspect = "access" -> {"none", "blob", "container", "gone"}
    [] aspect = "rules1" -> {{}} \cup {{r} : r \in Rules(c, p)}
    [] aspect = "rules2" ->
         {{}, {All}} \cup (IF c = "azure.network.security_groups" THEN {}
                          ELSE {{r} : r \in Opening(p)})
    [] aspect = "rule" -> Rules(c, p)
    [] aspect = "settings" -> {<<>>, <<TRUE>>, <<FALSE>>, <<FALSE, TRUE>>}
    [] aspect = "pap" -> {"enforced", "inherited"}
    [] aspect = "iam" -> {{}, {"viewer"}, {"admin"}, {"other"}}
                           \cup (IF p = "STOR-002" THEN {{"creator"}} ELSE {})
    [] aspect = "acl" -> {{}, {"read"}, {"write"}, {"full"}, {"full", "malformed"}}
                           \cup (IF "absent" \in Forms THEN {{"absent"}} ELSE {})
    [] aspect = "report" -> {"on", "off", "other"} \cup (Forms \cap {"missing"})
    [] aspect = "status" -> {"on", "off"}

\* The aspects of a configuration that a policy depends on.
Of(c, policies, aspects) == [s \in {c} \X policies |-> aspects]

Net == {"NET-001", "NET-002", "NET-003"}

Varied ==
  Of("aws.s3.buckets", {"STOR-001", "STOR-002"}, <<"block", "policy">>) @@
  Of("aws.s3.buckets", {"STOR-003"}, <<"encryption">>) @@
  Of("aws.s3.buckets", {"STOR-004"}, <<"logging">>) @@
  Of("aws.s3.buckets", {"STOR-005"}, <<"policy">>) @@
  Of("aws.s3.account", {"AWS-S3-001"}, <<"block">>) @@
  Of("aws.ec2.security_groups", Net, <<"rules1", "rules2">>) @@
  Of("aws.iam.principals", {"IAM-001"}, <<"mfa", "root_mfa">>) @@
  Of("aws.iam.principals", {"IAM-002"}, <<"keys">>) @@
  Of("aws.iam.principals", {"AWS-IAM-001"}, <<"root_keys">>) @@
  Of("aws.iam.principals", {"AWS-IAM-002"}, <<"password_policy">>) @@
  Of("aws.cloudtrail.trails", {"LOG-001"}, <<"here", "logging">>) @@
  Of("aws.cloudtrail.trails", {"AWS-CT-001"}, <<"validation">>) @@
  Of("aws.kms.keys", {"KMS-001"}, <<"supports", "rotation">>) @@
  Of("azure.storage.containers", {"STOR-001", "STOR-002"}, <<"here", "access">>) @@
  Of("azure.storage.containers", {"STOR-003"}, <<"access", "key">>) @@
  Of("azure.storage.containers", {"STOR-005"}, <<"access", "https">>) @@
  Of("azure.storage.containers", {"AZ-STOR-001"}, <<"access", "shared">>) @@
  Of("azure.network.security_groups", Net, <<"rules1", "rules2">>) @@
  Of("azure.monitor.diagnostic_settings", {"LOG-001"}, <<"here", "settings">>) @@
  Of("azure.keyvault.vaults", {"AZ-KV-001"}, <<"soft">>) @@
  Of("azure.keyvault.vaults", {"AZ-KV-002"}, <<"purge">>) @@
  Of("gcp.storage.buckets", {"STOR-001", "STOR-002"}, <<"pap", "iam">>) @@
  Of("gcp.storage.buckets", {"STOR-003"}, <<"cmek">>) @@
  Of("gcp.storage.buckets", {"STOR-004"}, <<"log">>) @@
  Of("gcp.storage.buckets", {"GCP-STOR-001"}, <<"uniform">>) @@
  Of("gcp.storage.buckets", {"GCP-STOR-002"}, <<"pap">>) @@
  Of("gcp.compute.firewalls", Net, <<"rule">>) @@
  Of("gcp.kms.keys", {"KMS-001"}, <<"purpose", "rotation">>) @@
  Of("ibm.cos.buckets", {"STOR-001", "STOR-002"}, <<"acl", "policy">>) @@
  Of("ibm.vpc.security_groups", Net, <<"rules1", "rules2">>) @@
  Of("ibm.vpc.network_acls", Net, <<"rules1", "rules2">>) @@
  Of("ibm.iam.identity", {"IBM-IAM-001"}, <<"mfa">>) @@
  Of("ibm.iam.identity", {"IAM-002"}, <<"keys1", "keys2">>) @@
  Of("ibm.iam.identity.users", {"IAM-001"}, <<"status", "report">>)

\* Collectors that read nothing a policy is about.
Unread ==
  {"azure.inventory.resources", "azure.storage.accounts",
   "azure.authorization.role_assignments", "gcp.inventory.assets", "gcp.iam.project_policy",
   "gcp.logging.audit_config", "ibm.inventory.resources", "ibm.iam.policies"} \X {"LOG-001"}

AspectsOf(s) == IF s \in DOMAIN Varied THEN Varied[s] ELSE <<>>

WithStatus(c) ==
  LET everybody == c.policy \cap {"read", "write", "all"} # {}
  IN CASE {"public", "block"} \subseteq DOMAIN c -> [c EXCEPT !.public = everybody]
       [] {"public", "acl"} \subseteq DOMAIN c   -> [c EXCEPT !.public = Is(everybody)]
       [] OTHER                                   -> c

\* The second thing is plain, or one of few where a policy judges all together.
Varies(s, t, c) ==
  t = 2 /\ s[1] = "gcp.compute.firewalls" => c.rule \in {Safe} \cup Opening(s[2])

MCConfigs(s, t) ==
  LET base == IF t = 0 THEN PlainAccount(s[1]) ELSE Plain(s[1])
      aspects == IF t = 2 /\ s[1] # "gcp.compute.firewalls" THEN <<>>
                 ELSE SelectSeq(AspectsOf(s), LAMBDA a : a \in DOMAIN base)
      Vary(cs, a) == {[c EXCEPT ![a] = x] : c \in cs, x \in Values(s[1], s[2], a)}
  IN {c \in {WithStatus(v) : v \in FoldLeft(Vary, {base}, aspects)} :
        Varies(s, t, c) /\ (t = 0 \/ Consistent(s[1], c))}

MainSubjects == DOMAIN Varied \cup Unread

\* Collectors that make something of what an answer lacks.
LackingSubjects ==
  {<<"aws.s3.account", "AWS-S3-001">>, <<"ibm.iam.identity", "IBM-IAM-001">>,
   <<"ibm.cos.buckets", "STOR-001">>}
=============================================================================
