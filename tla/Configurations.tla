--------------------------- MODULE Configurations ---------------------------
(***************************************************************************)
(* What the things of an account, and the account itself, may be            *)
(* configured to, as far as the collectors read it.  The values are those   *)
(* the adapters tell apart, with the ones for what an answer may lack.     *)
(***************************************************************************)
EXTENDS Providers

\* A rule may be unreadable in part ("absent", "odd").
Directions  == {"in", "out", "absent"}
Accesses    == {"allow", "deny", "absent"}
Sources     == {"world", "private", "absent"}
Protocols   == {"all", "tcp", "udp", "icmp"}
PortKinds   == {"any", "range", "odd"}
PortNumbers == 0..65535

FirewallRules ==
  [direction : Directions, access : Accesses, source : Sources,
   protocol : Protocols, ports : PortKinds, low : PortNumbers, high : PortNumbers]

\* A "shapeless" answer lacks the mapping that holds all the values.
Blocks == {"absent", "some", "all", "odd", "shapeless"}

Statements == {"read", "write", "all", "guarded", "tls", "unreadable"}

\* Rules of a default encryption; without one, "absent" alone.
EncryptionRules == (SUBSET {"aes", "aws_kms", "own_kms", "odd"}) \cup {{"absent"}}

AccessKeys == [active : BOOLEAN, age : NoAge..MaxAge]

\* Answers about MFA: IBM has many words for each.
MfaWords == {"on", "off", "other"}

StorageAccountConfigs ==
  [here : BOOLEAN, key : {"vault", "platform", "absent"}, https : TriStates,
   shared : TriStates, access : {"none", "blob", "container", "gone"}]

RuleSetConfigs == [rules1 : SUBSET FirewallRules, rules2 : SUBSET FirewallRules]

\* A thing a collector lists, before what the provider derives.
ThingConfigs(k) ==
  CASE k = "aws.s3.buckets" ->
         [block : Blocks, policy : SUBSET Statements, public : BOOLEAN,
          encryption : EncryptionRules, logging : BOOLEAN]
    [] k = "aws.iam.principals" -> [mfa : BOOLEAN, keys : SUBSET AccessKeys]
    [] k = "aws.cloudtrail.trails" ->
         [here : BOOLEAN, logging : TriStates, validation : TriStates]
    [] k = "aws.kms.keys" -> [supports : TriStates, rotation : TriStates]
    [] k \in {"azure.storage.accounts", "azure.storage.containers"} -> StorageAccountConfigs
    [] k = "azure.network.security_groups" ->
         [here : BOOLEAN, rules1 : SUBSET FirewallRules, rules2 : SUBSET FirewallRules]
    [] k = "azure.monitor.diagnostic_settings" -> [here : BOOLEAN, settings : Seq(BOOLEAN)]
    [] k = "azure.keyvault.vaults" -> [here : BOOLEAN, soft : TriStates, purge : TriStates]
    [] k = "azure.inventory.resources" -> [here : BOOLEAN]
    [] k = "gcp.storage.buckets" ->
         [pap : {"enforced", "inherited"}, uniform : TriStates, cmek : BOOLEAN,
          log : BOOLEAN,
          iam : (SUBSET {"viewer", "admin", "creator", "other"}) \cup {{"absent"}}]
    [] k = "gcp.compute.firewalls" -> [rule : FirewallRules]
    [] k = "gcp.kms.keys" ->
         [purpose : {"symmetric", "asymmetric", "other", "gone"}, rotation : BOOLEAN]
    [] k = "ibm.cos.buckets" ->
         [acl : (SUBSET {"read", "write", "write_acp", "full", "malformed"})
                  \cup {{"absent"}},
          policy : SUBSET Statements, public : TriStates]
    [] k \in {"aws.ec2.security_groups", "ibm.vpc.security_groups", "ibm.vpc.network_acls"} ->
         RuleSetConfigs
    [] k = "ibm.iam.identity" -> [keys1 : SUBSET AccessKeys, keys2 : SUBSET AccessKeys]
    [] k = "ibm.iam.identity.users" -> [report : MfaWords \cup {"missing"}, status : MfaWords]
    [] OTHER -> {<<>>}

AccountConfigs(k) ==
  CASE k = "aws.s3.account" -> [block : Blocks]
    [] k = "aws.iam.principals" ->
         [root_keys : TriStates, root_mfa : TriStates,
          password_policy : {"absent", "weak", "strong", "odd", "shapeless"}]
    [] k = "ibm.iam.identity" -> [mfa : MfaWords \cup {"missing"}]
    [] OTHER -> {<<>>}

\* What a status of the provider says is what it is the status of: whether a
\* policy lets everybody in without a condition, whether a user has MFA.
Consistent(k, c) ==
  LET everybody == c.policy \cap {"read", "write", "all"} # {}
  IN CASE k = "aws.s3.buckets"         -> c.public = everybody
       [] k = "ibm.cos.buckets"        -> c.public = Is(everybody)
       [] k = "ibm.iam.identity.users" -> c.report \in {"on", "off"} => c.report = c.status
       [] OTHER                        -> TRUE
=============================================================================
