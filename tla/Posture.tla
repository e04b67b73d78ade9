------------------------------ MODULE Posture ------------------------------
(***************************************************************************)
(* What the policies mean, said of a configuration and not of facts: whether *)
(* a thing of a world is known to be "good" or "bad", or neither ("open").  *)
(* Written from the titles of the catalog and the providers' meaning of     *)
(* their settings, not from the collectors.                                *)
(***************************************************************************)
EXTENDS Providers

Judge(good, bad) == IF good THEN "good" ELSE IF bad THEN "bad" ELSE "open"

\* A value that may be missing.
Wanted(value, wish) == Judge(value = wish, value \in {"yes", "no"} \ {wish})

(***************************************************************************)
(* A rule that lacks something stands for all rules that have it.           *)
(***************************************************************************)
Filled(value, missing, values) == IF value = missing THEN values ELSE {value}

Completion(r, d, a, s, p) ==
  [r EXCEPT !.direction = d, !.access = a, !.source = s, !.ports = p]

Completions(r) ==
  {Completion(r, d, a, s, p) :
     d \in Filled(r.direction, "absent", {"in", "out"}),
     a \in Filled(r.access, "absent", {"allow", "deny"}),
     s \in Filled(r.source, "absent", {"world", "private"}),
     p \in Filled(r.ports, "odd", {"any", "none"})}

Admin     == {22, 3389}
Datastore == {1433, 1521, 3306, 5432, 6379, 27017}

\* The protocols that carry what a policy is about: administration and data
\* stores are reached over TCP, a port may be one of UDP.
Carriers(p) == IF p = "NET-002" THEN {"all", "tcp", "udp"} ELSE {"all", "tcp"}

Reaches(r, p) ==
  CASE p = "NET-001" -> Overlaps(r, Admin)
    [] p = "NET-002" -> r.low <= 1 /\ r.high = 65535
    [] p = "NET-003" -> Overlaps(r, Datastore)

Exposes(r, p) ==
  /\ r.direction = "in" /\ r.access = "allow" /\ r.source = "world"
  /\ r.protocol \in Carriers(p)
  /\ r.ports = "any" \/ (r.ports = "range" /\ Reaches(r, p))

RulesTruth(rules, p) ==
  Judge(\A r \in rules : \A c \in Completions(r) : ~Exposes(c, p),
        \E r \in rules : \A c \in Completions(r) : Exposes(c, p))

\* The rules of a thing or, for a part, the rule that is the part.
RulesOf(k, t, part, w) ==
  CASE k = "gcp.compute.firewalls" /\ t = 0 -> {w[i].rule : i \in DOMAIN w \ {0}}
    [] k = "gcp.compute.firewalls" /\ t # 0 -> {w[t].rule}
    [] k # "gcp.compute.firewalls" /\ part = 0 -> w[t].rules1 \cup w[t].rules2
    [] k # "gcp.compute.firewalls" /\ part = 1 -> w[t].rules1
    [] k # "gcp.compute.firewalls" /\ part = 2 -> w[t].rules2

(***************************************************************************)
(* Who may read or write what is in a bucket.                              *)
(***************************************************************************)
PublicTruth(k, c, kind) ==
  CASE k = "aws.s3.buckets" ->
         Judge(c.block = "all" \/ c.policy \cap {kind, "all", "unreadable"} = {},
               "unreadable" \notin c.policy /\ c.policy \cap {kind, "all"} # {})
    [] k = "azure.storage.containers" ->
         Judge(kind = "write" \/ c.access = "none", c.access \in {"blob", "container"})
    [] k = "gcp.storage.buckets" ->
         LET roles == IF kind = "read" THEN {"viewer", "admin"} ELSE {"creator", "admin"}
         IN Judge(c.pap = "enforced" \/ c.iam \cap (roles \cup {"absent"}) = {},
                  "absent" \notin c.iam)
    [] k = "ibm.cos.buckets" ->
         LET told == c.acl \cap {"absent", "malformed"} = {}
             granted == c.acl \cap {kind, "full"} # {}
         IN Judge(told /\ ~granted /\ c.public = "no",
                  \/ told /\ granted
                  \/ "unreadable" \notin c.policy /\ c.policy \cap {kind, "all"} # {})

EncryptionTruth(k, c) ==
  CASE k = "aws.s3.buckets" ->
         Judge("own_kms" \in c.encryption, c.encryption \cap {"absent", "aes", "aws_kms"} # {})
    [] k = "azure.storage.containers" -> Judge(c.key = "vault", c.key = "platform")
    [] k = "gcp.storage.buckets" -> Judge(c.cmek, TRUE)

\* Keys that are in use and over 90 days old.  At IBM every key is in use.
KeysTruth(k, keys) ==
  LET used == {j \in keys : k = "aws.iam.principals" => j.active}
  IN IF \E j \in used : j.age = NoAge THEN "open"
     ELSE Judge(\A j \in used : j.age <= 90, TRUE)

LogTruth(k, c, part) ==
  IF k = "azure.monitor.diagnostic_settings"
  THEN Judge(part \in DOMAIN c.settings /\ c.settings[part],
             IF c.settings = <<>> THEN part = 1 ELSE part \in DOMAIN c.settings)
  ELSE IF part = 0 THEN Wanted(c.logging, "yes") ELSE "open"
-----------------------------------------------------------------------------
TruthOfThing(k, p, c) ==
  CASE p = "STOR-001" -> PublicTruth(k, c, "read")
    [] p = "STOR-002" -> PublicTruth(k, c, "write")
    [] p = "STOR-003" -> EncryptionTruth(k, c)
    [] p = "STOR-004" ->
         Judge(IF k = "aws.s3.buckets" THEN c.logging ELSE c.log, TRUE)
    [] p = "STOR-005" -> IF k = "aws.s3.buckets"
                         THEN Judge("tls" \in c.policy, "unreadable" \notin c.policy)
                         ELSE Wanted(c.https, "yes")
    [] p = "IAM-001" /\ "root_mfa" \in DOMAIN c -> Wanted(c.root_mfa, "yes")
    [] p = "IAM-001" /\ "mfa" \in DOMAIN c -> Judge(c.mfa, TRUE)
    [] p = "IAM-001" /\ "status" \in DOMAIN c -> Judge(c.status = "on", c.status = "off")
    [] p = "IAM-002" /\ "keys" \in DOMAIN c -> KeysTruth(k, c.keys)
    [] p = "IAM-002" /\ "keys1" \in DOMAIN c -> KeysTruth(k, c.keys1 \cup c.keys2)
    [] p = "KMS-001" /\ k = "aws.kms.keys" ->
         IF c.supports = "yes" THEN Wanted(c.rotation, "yes") ELSE "open"
    [] p = "KMS-001" /\ k = "gcp.kms.keys" ->
         Judge(c.purpose = "symmetric" /\ c.rotation, c.purpose = "symmetric")
    [] p = "AWS-S3-001" -> Judge(c.block = "all", c.block \in {"absent", "some"})
    [] p = "AWS-IAM-001" /\ "root_keys" \in DOMAIN c -> Wanted(c.root_keys, "no")
    [] p = "AWS-IAM-002" /\ "password_policy" \in DOMAIN c ->
         Judge(c.password_policy = "strong", c.password_policy \in {"absent", "weak"})
    [] p = "AWS-CT-001" -> Wanted(c.validation, "yes")
    [] p = "AZ-STOR-001" -> Wanted(c.shared, "no")
    [] p = "AZ-KV-001" -> Wanted(c.soft, "yes")
    [] p = "AZ-KV-002" -> Wanted(c.purge, "yes")
    [] p = "GCP-STOR-001" -> Wanted(c.uniform, "yes")
    [] p = "GCP-STOR-002" -> Judge(c.pap = "enforced", TRUE)
    [] p = "IBM-IAM-001" /\ "mfa" \in DOMAIN c -> Judge(c.mfa = "on", c.mfa = "off")
    [] OTHER -> "open"

\* The truth of policy p about a part of thing t of world w, for collector k.
Truth(k, p, t, part, w) ==
  CASE p \in {"NET-001", "NET-002", "NET-003"} ->
         IF IF k = "gcp.compute.firewalls" THEN part = 0 ELSE t # 0
         THEN RulesTruth(RulesOf(k, t, part, w), p) ELSE "open"
    [] p = "LOG-001" /\ DOMAIN w[t] \cap {"logging", "settings"} # {} -> LogTruth(k, w[t], part)
    [] p \notin {"NET-001", "NET-002", "NET-003", "LOG-001"} /\ part = 0 /\ DOMAIN w[t] # {} ->
         TruthOfThing(k, p, w[t])
    [] OTHER -> "open"
=============================================================================
