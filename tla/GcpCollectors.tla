--------------------------- MODULE GcpCollectors ---------------------------
(***************************************************************************)
(* The collectors of the GCP adapter.  An IAM policy of a bucket is the set *)
(* of the roles it grants to everybody: "viewer" lets read, "admin" read    *)
(* and write, "creator" write, and what the collector does not know is      *)
(* "other".  A firewall rule is one rule here; the rules of a project have  *)
(* an observation of their own.                                            *)
(***************************************************************************)
EXTENDS Providers

GcpInventory == Lister("gcp", {})

\* _public_access: every public grant to write counts as one to read, and a
\* policy that lacks its bindings ("absent") as one without any
PublicRead(roles)  == roles \cap {"viewer", "admin", "creator"} # {}
PublicWrite(roles) == roles \cap {"admin", "creator"} # {}

StorageBuckets ==
  [Lister("gcp", {}) EXCEPT !.each =
     <<Call("reload", {"pap", "uniform", "cmek", "log"}), Call("get_iam_policy", {"iam"})>>]

\* The prevention of public access is "enforced" or "inherited".
StorageBucketFacts(s) ==
  LET Public(granted) == Is(granted /\ s.pap # "enforced")
  IN [public_read_access |-> Public(PublicRead(s.iam)),
      public_write_access |-> Public(PublicWrite(s.iam)),
      encryption_at_rest |-> IF s.cmek THEN "customer_managed" ELSE "provider_managed",
      access_logging_enabled |-> Is(s.log), tls_required |-> "unknown",
      uniform_bucket_level_access |-> s.uniform,
      public_access_prevention |-> Is(s.pap = "enforced")]
-----------------------------------------------------------------------------
GcpAdminPorts     == {22, 3389}
GcpDatastorePorts == {1433, 1521, 27017, 3306, 5432, 6379, 9200}

ComputeFirewalls == Lister("gcp", {"rule"})

\* _allowed_exposure, of a rule that allows one protocol: UDP without ports
\* counts as all ports (asked for by {}) and as no other
GcpExposes(rule, ports) ==
  /\ rule.direction # "out" /\ rule.access = "allow" /\ rule.source = "world"
  /\ \/ rule.protocol = "all"
     \/ rule.protocol = "tcp" /\ rule.ports = "any"
     \/ rule.protocol = "udp" /\ rule.ports = "any" /\ ports = {}
     \/ rule.protocol = "tcp" /\ rule.ports = "range" /\ Overlaps(rule, ports)

GcpFirewallFacts(rules) ==
  LET Any(ports) == Is(\E r \in rules : GcpExposes(r, ports))
  IN [unrestricted_admin_ingress |-> Any(GcpAdminPorts),
      unrestricted_all_ports |-> Any({}),
      unrestricted_datastore_ingress |-> Any(GcpDatastorePorts)]

\* The rules that were listed, each and together.
FirewallObservations(t, known) ==
  IF t # 0
  THEN {Observation(0, "network.firewall_rule", GcpFirewallFacts({known[t].rule}))}
  ELSE {Observation(0, "network.firewall_ruleset",
                    GcpFirewallFacts({known[i].rule : i \in DOMAIN known \ {0}}))}
-----------------------------------------------------------------------------
\* The bindings of the policy of the project are the things listed here.
ProjectIamPolicy == [Lister("gcp", {}) EXCEPT !.paged = FALSE]

AuditConfig == Reader("gcp", <<Call("get_iam_policy", {})>>)

AuditConfigFacts == [audit_logging_enabled |-> "unknown", destination_public |-> "unknown"]

\* A key ring of one key; it is "gone" if the ring is empty.
GcpKmsKeys ==
  [Lister("gcp", {}) EXCEPT !.each = <<Call("list_crypto_keys", {"purpose", "rotation"})>>]

\* _rotation_support: every purpose but the asymmetric ones, MAC and raw keys
\* and none at all among them, counts as one that supports rotation
RotationFacts(s) ==
  IF s.purpose = "asymmetric"
  THEN [supports_rotation |-> "no", rotation_enabled |-> "unknown"]
  ELSE [supports_rotation |-> "yes", rotation_enabled |-> Is(s.rotation)]

CryptoKeyObservations(s) ==
  IF s.purpose = "gone" THEN {} ELSE {Observation(0, "kms.key", RotationFacts(s))}
-----------------------------------------------------------------------------
GcpNames ==
  {"gcp.inventory.assets", "gcp.storage.buckets", "gcp.compute.firewalls",
   "gcp.iam.project_policy", "gcp.logging.audit_config", "gcp.kms.keys"}

GcpProgram(k) ==
  CASE k = "gcp.inventory.assets"     -> GcpInventory
    [] k = "gcp.storage.buckets"      -> StorageBuckets
    [] k = "gcp.compute.firewalls"    -> ComputeFirewalls
    [] k = "gcp.iam.project_policy"   -> ProjectIamPolicy
    [] k = "gcp.logging.audit_config" -> AuditConfig
    [] k = "gcp.kms.keys"             -> GcpKmsKeys

GcpObservations(k, t, known) ==
  CASE k = "gcp.inventory.assets" ->
         IF t = 0 THEN {} ELSE {Observation(0, "account.scope", AccountFacts)}
    [] k = "gcp.storage.buckets" ->
         IF t = 0 THEN {}
         ELSE {Observation(0, "object_storage.bucket", StorageBucketFacts(known[t]))}
    [] k = "gcp.compute.firewalls" -> FirewallObservations(t, known)
    [] k = "gcp.iam.project_policy" ->
         IF t = 0 THEN {Observation(0, "account.scope", AccountFacts)}
         ELSE {Observation(0, "identity.policy_binding", IdentityFacts)}
    [] k = "gcp.logging.audit_config" ->
         {Observation(0, "logging.audit_trail", AuditConfigFacts)}
    [] k = "gcp.kms.keys" -> IF t = 0 THEN {} ELSE CryptoKeyObservations(known[t])
=============================================================================
