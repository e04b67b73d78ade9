------------------------------ MODULE Policies ------------------------------
(***************************************************************************)
(* The policy catalog and its engine.  Facts are a record; the ones of a    *)
(* provider (provider_specific.aws.validation_enabled) are fields like the  *)
(* others.  A policy reads one fact.                                       *)
(***************************************************************************)
EXTENDS Providers

Verdicts == {"pass", "fail", "not_applicable", "insufficient_data"}

Policy(providers, types, fact, predicate) ==
  [providers |-> providers, types |-> types, fact |-> fact, predicate |-> predicate]

Everywhere == {"aws", "azure", "gcp", "ibm"}
Buckets    == {"object_storage.bucket"}
Firewalls  == {"network.firewall_ruleset", "network.firewall_rule"}
Principals == {"identity.principal"}
Accounts   == {"account.scope"}
Logs       == {"logging.audit_trail", "logging.diagnostic_setting"}
Keys       == {"kms.key", "kms.vault"}

StoragePolicies ==
  {"STOR-001", "STOR-002", "STOR-003", "STOR-004", "STOR-005"}

StoragePolicy(p) ==
  CASE p = "STOR-001" -> Policy(Everywhere, Buckets, "public_read_access", "yes_is_fail")
    [] p = "STOR-002" -> Policy(Everywhere, Buckets, "public_write_access", "yes_is_fail")
    [] p = "STOR-003" -> Policy(Everywhere, Buckets, "encryption_at_rest", "not_customer_managed")
    [] p = "STOR-004" -> Policy(Everywhere, Buckets, "access_logging_enabled", "no_is_fail")
    [] p = "STOR-005" -> Policy(Everywhere, Buckets, "tls_required", "no_is_fail")

NetworkPolicies == {"NET-001", "NET-002", "NET-003"}

NetworkPolicy(p) ==
  CASE p = "NET-001" -> Policy(Everywhere, Firewalls, "unrestricted_admin_ingress", "yes_is_fail")
    [] p = "NET-002" -> Policy(Everywhere, Firewalls, "unrestricted_all_ports", "yes_is_fail")
    [] p = "NET-003" -> Policy(Everywhere, Firewalls, "unrestricted_datastore_ingress", "yes_is_fail")

OtherPolicies == {"IAM-001", "IAM-002", "LOG-001", "LOG-002", "KMS-001"}

OtherPolicy(p) ==
  CASE p = "IAM-001" -> Policy(Everywhere, Principals, "mfa_enabled", "no_is_fail")
    [] p = "IAM-002" -> Policy({"aws", "ibm"}, Principals, "credential_age_days", "age_over_90")
    [] p = "LOG-001" -> Policy({"aws", "azure", "gcp"}, Logs \cup Accounts,
                               "audit_logging_enabled", "no_is_fail")
    [] p = "LOG-002" -> Policy({"aws", "azure", "gcp"}, Logs, "destination_public", "yes_is_fail")
    [] p = "KMS-001" -> Policy({"aws", "azure", "gcp"}, Keys, "rotation_enabled", "no_is_fail")

ProviderPolicy(p) ==
  CASE p = "AWS-S3-001" -> Policy({"aws"}, Accounts, "block_public_access_all", "no_is_fail")
    [] p = "AWS-IAM-001" -> Policy({"aws"}, Principals, "root_access_keys_active", "yes_is_fail")
    [] p = "AWS-IAM-002" -> Policy({"aws"}, Principals, "password_policy_strong", "no_is_fail")
    [] p = "AWS-CT-001" -> Policy({"aws"}, Logs, "validation_enabled", "no_is_fail")
    [] p = "AZ-STOR-001" -> Policy({"azure"}, Buckets, "allow_shared_key_access", "yes_is_fail")
    [] p = "AZ-KV-001" -> Policy({"azure"}, Keys, "soft_delete_enabled", "no_is_fail")
    [] p = "AZ-KV-002" -> Policy({"azure"}, Keys, "purge_protection_enabled", "no_is_fail")
    [] p = "GCP-STOR-001" -> Policy({"gcp"}, Buckets, "uniform_bucket_level_access", "no_is_fail")
    [] p = "GCP-STOR-002" -> Policy({"gcp"}, Buckets, "public_access_prevention", "no_is_fail")
    [] p = "IBM-IAM-001" -> Policy({"ibm"}, Accounts, "account_mfa_enforced", "no_is_fail")

Catalog(p) ==
  CASE p \in StoragePolicies -> StoragePolicy(p)
    [] p \in NetworkPolicies -> NetworkPolicy(p)
    [] p \in OtherPolicies   -> OtherPolicy(p)
    [] OTHER                 -> ProviderPolicy(p)

Applies(p, provider, type) == provider \in p.providers /\ type \in p.types

\* _read, and the facts that are not known
Known(p, facts) ==
  /\ p.fact \in DOMAIN facts
  /\ facts[p.fact] # IF p.predicate = "age_over_90" THEN NoAge ELSE "unknown"

Violates(p, value) ==
  CASE p.predicate = "yes_is_fail"          -> value = "yes"
    [] p.predicate = "no_is_fail"           -> value = "no"
    [] p.predicate = "not_customer_managed" -> value # "customer_managed"
    [] p.predicate = "age_over_90"          -> value > 90

\* evaluate_policy
Evaluate(p, provider, type, facts) ==
  IF ~Applies(p, provider, type) THEN "not_applicable"
  ELSE IF ~Known(p, facts) THEN "insufficient_data"
  ELSE IF Violates(p, facts[p.fact]) THEN "fail" ELSE "pass"
=============================================================================
