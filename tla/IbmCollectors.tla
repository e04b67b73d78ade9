--------------------------- MODULE IbmCollectors ---------------------------
(***************************************************************************)
(* The collectors of the IBM adapter.  The ACL of a bucket is the set of    *)
(* permissions it grants to everybody; a grant may be "malformed", and an   *)
(* answer without grants is {"absent"}.  The policy of a bucket is the set  *)
(* of kinds of statements that let everybody "read", "write" or do "all"    *)
(* ("guarded" is the latter under a condition), or "unreadable"; without a  *)
(* policy it is empty.                                                     *)
(***************************************************************************)
EXTENDS Providers, FiniteSetsExt

IbmInventory ==
  [Lister("ibm", {}) EXCEPT !.after = <<Call("list_resource_instances", {})>>]

\* _acl_access: without grants nothing is granted
AclAccess(acl, permissions) ==
  TriState("malformed" \in acl, acl \cap (permissions \cup {"full"}) # {})

\* _policy_access: conditions are not looked at
PolicyAccess(policy, kind) ==
  TriState("unreadable" \in policy, policy \cap {kind, "all", "guarded"} # {})

\* The status of a policy overrides what it seems to say if it is not public,
\* and leaves open what it does not seem to say if it is.
Settled(access, public) ==
  CASE public = "no"  -> "no"
    [] public = "yes" -> IF access = "no" THEN "unknown" ELSE access
    [] OTHER          -> "unknown"

CosBuckets ==
  [Lister("ibm", {}) EXCEPT !.paged = FALSE,
     !.each = <<Call("get_bucket_acl", {"acl"}), Call("get_bucket_policy", {"policy"}),
                Call("get_bucket_policy_status", {"public"})>>]

\* All buckets are said to be encrypted by the provider.
CosBucketFacts(s) ==
  LET Public(permissions, kind) ==   \* _merge
        AnyOf({AclAccess(s.acl, permissions), Settled(PolicyAccess(s.policy, kind), s.public)})
  IN [public_read_access |-> Public({"read"}, "read"),
      public_write_access |-> Public({"write", "write_acp"}, "write"),
      encryption_at_rest |-> "provider_managed",
      access_logging_enabled |-> "unknown", tls_required |-> "unknown"]
-----------------------------------------------------------------------------
IbmAdminPorts     == {22, 3389}
IbmDatastorePorts == {1433, 1521, 2049, 2379, 2380, 27017, 3306, 5432, 6379, 9200, 9300}

\* The rules of a group or an ACL come in pages.
IbmSecurityGroups ==
  [Lister("ibm", {}) EXCEPT !.each =
     <<Call("list_security_group_rules", {"rules1"}),
       Call("list_security_group_rules", {"rules2"}),
       Call("list_security_group_targets", {})>>]

NetworkAcls ==
  [Lister("ibm", {}) EXCEPT !.each =
     <<Call("list_network_acl_rules", {"rules1"}),
       Call("list_network_acl_rules", {"rules2"})>>]

\* _ports: what cannot be read, and what ICMP has instead, is every port
IbmPorts(rule) ==
  IF rule.protocol \in {"tcp", "udp"} /\ rule.ports = "range"
  THEN [low |-> Max({1, rule.low}), high |-> Min({65535, rule.high})]
  ELSE [low |-> 1, high |-> 65535]

\* _rule_posture: only a network ACL has rules that deny
IbmOpens(rule, ports) ==
  LET range == IbmPorts(rule)
  IN /\ rule.access # "deny" /\ rule.direction # "out" /\ rule.source = "world"
     /\ (range.low <= 1 /\ range.high >= 65535) \/ Overlaps(range, ports)

IbmFirewallFacts(rules) ==
  LET Any(ports) == Is(\E r \in rules : IbmOpens(r, ports))
  IN [unrestricted_admin_ingress |-> Any(IbmAdminPorts),
      unrestricted_all_ports |-> Any({}),
      unrestricted_datastore_ingress |-> Any(IbmDatastorePorts)]
-----------------------------------------------------------------------------
\* _tri_state of iam.py, of "on" and "off" for the words it knows: a value
\* that is missing is the text "none", one of the words for no.
IbmTri(value) ==
  CASE value = "on"               -> "yes"
    [] value \in {"off", "missing"} -> "no"
    [] OTHER                      -> "unknown"

IamPolicies == [Lister("ibm", {}) EXCEPT !.before = <<Call("list_roles", {})>>]

\* All keys are listed, in pages, before the service IDs they belong to.
IamIdentity ==
  [Lister("ibm", {}) EXCEPT !.before = <<Call("get_account_settings", {"mfa"}),
                                         Call("list_api_keys", {"keys1"}),
                                         Call("list_api_keys", {"keys2"})>>]

AccountSettingsFacts(s) ==
  [audit_logging_enabled |-> "unknown", mfa_enforced |-> IbmTri(s.mfa),
   account_mfa_enforced |-> IbmTri(s.mfa)]

\* The age of the oldest key whose date can be read, active or not.
ServiceIdFacts(s) ==
  LET keys == Got(s, "keys1", {}) \cup Got(s, "keys2", {})
      ages == {k.age : k \in keys} \ {NoAge}
  IN [mfa_enabled |-> "unknown",
      credential_age_days |-> IF ages = {} THEN NoAge ELSE Max(ages)]

\* The report of the users' MFA, the second half of the same collector: the
\* status of a user is asked for if the report does not tell it.
IamUsers ==
  [Lister("ibm", {"report"}) EXCEPT !.paged = FALSE,
     !.each = <<Call("get_mfa_status", {"status"})>>]

UserMfaFacts(s) ==
  [mfa_enabled |-> IbmTri(IF IbmTri(s.report) = "unknown" THEN s.status ELSE s.report),
   credential_age_days |-> NoAge]
-----------------------------------------------------------------------------
IbmNames ==
  {"ibm.inventory.resources", "ibm.cos.buckets", "ibm.vpc.security_groups",
   "ibm.vpc.network_acls", "ibm.iam.policies", "ibm.iam.identity", "ibm.iam.identity.users"}

IbmProgram(k) ==
  CASE k = "ibm.inventory.resources" -> IbmInventory
    [] k = "ibm.cos.buckets"         -> CosBuckets
    [] k = "ibm.vpc.security_groups" -> IbmSecurityGroups
    [] k = "ibm.vpc.network_acls"    -> NetworkAcls
    [] k = "ibm.iam.policies"        -> IamPolicies
    [] k = "ibm.iam.identity"        -> IamIdentity
    [] k = "ibm.iam.identity.users"  -> IamUsers

IbmObservations(k, t, s) ==
  CASE k = "ibm.inventory.resources" ->
         IF t = 0 THEN {} ELSE {Observation(0, "account.scope", AccountFacts)}
    [] k = "ibm.cos.buckets" ->
         IF t = 0 THEN {} ELSE {Observation(0, "object_storage.bucket", CosBucketFacts(s))}
    [] k \in {"ibm.vpc.security_groups", "ibm.vpc.network_acls"} ->
         IF t = 0 THEN {}
         ELSE LET parts == RuleParts(<<s.rules1, s.rules2>>)
              IN {Observation(i, RuleType(i), IbmFirewallFacts(parts[i])) : i \in DOMAIN parts}
    [] k = "ibm.iam.policies" ->
         IF t = 0 THEN {} ELSE {Observation(0, "identity.policy_binding", IdentityFacts)}
    [] k = "ibm.iam.identity" ->
         IF t = 0 THEN {Observation(0, "account.scope", AccountSettingsFacts(s))}
         ELSE {Observation(0, "identity.principal", ServiceIdFacts(s))}
    [] k = "ibm.iam.identity.users" ->
         IF t = 0 THEN {} ELSE {Observation(0, "identity.principal", UserMfaFacts(s))}
=============================================================================
