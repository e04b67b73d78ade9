-------------------------- MODULE AzureCollectors --------------------------
(***************************************************************************)
(* The collectors of the Azure adapter.  Most read all they tell from one   *)
(* listing; containers are listed per storage account and diagnostic       *)
(* settings per resource.  A value an answer lacks is "unknown".           *)
(***************************************************************************)
EXTENDS Providers

\* _location_allowed: what lies outside the allow-list of the connection is
\* listed and then passed over.
LocationAllowed(s) == s.here

Inventory == Lister("azure", {"here"})

InventoryFacts == AccountFacts

\* _account_storage_facts: "key" is "absent" without encryption settings,
\* "vault" or "platform" for the source of the key
AccountStorageFacts(s) ==
  [public_read_access |-> "unknown", public_write_access |-> "no",
   encryption_at_rest |-> CASE s.key = "vault"    -> "customer_managed"
                            [] s.key = "platform" -> "provider_managed"
                            [] s.key = "absent"   -> "unknown",
   access_logging_enabled |-> "unknown", tls_required |-> s.https,
   allow_shared_key_access |-> s.shared]

StorageAccounts == Lister("azure", {"here", "key", "https", "shared"})

\* An account of one container, which may have "gone".
StorageContainers ==
  [StorageAccounts EXCEPT !.each = <<Call("blob_containers.list", {"access"})>>]

ContainerFacts(s) ==
  [AccountStorageFacts(s) EXCEPT !.public_read_access = Is(s.access \in {"blob", "container"})]

\* Bug: a container is reported under the type of its account.
ContainerObservationsAsAccounts(s) ==
  {Observation(0, "object_storage.account", ContainerFacts(s))}

ContainerObservations(s) ==
  IF s.access = "gone" THEN {}
  ELSE {Observation(0, "object_storage.bucket", ContainerFacts(s))}
-----------------------------------------------------------------------------
AzureAdminPorts     == {22, 3389}
AzureDatastorePorts == {1433, 1521, 3306, 5432, 6379, 27017}

NetworkSecurityGroups == Lister("azure", {"here", "rules1", "rules2"})

\* _rule_port_ranges
AzureOpens(rule, ports) ==
  \/ rule.ports = "any"
  \/ rule.low = 0 /\ rule.high = 65535
  \/ Overlaps(rule, ports)

\* _rule_posture: what rules a rule out comes before what is not known of it
AzureRulePosture(rule, ports) ==
  IF rule.direction = "out" \/ rule.access = "deny" THEN "no"
  ELSE IF "absent" \in {rule.direction, rule.access, rule.source} THEN "unknown"
  ELSE IF rule.source # "world" THEN "no"
  ELSE IF rule.ports = "odd" THEN "unknown"
  ELSE Is(AzureOpens(rule, ports))

AzureFirewallFacts(rules) ==
  LET Any(ports) == AnyOf({AzureRulePosture(r, ports) : r \in rules})
  IN [unrestricted_admin_ingress |-> Any(AzureAdminPorts),
      unrestricted_all_ports |-> Any({}),
      unrestricted_datastore_ingress |-> Any(AzureDatastorePorts)]
-----------------------------------------------------------------------------
\* The definitions of roles only name the roles of assignments.
RoleAssignments ==
  [Lister("azure", {}) EXCEPT !.before = <<Call("role_definitions.list", {})>>]

\* A resource and the log switches of its settings; without a setting there
\* is one observation that says so.
DiagnosticSettings ==
  [Lister("azure", {"here"}) EXCEPT !.each = <<Call("diagnostic_settings.list", {"settings"})>>]

\* _diagnostic_enabled
DiagnosticFacts(enabled) ==
  [audit_logging_enabled |-> Is(enabled), destination_public |-> "unknown"]

DiagnosticObservations(s) ==
  LET settings == IF s.settings = <<>> THEN <<FALSE>> ELSE s.settings
  IN {Observation(i, "logging.diagnostic_setting", DiagnosticFacts(settings[i])) :
        i \in DOMAIN settings}

KeyVaults == Lister("azure", {"here", "soft", "purge"})

KeyVaultFacts(s) ==
  [rotation_enabled |-> "unknown", supports_rotation |-> "unknown",
   soft_delete_enabled |-> s.soft, purge_protection_enabled |-> s.purge]
-----------------------------------------------------------------------------
AzureNames ==
  {"azure.inventory.resources", "azure.storage.accounts", "azure.storage.containers",
   "azure.network.security_groups", "azure.authorization.role_assignments",
   "azure.monitor.diagnostic_settings", "azure.keyvault.vaults"}

AzureProgram(k) ==
  CASE k = "azure.inventory.resources"            -> Inventory
    [] k = "azure.storage.accounts"               -> StorageAccounts
    [] k = "azure.storage.containers"             -> StorageContainers
    [] k = "azure.network.security_groups"        -> NetworkSecurityGroups
    [] k = "azure.authorization.role_assignments" -> RoleAssignments
    [] k = "azure.monitor.diagnostic_settings"    -> DiagnosticSettings
    [] k = "azure.keyvault.vaults"                -> KeyVaults

AzureObservations(k, s) ==
  CASE k = "azure.inventory.resources" -> {Observation(0, "account.scope", InventoryFacts)}
    [] k = "azure.storage.accounts" ->
         {Observation(0, "object_storage.account", AccountStorageFacts(s))}
    [] k = "azure.storage.containers" -> ContainerObservations(s)
    [] k = "azure.network.security_groups" ->
         LET parts == RuleParts(<<s.rules1, s.rules2>>)
         IN {Observation(i, RuleType(i), AzureFirewallFacts(parts[i])) : i \in DOMAIN parts}
    [] k = "azure.authorization.role_assignments" ->
         {Observation(0, "identity.policy_binding", IdentityFacts)}
    [] k = "azure.monitor.diagnostic_settings" -> DiagnosticObservations(s)
    [] k = "azure.keyvault.vaults" -> {Observation(0, "kms.vault", KeyVaultFacts(s))}
=============================================================================
