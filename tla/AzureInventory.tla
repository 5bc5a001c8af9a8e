--------------------------- MODULE AzureInventory ---------------------------
(* The providers of Azure (providers/azurelib) and the fetchers that read  *)
(* them (fetching/fetchers/azure).  A place is a subscription.             *)
EXTENDS CloudCalls

(* ResourceGraphProvider: one query for all assets of a table.             *)
AssetGroup(type) == IF type = "role" THEN "authorizationresources" ELSE "resources"
QueryFails(group) == Fails("Query", <<Whole, group>>)
Listed(type) == IF QueryFails(AssetGroup(type)) THEN {} ELSE Things

(* governance.provider: a subscription without a chain of ancestors is     *)
(* skipped.  No answer: none of an earlier cycle either (CycleCache).      *)
NoSubscriptions == Fails("Query", <<Whole, "resourcecontainers">>)
GetSubscriptions ==
  IF NoSubscriptions THEN {} ELSE {p \in Place : Truth("AncestorsChain", Wide(p)) = "set"}

(* storageAccountProvider.getDiagnosticSettings of the subscriptions that  *)
(* are known: one failure hides them all.                                  *)
NoDiagnosticSettings ==
  NoSubscriptions \/ \E p \in GetSubscriptions : Fails("DiagnosticSettings", Wide(p))

-----------------------------------------------------------------------------
(* The enrichers.  What fails leaves the asset without the extension.      *)
AddUsedForActivityLogsFlag(s) ==
  {<<"UsedForActivityLogs", s,
     IF NoDiagnosticSettings \/ s[1] \notin GetSubscriptions THEN "unset"
     ELSE Truth("UsedForActivityLogs", s)>>}

(* Of all storage accounts or of none.                                     *)
OfAllAccounts(op, s) ==
  IF NoSubscriptions \/ \E a \in Things : Fails(op, a) THEN "nil" ELSE Truth(op, s)

ListStorageAccountBlobServices(s) == OfAllAccounts("BlobServices", s)
AddStorageAccountBlobServices(s) == {<<"BlobServices", s, ListStorageAccountBlobServices(s)>>}

(* No settings, no extension.                                              *)
Services == {"BlobSettings", "TableSettings", "QueueSettings"}
AddStorageAccountServicesDiagnosticSettings(s) ==
  {<<v, s, Blur(OfAllAccounts(v, s))>> : v \in Services}

StorageAccountEnricher(s) ==
  AddUsedForActivityLogsFlag(s) \cup AddStorageAccountBlobServices(s)
  \cup AddStorageAccountServicesDiagnosticSettings(s)

(* Rules of the security groups, by network interface.                     *)
VmNetworkSecurityGroupEnricher(s) == {<<"SecurityRules", s, Blur(Says("SecurityRules", s))>>}

ListSQLEncryptionProtector(s) == Says("EncryptionProtector", s)
GetSQLBlobAuditingPolicies(s) == Says("BlobAuditPolicy", s)

(* One database that cannot be read hides those of its server.             *)
Encryptions == {"MasterEncryption", "DatabaseEncryption"}
ListSQLTransparentDataEncryptions(e, s) ==
  IF Fails("Databases", s) \/ \E f \in Encryptions : Fails(f, s) THEN "nil" ELSE Truth(e, s)
EnrichTransparentDataEncryption(s) ==
  {<<e, s, ListSQLTransparentDataEncryptions(e, s)>> : e \in Encryptions}

SqlServerEnricher(s) ==
  {<<"EncryptionProtector", s, ListSQLEncryptionProtector(s)>>,
   <<"BlobAuditPolicy", s, GetSQLBlobAuditingPolicies(s)>>}
  \cup EnrichTransparentDataEncryption(s)

Enrich(type, s) ==
  CASE type = "storage" -> StorageAccountEnricher(s)
    [] type = "vm" -> VmNetworkSecurityGroupEnricher(s)
    [] type = "sql" -> SqlServerEnricher(s)
    [] OTHER -> {}

(* The subscription's identity, or the bare ID that the asset came with.   *)
CloudAccount(p) == {<<"Subscription", Wide(p), IF p \in GetSubscriptions THEN "set" ELSE "nil">>}

-----------------------------------------------------------------------------
AssetTypes == {"storage", "vm", "sql", "role", "nsg"}

AzureAssetsFetch ==
  UNION {{Resource(t, s, Enrich(t, s) \cup CloudAccount(s[1])) : s \in Listed(t)} : t \in AssetTypes}

(* A batch for each subscription and type, be it empty: as it is when the  *)
(* assets could not be listed.                                             *)
BatchTypes == {"activity-log-alert", "app-insights", "bastion"}
AzureBatchFetch ==
  {Resource(t, Wide(p),
     {<<t, Wide(p), Blur(IF QueryFails("resources") THEN "nil" ELSE Truth(t, Wide(p)))>>}
     \cup CloudAccount(p))
   : t \in BatchTypes, p \in GetSubscriptions}

AzureInsightsBatchFetch ==
  IF NoDiagnosticSettings THEN {}
  ELSE {Resource("diagnostic-settings", Wide(p),
          {<<"DiagnosticSettings", Wide(p), Truth("DiagnosticSettings", Wide(p))>>} \cup CloudAccount(p))
        : p \in GetSubscriptions}

AzureSends ==
  CASE task = "azure_assets" -> AzureAssetsFetch
    [] task = "azure_batch" -> AzureBatchFetch
    [] task = "azure_insights" -> AzureInsightsBatchFetch

(* Asset.Id, or else subtype and subscription.                             *)
AzureId(x, a) ==
  IF a.type \in AssetTypes THEN <<"/subscriptions", x, a.at, a.type>> ELSE <<a.type, x, a.at[1]>>

-----------------------------------------------------------------------------
(* The calls of each fetcher, and what it should find.                     *)
Queries(groups) ==
  Call({"Query"}, {<<Whole, g>> : g \in groups \cup {"resourcecontainers"}})
  \cup Call({"AncestorsChain"}, Wides)

AzureCalls ==
  [azure_assets |-> Queries({"resources", "authorizationresources"})
      \cup Call({"DiagnosticSettings"}, Wides)
      \cup Call({"UsedForActivityLogs", "BlobServices", "SecurityRules", "Databases",
                 "EncryptionProtector", "BlobAuditPolicy"} \cup Services \cup Encryptions, Things),
   azure_batch |-> Queries({"resources"}) \cup Call(BatchTypes, Wides),
   azure_insights |-> Queries({}) \cup Call({"DiagnosticSettings"}, Wides)]

AzureExists ==
  CASE task = "azure_assets" -> AssetTypes \X Things
    [] task = "azure_batch" -> BatchTypes \X Wides
    [] task = "azure_insights" -> {"diagnostic-settings"} \X Wides

Unknown(p) == Truth("AncestorsChain", Wide(p)) = "unset"

AzureHidden(type, s) ==
  IF type \in AssetTypes THEN Fails("Query", <<Whole, AssetGroup(type)>>)
  ELSE \/ Fails("Query", <<Whole, "resourcecontainers">>) \/ Unknown(s[1])
       \/ /\ type = "diagnostic-settings"
          /\ \E p \in Place : ~Unknown(p) /\ Fails("DiagnosticSettings", Wide(p))
=============================================================================
