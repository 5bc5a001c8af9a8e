---------------------------- MODULE GcpInventory ----------------------------
(* The inventory provider of GCP (providers/gcplib/inventory) and the      *)
(* fetchers that read it (fetching/fetchers/gcp).  A place is a project;   *)
(* what belongs to a folder or to the organization is at Whole.  Assets of *)
(* a kind are listed together: First is the name of the networks, and of   *)
(* the log metrics; the other names stand for the other kinds.             *)
EXTENDS CloudCalls

CONSTANT First

ASSUME FirstAssumption == First \in Name

Others == Name \ {First}

Group(n) ==
  CASE task = "gcp_assets" -> <<Whole, IF n = First THEN "compute" ELSE "storage">>
    [] task = "gcp_monitoring" -> <<Whole, IF n = First THEN "LogMetric" ELSE "AlertPolicy">>
    [] OTHER -> <<Whole, task>>

(* Only log sinks are looked for above the projects.                       *)
Assets(N) ==
  {s \in Things \cup (IF task = "gcp_logging" THEN Globals ELSE {}) :
     s[2] \in N /\ Truth("Asset", s) = "set"}

-----------------------------------------------------------------------------
(* Display names: one that could not be read is cached as empty, for good. *)
GetEcsGcpCloudData(p) ==
  {<<"OrganizationName", Global, Says("OrganizationName", Global)>>}
  \cup IF p = Whole THEN {} ELSE {<<"ProjectName", Wide(p), Says("ProjectName", Wide(p))>>}
ExtendWithECS(p) == GetEcsGcpCloudData(p)

(* Page by page: an error discards the pages before it.                    *)
GetAllAssets(op, group) == ~Fails(op, group)

(* Two listings, of the resources and of the IAM policies, merged by name: *)
(* when one fails, the other is all there is of an asset.                  *)
MergeAssetContentType(n, resources, policies) ==
  {s \in Assets({n}) : resources \/ (policies /\ Truth("IamPolicy", s) = "set")}

ListAllAssetTypesByName(n) ==
  LET resources == GetAllAssets("ListResources", Group(n))
      policies == GetAllAssets("ListIamPolicies", Group(n))
  IN [s \in MergeAssetContentType(n, resources, policies) |->
        {<<"Resource", s, IF resources THEN "set" ELSE "nil">>,
         <<"IamPolicy", s, IF policies THEN Truth("IamPolicy", s) ELSE "unset">>}
        \cup ExtendWithECS(s[1])]

(* A network that came with its IAM policy only has no fields to add what  *)
(* the DNS policy that names it says.                                      *)
NilFields ==
  LET networks == ListAllAssetTypesByName(First)
  IN /\ ~Fails("ListDnsPolicies", Global)
     /\ \E s \in DOMAIN networks :
          <<"Resource", s, "nil">> \in networks[s] /\ Truth("DnsPolicy", s) = "set"

EnrichNetworkAssets(s) ==
  IF Fails("ListDnsPolicies", Global) \/ Truth("DnsPolicy", s) = "unset"
  THEN {<<"DnsPolicy", s, "unset">>}
  ELSE {<<"DnsPolicy", s, "set">>, <<"DnsLogging", s, Truth("DnsLogging", s)>>}

(* Assets by project; those above the projects are added to each, and a    *)
(* project without assets of its own is not reported.                      *)
GetAssetsByProject(listed) ==
  {Resource(task, Wide(p),
     {<<"Asset", s, IF s \in listed THEN "set" ELSE "unset">> : s \in Assets(Name) \cap (Within(p) \cup Globals)}
     \cup ExtendWithECS(p))
   : p \in {s[1] : s \in listed} \ {Whole}}

(* The types of assets differ: log metrics with alert policies, log sinks, *)
(* services.                                                               *)
ListByProject == GetAssetsByProject(UNION {DOMAIN ListAllAssetTypesByName(n) : n \in Name})
ListMonitoringAssets == ListByProject
ListLoggingAssets == ListByProject
ListServiceUsageAssets == ListByProject

(* An ancestor whose policy cannot be read is left out.                    *)
GetAncestorsAssets(a) == {<<"AncestorPolicy", a, Blur(Says("AncestorPolicy", a))>>}

ListProjectsAncestorsPolicies ==
  IF ~GetAllAssets("ListIamPolicies", Group(First)) THEN {}
  ELSE {Resource(task, Wide(p), (UNION {GetAncestorsAssets(a) : a \in Globals}) \cup ExtendWithECS(p))
        : p \in Place}

-----------------------------------------------------------------------------
(* The groups are listed in the random order of a map: a panic ends the    *)
(* fetch after some of them.                                               *)
GcpAssetsFetch ==
  LET networks == ListAllAssetTypesByName(First)
      compute == {Resource("asset", s, networks[s] \cup EnrichNetworkAssets(s)) : s \in DOMAIN networks}
      storage == UNION {LET listed == ListAllAssetTypesByName(n)
                        IN {Resource("asset", s, listed[s]) : s \in DOMAIN listed} : n \in Others}
  IN IF NilFields THEN {{}, storage} ELSE {compute \cup storage}

GcpMonitoringFetch == {ListMonitoringAssets}
GcpLogSinkFetch == {ListLoggingAssets}
GcpServiceUsageFetch == {ListServiceUsageAssets}
GcpPoliciesFetch == {ListProjectsAncestorsPolicies}

GcpSends ==
  CASE task = "gcp_assets" -> GcpAssetsFetch
    [] task = "gcp_monitoring" -> GcpMonitoringFetch
    [] task = "gcp_service_usage" -> GcpServiceUsageFetch
    [] task = "gcp_logging" -> GcpLogSinkFetch
    [] task = "gcp_policies" -> GcpPoliciesFetch

(* The asset's name, or else subtype and project.                          *)
ProjectAssetId(x, a) == <<a.type, x, a.at[1]>>
GcpId(x, a) == IF a.type = "asset" THEN <<"//", x, a.at>> ELSE ProjectAssetId(x, a)

-----------------------------------------------------------------------------
(* The calls of each fetcher, and what it should find.                     *)
GcpListings(S) ==
  Call({"ListResources", "ListIamPolicies"}, {<<Whole, g>> : g \in S})
  \cup Call({"ProjectName"}, Wides) \cup Call({"OrganizationName"}, {Global})
GcpThings == Call({"Asset", "IamPolicy"}, Things)

GcpCalls ==
  [gcp_assets |-> GcpListings({"compute", "storage"}) \cup GcpThings
      \cup Call({"ListDnsPolicies"}, {Global}) \cup Call({"DnsPolicy", "DnsLogging"}, Place \X {First}),
   gcp_monitoring |-> GcpListings({"LogMetric", "AlertPolicy"}) \cup GcpThings,
   gcp_service_usage |-> GcpListings({"gcp_service_usage"}) \cup GcpThings,
   gcp_logging |-> GcpListings({"gcp_logging"}) \cup GcpThings \cup Call({"Asset", "IamPolicy"}, Globals),
   gcp_policies |-> GcpListings({"gcp_policies"}) \cup Call({"AncestorPolicy"}, Globals)]

GcpExists ==
  CASE task = "gcp_assets" -> {"asset"} \X Assets(Name)
    [] task = "gcp_policies" -> {task} \X Wides
    [] OTHER -> {task} \X {Wide(s[1]) : s \in Assets(Name) \cap Things}

Unlisted(s) ==
  /\ Fails("ListResources", Group(s[2]))
  /\ Fails("ListIamPolicies", Group(s[2])) \/ Truth("IamPolicy", s) = "unset"

GcpHidden(type, s) ==
  CASE type = "asset" -> Unlisted(s)
    [] type = "gcp_policies" -> Fails("ListIamPolicies", Group(First))
    [] OTHER -> \A a \in Assets(Name) \cap Within(s[1]) : Unlisted(a)
=============================================================================
