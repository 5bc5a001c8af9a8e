---------------------------- MODULE CloudFetchers ----------------------------
(* One Fetch of one fetcher of AWS, Azure, GCP or a node of Kubernetes; or *)
(* what runs before all of them, the construction of a beater, or instead  *)
(* of them, the report of a vulnerability.                                 *)
EXTENDS AwsFetchers, AzureInventory, GcpInventory, NodeFetchers, Benchmarks, ScanReport

CONSTANTS Account,
          MaxOdd   \* at most so many calls fail or answer "unset" in one Fetch

ASSUME OddAssumption == MaxOdd \in Nat

VARIABLES sent, state

vars == <<home, fails, unset, task, reportVars, scanVars, sent, state>>
world == <<home, fails, unset, task>>

Fetchers == DOMAIN AwsCalls \cup DOMAIN AzureCalls \cup DOMAIN GcpCalls \cup DOMAIN NodeCalls
            \cup DOMAIN BenchmarkCalls \cup DOMAIN ScanCalls

Calls ==
  [k \in Fetchers |->
     CASE k \in DOMAIN AwsCalls -> AwsCalls[k]
       [] k \in DOMAIN AzureCalls -> AzureCalls[k]
       [] k \in DOMAIN GcpCalls -> GcpCalls[k]
       [] k \in DOMAIN NodeCalls -> NodeCalls[k]
       [] k \in DOMAIN BenchmarkCalls -> BenchmarkCalls[k]
       [] k \in DOMAIN ScanCalls -> ScanCalls[k]]

(* Fields of an earlier answer: never an error of their own.               *)
Fields == {"RootDates", "MfaActive", "ReportRow", "TrailBucket", "LogGroup", "LogGroupName",
           "SeventhPart", "PodImage", "Ingress", "Asset", "IamPolicy", "DnsPolicy", "DnsLogging", "AncestorsChain", "UsedForActivityLogs",
           "Required", "DoubleStar"} \cup BatchTypes \cup BenchmarkFields

Ops(calls) == {c[1] : c \in calls}

(* Calls that have nothing to say but what they list.                      *)
Lists == {"Regions", "ListBuckets", "GetBucketLocation", "DescribeNetworkAcls",
          "DescribeSecurityGroups", "DescribeVpcs", "DescribeDBInstances", "ListKeys",
          "PasswordPolicy", "ListUsers", "GetUserPolicy", "ListPolicies", "GetPolicy", "PolicyDocument",
          "PolicyRoles", "GetBucketAcl", "TrailStatus", "RecorderStatus", "Pods", "Services",
          "DescribeTrails", "DescribeRepositories", "DescribeLoadBalancers",
          "ListResources", "ListIamPolicies", "ListDnsPolicies", "ProjectName",
          "OrganizationName", "Query", "Databases", "ListFS", "ReadStat", "ReadCmdLine", "Walk",
          "Stat"}
         \cup ((UNION {Ops(BenchmarkCalls[b]) : b \in DOMAIN BenchmarkCalls}) \ BenchmarkFields) \cup ScanOps

Init ==
  /\ home \in Region
  /\ task \in Fetchers
  /\ task \notin DOMAIN AwsCalls => home = DefaultRegion
  /\ \E odd \in [1..MaxOdd -> Calls[task]] :
       /\ fails \in SUBSET {odd[i] : i \in {i \in 1..MaxOdd : odd[i][1] \notin Fields}}
       /\ unset \in SUBSET {odd[i] : i \in {i \in 1..MaxOdd : odd[i][1] \notin Lists}}
  /\ IF task = "iam" THEN AskForReport ELSE NoReport
  /\ IF task = "scan" THEN vul \in Vulnerabilities /\ shown = NothingShown ELSE NoScan
  /\ sent = {} /\ state = "fetching"

ReadReport == GetCredentialReport /\ UNCHANGED <<world, scanVars, sent, state>>

Fetch ==
  /\ state = "fetching" /\ ReportRead
  /\ state' = "done"
  /\ CASE task \in DOMAIN AwsCalls -> sent' = AwsSends
       [] task \in DOMAIN AzureCalls -> sent' = AzureSends
       [] task \in DOMAIN GcpCalls -> sent' \in GcpSends
       [] task \in DOMAIN NodeCalls -> sent' \in NodeSends
       [] task \in DOMAIN BenchmarkCalls -> sent' = BenchmarkSends
       [] task = "scan" -> sent' = ScanSends
  /\ IF task = "scan" THEN GenerateEvent ELSE UNCHANGED scanVars
  /\ UNCHANGED <<world, reportVars>>

Next == ReadReport \/ Fetch

Spec == Init /\ [][Next]_vars

-----------------------------------------------------------------------------
(* Every fetcher of this run, and that of Kubernetes' API (KubeFetcher),   *)
(* belongs to the benchmarks that should have it.                          *)
OfBenchmark ==
  CASE task = "cis_aws" -> When(Has("SingleAccount"), DOMAIN AwsCalls \ {"ecr", "elb"})
    [] task = "cis_eks" -> DOMAIN NodeCalls \cup {"kube"} \cup When(Has("AwsCredentials"), {"ecr", "elb"})
    [] task = "cis_k8s" -> DOMAIN NodeCalls \cup {"kube"}
    [] task = "cis_gcp" -> DOMAIN GcpCalls \ When(Has("SingleAccount"), {"gcp_logging", "gcp_policies"})
    [] task = "cis_azure" -> DOMAIN AzureCalls
    [] task = "vuln_mgmt" -> {}

BenchmarkExists == {<<"benchmark", Global>>} \cup ({"fetcher"} \X {<<Whole, key>> : key \in OfBenchmark})

Shown ==
  CASE task \in DOMAIN AwsCalls -> {e \in AwsExists : ~AwsHidden(e[1], e[2])}
    [] task \in DOMAIN AzureCalls -> {e \in AzureExists : ~AzureHidden(e[1], e[2])}
    [] task \in DOMAIN GcpCalls -> {e \in GcpExists : ~GcpHidden(e[1], e[2])}
    [] task \in DOMAIN NodeCalls -> {e \in NodeExists : ~NodeHidden(e[1], e[2])}
    [] task \in DOMAIN BenchmarkCalls -> IF BenchmarkHidden THEN {} ELSE BenchmarkExists
    [] task = "scan" -> {<<"vulnerability", Global>>}

(* Fetches that one failure may end anywhere: a network of GCP came        *)
(* without its fields and has a DNS policy, a process ended meanwhile.     *)
Interrupted == (task = "gcp_assets" /\ NilFields) \/ (task = "process" /\ Ended # {})

(* A beater is built with all of its fetchers, or not at all: it is lost   *)
(* to a step that had to succeed, and to no other.  In the same way a      *)
(* cycle reports of the account exactly what no failed call had to hide:   *)
(* a failure in one region, of one detail, of one listing does not spread, *)
(* a region without a client loses only its own resources, but for the     *)
(* services asked through DefaultRegion, and nothing is made up.  Only     *)
(* what is Interrupted may lose other resources too.                       *)
LossIsLocal ==
  state = "done" =>
    LET found == {<<a.type, a.at>> : a \in sent}
    IN IF Interrupted THEN found \subseteq Shown ELSE found = Shown

(* Where a failed call reads as "there is none", as nil and the empty      *)
(* answer look alike to the rules, and what fails for that: the call       *)
(* itself, the listing it is a part of, or that of the places to ask.      *)
Blurred == {"GetPublicAccessBlock", "AccountPublicAccessBlock", "GetBucketPolicy",
            "GetBucketLogging", "MFADevices", "InlinePolicies", "GetUserPolicy", "AttachedPolicies",
            "EventSelectors", "Subscriptions", "SecurityRules", "AncestorPolicy", "ConfigFile", "Owner",
            "Group"}

Places(ops) == {c \in fails \cup unset : c[1] \in ops}
UnreadFor(op, s) ==
  CASE op \in Blurred -> {<<op, s>>} \cap fails
    [] op = "Asset" -> Call({"ListResources"}, {Group(s[2])}) \cap fails
    [] op = "IamPolicy" -> Call({"ListIamPolicies"}, {Group(s[2])}) \cap fails
    [] op = "DnsPolicy" -> Places({"ListDnsPolicies"})
    [] op = "UsedForActivityLogs" -> Places({"Query", "AncestorsChain", "DiagnosticSettings"})
    [] op \in Services -> Places({"Query", op})
    [] op \in BatchTypes -> Places({"Query"})
    [] OTHER -> {}

(* A failed call is no finding: what a resource tells the rules is true,   *)
(* or it says nothing.  Only the details that UnreadFor names turn a       *)
(* failure into "none", and none turns it into a setting.                  *)
TellsTruth ==
  \A a \in sent : \A t \in a.told :
    \/ t[3] \in {"nil", Truth(t[1], t[2])}
    \/ /\ t[3] = "unset"
       /\ \/ UnreadFor(t[1], t[2]) # {}
          \/ /\ t[1] \in Blurred
             /\ \E p \in {"s3", "sns", "cloudtrail"} : t[2][1] \notin NewMultiRegionClients(p)

(* Which resources share their ID, of one account or of two accounts of an *)
(* organization (or nodes of clusters), and no others do: the policies of  *)
(* AWS itself are the same in every account; accounts whose fetchers point *)
(* to one identity (AwsOrg) share the IDs made from it; in a cluster its   *)
(* repositories all have one ID, as have its load balancers; so have       *)
(* processes whose PID and start time only differ in where one ends, and a *)
(* file sent once for each pattern that lists it.                          *)
ByPointer == {"config", "monitoring", "pwd-policy", "certificates", "analyzers"}
OfCluster == {"repo", "elb"}

Id(x, p, a) ==
  CASE task \in DOMAIN NodeCalls \/ a.type \in OfCluster -> GetIdInCluster(x, a)
    [] task \in DOMAIN AwsCalls /\ a.type \notin OfCluster -> AwsId(x, p, a)
    [] task \in DOMAIN AzureCalls -> AzureId(x, a)
    [] task \in DOMAIN GcpCalls -> GcpId(x, a)

SharedInPlace(a, b) ==
  \/ a = b
  \/ a.type \in OfCluster
  \/ a.type = "process" /\ ProcessId(a.at) = ProcessId(b.at)
  \/ a.type = "file" /\ a.at[1] # b.at[1] /\ Path[a.at] = Path[b.at]

SameId(x, p, a, y, q, b) ==
  CASE a.type \in ByPointer -> a = b /\ p = q
    [] OwnedByAws(a) -> a = b
    [] OTHER -> x = y /\ SharedInPlace(a, b)

UniqueIds ==
  task \notin DOMAIN BenchmarkCalls \cup {"scan"} =>
    \A a, b \in sent : \A x, y, p, q \in Account :
      Id(x, p, a) = Id(y, q, b) <=> SameId(x, p, a, y, q, b)

(* The credential report is asked for a bounded number of times, and users *)
(* are reported from the last answer only.  Once it is waited for, it is   *)
(* given up only when it was asked for as often as it may be, or when what *)
(* came does not parse.                                                    *)
ReportBounded ==
  /\ gets <= MaxRetries + 2
  /\ report = "ready" <=> last = "ok"
  /\ report = "failed" /\ retries > 0 => gets = MaxRetries + 2 \/ last = "garbled"

(* The score and the version of CVSS that an event shows are looked up one *)
(* by one.  Counting are the sources that count: the data source, else     *)
(* NVD, else whichever rates.  The two are of one generation of CVSS in    *)
(* every event exactly when all that these sources show, of scores as of   *)
(* vectors, is of that generation; otherwise, as when one source has a     *)
(* score without its vector, or two random ones rate differently, some     *)
(* event of the same vulnerability shows a score of one and the version of *)
(* another.                                                                *)
Counting ==
  CASE vul.DataSource \in Sources -> {vul.DataSource}
    [] vul.DataSource \notin Sources /\ NVD \in Sources -> {NVD}
    [] OTHER -> Sources

Latest(s, v3, v2) ==
  CASE v3 \in vul.CVSS[s] -> "3"
    [] v3 \notin vul.CVSS[s] /\ v2 \in vul.CVSS[s] -> "2.0"
    [] OTHER -> ""

Generations ==
  {Latest(s, "V3Score", "V2Score") : s \in Counting} \cup {Latest(s, "V3Vector", "V2Vector") : s \in Counting}

OfScore(base) == CASE base = NoValue -> "" [] base # NoValue /\ base[2] = "V3Score" -> "3" [] OTHER -> "2.0"

CvssAgrees ==
  task = "scan" /\ state = "done" =>
    IF \A g, h \in Generations : g = h
    THEN OfScore(shown.base) = shown.version /\ Generations \subseteq {shown.version}
    ELSE \E base \in GetCVSSScore, version \in GetCVSSVersion : OfScore(base) # version
=============================================================================
