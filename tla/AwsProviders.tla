---------------------------- MODULE AwsProviders ----------------------------
(* What the AWS providers of resources/providers answer to the fetchers.   *)
EXTENDS CloudCalls

CONSTANTS DefaultRegion,   \* awslib.DefaultRegion
          AwsManaged       \* the policies of AWS itself that the account attaches

ASSUME RegionAssumption == DefaultRegion \in Place

(* The root account and the policy of AWS go by names that no user and no  *)
(* policy of the account has: "<root_account>", an ARN of AWS itself.      *)
ASSUME NamesAssumption == {"root", "AWSSupportAccess"} \cap Name = {}

ASSUME ManagedAssumption == AwsManaged \subseteq Name

VARIABLE home   \* cfg.Region

Region == Place   \* the regions enabled for the account

Return(S) == [found |-> S, end |-> "ok"]
Failed == [found |-> {}, end |-> "err"]
Panics == [found |-> {}, end |-> "panic"]   \* recovered by the manager

-----------------------------------------------------------------------------
(* One client per region; cfg.Region only, when the regions cannot be      *)
(* listed.  A provider keeps its clients for good.                         *)
NewMultiRegionClients(p) ==
  IF Fails("Regions", <<p, Whole>>) THEN {home} ELSE Region

(* CurrentRegionSelector answers the region of the instance, which is also *)
(* what cfg.Region was set to.                                             *)
CurrentRegionClients == {home}

(* A goroutine per client; what the regions returned without error is kept *)
(* beside the error.                                                       *)
MultiRegionFetch(answers) ==
  [found |-> UNION {answers[r].found : r \in DOMAIN answers},
   end |-> IF \E r \in DOMAIN answers : answers[r].end = "err" THEN "err" ELSE "ok"]

(* A region without a client is an error like that of the call.            *)
GetClient(clients, op, s) == IF s[1] \in clients THEN Says(op, s) ELSE "nil"

(* Every region lists its resources.                                       *)
ListRegion(type, op, r) ==
  IF Fails(op, Wide(r)) THEN Failed
  ELSE Return({Resource(type, s, {}) : s \in Within(r)})

-----------------------------------------------------------------------------
(* s3.Provider *)
GetBucketEncryptionGuesses(c, b) == Blur(GetClient(c, "GetBucketEncryption", b))
GetBucketEncryption(c, b) == GetClient(c, "GetBucketEncryption", b)
GetBucketVersioning(c, b) == GetClient(c, "GetBucketVersioning", b)
GetPublicAccessBlock(c, b) == Blur(GetClient(c, "GetPublicAccessBlock", b))
GetAccountPublicAccessBlock == Blur(Says("AccountPublicAccessBlock", Global))
GetBucketPolicy(c, b) == Blur(GetClient(c, "GetBucketPolicy", b))
GetBucketACL(c, b) == GetClient(c, "GetBucketAcl", b)
GetBucketLogging(c, b) == Blur(GetClient(c, "GetBucketLogging", b))

(* A bucket whose location is not known is not described.                  *)
GetBucketsRegionMapping == {b \in Things : ~Fails("GetBucketLocation", b)}

(* Buckets are listed through the client of DefaultRegion, nil when only   *)
(* cfg.Region has one.                                                     *)
DescribeBuckets ==
  LET c == NewMultiRegionClients("s3")
  IN IF DefaultRegion \notin c THEN Panics
     ELSE IF Fails("ListBuckets", Global) THEN Failed
     ELSE Return({Resource("bucket", b,
            {<<"GetBucketEncryption", b, GetBucketEncryption(c, b)>>,
             <<"GetBucketPolicy", b, GetBucketPolicy(c, b)>>,
             <<"GetBucketVersioning", b, GetBucketVersioning(c, b)>>,
             <<"GetPublicAccessBlock", b, GetPublicAccessBlock(c, b)>>,
             <<"AccountPublicAccessBlock", Global, GetAccountPublicAccessBlock>>})
            : b \in GetBucketsRegionMapping})

-----------------------------------------------------------------------------
(* ec2.Provider *)
DescribeNetworkAcl(c) ==
  MultiRegionFetch([r \in c |-> ListRegion("nacl", "DescribeNetworkAcls", r)])

DescribeSecurityGroups(c) ==
  MultiRegionFetch([r \in c |-> ListRegion("sg", "DescribeSecurityGroups", r)])

(* A VPC whose flow logs cannot be read is left out.                       *)
DescribeVPCs(c) ==
  MultiRegionFetch([r \in c |->
    IF Fails("DescribeVpcs", Wide(r)) THEN Failed
    ELSE Return({Resource("vpc", v, {<<"DescribeFlowLogs", v, Says("DescribeFlowLogs", v)>>})
                 : v \in {v \in Within(r) : ~Fails("DescribeFlowLogs", v)}})])

GetEbsEncryptionByDefault(c) ==
  MultiRegionFetch([r \in c |->
    IF Fails("EbsEncryption", Wide(r)) THEN Failed
    ELSE Return({Resource("ebs", Wide(r),
                   {<<"EbsEncryption", Wide(r), Says("EbsEncryption", Wide(r))>>})})])

(* The table attached to the subnet, or else the main one of its VPC.      *)
GetRouteTableForSubnet(c, d) ==
  LET own == GetClient(c, "SubnetRouteTable", d)
      main == GetClient(c, "MainRouteTable", d)
  IN IF own = "unset"
     THEN IF main = "set" THEN {<<"SubnetRouteTable", d, own>>, <<"MainRouteTable", d, main>>} ELSE {}
     ELSE {<<"SubnetRouteTable", d, own>>}

(* rds.Provider: an unknown route table does not hide the instance.        *)
GetDBInstanceSubnets(d) == GetRouteTableForSubnet(NewMultiRegionClients("ec2"), d)

DescribeDBInstances ==
  MultiRegionFetch([r \in NewMultiRegionClients("rds") |->
    IF Fails("DescribeDBInstances", Wide(r)) THEN Failed
    ELSE Return({Resource("db", d, GetDBInstanceSubnets(d)) : d \in Within(r)})])

(* kms.Provider, in the current region.                                    *)
DescribeSymmetricKeys ==
  MultiRegionFetch([r \in CurrentRegionClients |->
    IF Fails("ListKeys", Wide(r)) THEN Failed
    ELSE Return({Resource("key", k, {<<"KeyRotation", k, Says("KeyRotation", k)>>})
                 : k \in {k \in Within(r) : /\ Says("DescribeKey", k) = "set"   \* symmetric
                                              /\ ~Fails("KeyRotation", k)}})])

-----------------------------------------------------------------------------
(* iam.Provider *)
GetPasswordPolicy ==
  IF Fails("PasswordPolicy", Global) THEN Failed
  ELSE Return({Resource("pwd-policy", Global, {})})

ListServerCertificates ==
  IF Fails("ServerCertificates", Global) THEN Failed
  ELSE Return({Resource("certificates", Global,
                 {<<"ServerCertificates", Global, Says("ServerCertificates", Global)>>})})

GetAccessAnalyzers ==
  LET c == NewMultiRegionClients("iam")
  IN IF \E r \in c : Fails("ListAnalyzers", Wide(r)) THEN Failed
     ELSE Return({Resource("analyzers", Global,
            {<<"ListAnalyzers", Wide(r), Says("ListAnalyzers", Wide(r))>> : r \in c})})

(* The root account comes from the credential report; when its dates do    *)
(* not parse, as when its password was never used, it is left out.         *)
Root == <<Whole, "root">>
GetRootAccountUser == IF Says("RootDates", Root) = "set" THEN {Root} ELSE {}

(* With MFA active, no virtual device of the root account means a hardware *)
(* device.                                                                 *)
ListRootMFADevice ==
  {<<"MfaActive", Root, Truth("MfaActive", Root)>>}
  \cup IF Truth("MfaActive", Root) = "unset" THEN {}
       ELSE {<<"VirtualMFADevices", Root, Says("VirtualMFADevices", Root)>>}

GetMFADevices(u) ==
  IF u = Root THEN ListRootMFADevice ELSE {<<"MFADevices", u, Blur(Says("MFADevices", u))>>}

(* A policy that cannot be read is listed with an empty document.          *)
ListInlinePolicies(u) ==
  {<<"InlinePolicies", u, Blur(Says("InlinePolicies", u))>>}
  \cup IF Says("InlinePolicies", u) # "set" THEN {}
       ELSE {<<"GetUserPolicy", u, Blur(Says("GetUserPolicy", u))>>}

ListAttachedPolicies(u) == Blur(Says("AttachedPolicies", u))

(* report: whether the credential report was read.  A user it does not     *)
(* list yet is left out.                                                   *)
GetUsers(report) ==
  IF Fails("ListUsers", Global) \/ ~report THEN Failed
  ELSE Return({Resource("user", u,
                 GetMFADevices(u) \cup ListInlinePolicies(u)
                 \cup {<<"AttachedPolicies", u, ListAttachedPolicies(u)>>})
               : u \in {u \in Globals : Truth("ReportRow", u) = "set"} \cup GetRootAccountUser})

(* Policies: one failure hides them all.                                   *)
Support == <<Whole, "AWSSupportAccess">>
Policies == Globals \cup {Support}
GetPolicyDocument(p) == <<"PolicyDocument", p, Says("PolicyDocument", p)>>
ListPoliciesWithSupport == Policies

(* OnlyAttached; the support policy is asked for by GetSupportPolicy.       *)
ListPolicies == Policies \ {Support}

GetSupportPolicy ==
  Resource("policy", Support,
    {GetPolicyDocument(Support), <<"PolicyRoles", Support, Says("PolicyRoles", Support)>>})

GetPolicies ==
  IF \/ Fails("ListPolicies", Global) \/ Fails("GetPolicy", Support) \/ Fails("PolicyRoles", Support)
     \/ \E p \in Policies : Fails("PolicyDocument", p)
  THEN Failed
  ELSE Return({Resource("policy", p, {GetPolicyDocument(p)}) : p \in ListPolicies}
              \cup {GetSupportPolicy})

-----------------------------------------------------------------------------
(* cloudtrail.Provider *)
GetTrailStatus(c, t) == GetClient(c, "TrailStatus", t)
GetEventSelectors(c, t) == Blur(GetClient(c, "EventSelectors", t))

TrailInfo(t) ==
  LET c == NewMultiRegionClients("cloudtrail")
  IN {<<"TrailStatus", t, GetTrailStatus(c, t)>>, <<"EventSelectors", t, GetEventSelectors(c, t)>>}

DescribeTrails ==
  IF DefaultRegion \notin NewMultiRegionClients("cloudtrail") THEN Panics
  ELSE IF Fails("DescribeTrails", Global) THEN Failed
  ELSE Return({Resource("trail", t, TrailInfo(t)) : t \in Things})

(* logging.Provider: the trail's bucket is asked for in the trail's home   *)
(* region; a trail without a bucket is left out.                           *)
EnrichedTrail(t) ==
  LET c == NewMultiRegionClients("s3")
  IN TrailInfo(t) \cup {<<"GetBucketPolicy", t, GetBucketPolicy(c, t)>>,
                        <<"GetBucketAcl", t, GetBucketACL(c, t)>>,
                        <<"GetBucketLogging", t, GetBucketLogging(c, t)>>}

LoggingDescribeTrails ==
  IF DescribeTrails.end # "ok" THEN DescribeTrails
  ELSE Return({Resource("trail", t, EnrichedTrail(t))
               : t \in {t \in Things : Truth("TrailBucket", t) = "set"}})

(* configservice.Provider: a failing recorder drops its region's entry.    *)
DescribeConfigRecorders ==
  MultiRegionFetch([r \in NewMultiRegionClients("config") |->
    IF Fails("Recorders", Wide(r)) \/ Fails("RecorderStatus", Wide(r)) THEN Failed
    ELSE Return({<<"Recorders", Wide(r), Says("Recorders", Wide(r))>>})])

(* securityhub.Provider: an account not subscribed is an answer.           *)
DescribeHubs ==
  MultiRegionFetch([r \in NewMultiRegionClients("securityhub") |->
    [found |-> {Resource("hub", Wide(r),
                  {<<"DescribeHub", Wide(r), Blur(Says("DescribeHub", Wide(r)))>>})},
     end |-> IF Fails("DescribeHub", Wide(r)) THEN "err" ELSE "ok"]])

(* monitoring.Provider: one resource of the account, about each trail.     *)
DescribeMetricFilters(t) == GetClient(NewMultiRegionClients("logs"), "MetricFilters", t)
DescribeAlarms(t) == GetClient(NewMultiRegionClients("cloudwatch"), "Alarms", t)
ListSubscriptionsByTopic(t) == GetClient(NewMultiRegionClients("sns"), "Subscriptions", t)

GetSubscriptionForAlarms(t) == Blur(ListSubscriptionsByTopic(t))

(* getLogGroupFromARN's seventh part: of an ARN with fewer than six, or    *)
(* with an empty one, there is no name; six parts pass its check.          *)
HasNoName(t) == Truth("LogGroup", t) = "set" /\ Truth("LogGroupName", t) = "unset"
EndsTooSoon(t) == Truth("LogGroup", t) = "set" /\ Truth("SeventhPart", t) = "unset"

(* A trail whose log group has no name, or whose filters cannot be read,   *)
(* is left out.                                                            *)
MonitoringItem(t) ==
  LET filters == DescribeMetricFilters(t)
      alarms == DescribeAlarms(t)
  IN IF Truth("LogGroup", t) = "unset" THEN TrailInfo(t) \cup {<<"LogGroup", t, "unset">>}
     ELSE IF HasNoName(t) \/ filters = "nil" THEN {}
     ELSE TrailInfo(t) \cup {<<"LogGroup", t, "set">>, <<"MetricFilters", t, filters>>}
          \cup IF filters = "unset" THEN {} ELSE {<<"Alarms", t, alarms>>}
          \cup IF filters = "unset" \/ alarms # "set" THEN {}
               ELSE {<<"Subscriptions", t, GetSubscriptionForAlarms(t)>>}

AggregateResources ==
  IF DescribeTrails.end # "ok" THEN DescribeTrails
  ELSE IF \E t \in Things : EndsTooSoon(t) THEN Panics
  ELSE Return({Resource("monitoring", Global, UNION {MonitoringItem(t) : t \in Things})})

(* ecr.Provider and elb.Provider: one call for all names of a region.      *)
DescribeRepositories(r, names) ==
  IF names = {} THEN Return({})
  ELSE IF r \notin NewMultiRegionClients("ecr") \/ Fails("DescribeRepositories", Wide(r))
  THEN Failed
  ELSE Return({Resource("repo", s, {}) : s \in names})

(* An empty list of names asks for every load balancer.                    *)
DescribeLoadBalancer(names) ==
  IF Fails("DescribeLoadBalancers", Wide(home)) THEN Failed
  ELSE Return({Resource("elb", s, {}) : s \in IF names = {} THEN Within(home) ELSE names})
=============================================================================
