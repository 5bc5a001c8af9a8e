----------------------------- MODULE AwsFetchers -----------------------------
(* The fetchers of AWS (fetching/fetchers/aws): what each sends, given     *)
(* what the providers answer.                                              *)
EXTENDS AwsProviders, CredentialReport

S3Fetch == DescribeBuckets.found

(* Mutant: the first failure ends the fetch. *)
NetworkFetchAllOrNothing ==
  LET c == NewMultiRegionClients("ec2")
  IN IF DescribeNetworkAcl(c).end = "err" THEN {}
     ELSE DescribeNetworkAcl(c).found \cup DescribeSecurityGroups(c).found
          \cup DescribeVPCs(c).found \cup GetEbsEncryptionByDefault(c).found

(* Each of the four is kept as far as it goes.                             *)
NetworkFetch ==
  LET c == NewMultiRegionClients("ec2")
  IN DescribeNetworkAcl(c).found \cup DescribeSecurityGroups(c).found
     \cup DescribeVPCs(c).found \cup GetEbsEncryptionByDefault(c).found

RdsFetch == DescribeDBInstances.found

KmsFetch == IF DescribeSymmetricKeys.end = "err" THEN {} ELSE DescribeSymmetricKeys.found

IamFetch ==
  GetPasswordPolicy.found \cup GetUsers(report = "ready").found \cup GetPolicies.found
  \cup ListServerCertificates.found \cup GetAccessAnalyzers.found

(* A panic in the first call skips the rest of Fetch.                      *)
LoggingFetch ==
  LET trails == LoggingDescribeTrails
      configs == DescribeConfigRecorders
  IN trails.found
     \cup IF trails.end = "panic" \/ configs.end = "err" THEN {}
          ELSE {Resource("config", Global, configs.found)}

MonitoringFetch ==
  LET out == AggregateResources
      hubs == DescribeHubs
  IN out.found \cup IF out.end = "panic" \/ hubs.end = "err" THEN {} ELSE hubs.found

(* Repositories of the images that the pods run, by region.                *)
GetAwsRepositories(r) == {s \in Within(r) : Truth("PodImage", s) = "set"}

EcrFetch ==
  IF Fails("Pods", Global) THEN {}
  ELSE UNION {DescribeRepositories(r, GetAwsRepositories(r)).found : r \in Region}

(* The pattern of a host name holds the region of the configuration.       *)
GetLoadBalancers == {s \in Within(home) : Truth("Ingress", s) = "set"}

ElbFetch == IF Fails("Services", Global) THEN {} ELSE DescribeLoadBalancer(GetLoadBalancers).found

AwsSends ==
  CASE task = "s3" -> S3Fetch
    [] task = "network" -> NetworkFetch
    [] task = "rds" -> RdsFetch
    [] task = "kms" -> KmsFetch
    [] task = "iam" -> IamFetch
    [] task = "logging" -> LoggingFetch
    [] task = "monitoring" -> MonitoringFetch
    [] task = "ecr" -> EcrFetch
    [] task = "elb" -> ElbFetch

-----------------------------------------------------------------------------
(* ResourceMetadata.ID of a resource of account x.  Arn: made by AWS, of   *)
(* account, region and name; a bucket's name is unique in the world.  Some *)
(* fetchers hold a pointer to their identity, which leads to account p.    *)
Arn(x, a) == <<"arn", a.type, x, a.at>>
BucketArn(x, a) == <<"arn:aws:s3", <<x, a.at>>>>
NaclArn(x, a) == <<"arn:aws:ec2", a.at[1], x, "network-acl", a.at[2]>>
SecurityGroupArn(x, a) == <<"arn:aws:ec2", a.at[1], x, "security-group", a.at[2]>>
VpcArn(x, a) == <<"arn:aws:ec2", a.at[1], x, "vpc", a.at[2]>>
EbsName(x, a) == <<"ebs-encryption-by-default", x, a.at[1]>>
HubArn(x, a) ==
  IF \E t \in a.told : t[3] = "set" THEN Arn(x, a) ELSE <<"securityhub", a.at[1], x>>
IamName(p, a) == <<p, a.type>>   \* no ARN: account and name
OwnedByAws(a) == a.type = "policy" /\ a.at \in {Support} \cup ({Whole} \X AwsManaged)
PolicyArn(x, a) == IF OwnedByAws(a) THEN <<"arn:aws:iam::aws", "policy", a.at>> ELSE Arn(x, a)
ConfigId(p) == <<"configservice", p>>
MonitoringId(p) == <<"cloudtrail", p>>

AwsId(x, p, a) ==
  CASE a.type = "bucket" -> BucketArn(x, a)
    [] a.type = "nacl" -> NaclArn(x, a)
    [] a.type = "sg" -> SecurityGroupArn(x, a)
    [] a.type = "vpc" -> VpcArn(x, a)
    [] a.type = "ebs" -> EbsName(x, a)
    [] a.type = "hub" -> HubArn(x, a)
    [] a.type = "policy" -> PolicyArn(x, a)
    [] a.type = "config" -> ConfigId(p)
    [] a.type = "monitoring" -> MonitoringId(p)
    [] a.type \in {"pwd-policy", "certificates", "analyzers"} -> IamName(p, a)
    [] OTHER -> Arn(x, a)

-----------------------------------------------------------------------------
(* The calls of each fetcher.                                              *)
Clients(ps) == {<<"Regions", <<p, Whole>>>> : p \in ps}

TrailCalls == Call({"DescribeTrails"}, {Global}) \cup Call({"TrailStatus", "EventSelectors"}, Things)

AwsCalls ==
  [s3 |-> Clients({"s3"}) \cup Call({"ListBuckets", "AccountPublicAccessBlock"}, {Global})
      \cup Call({"GetBucketLocation", "GetBucketEncryption", "GetBucketPolicy",
                 "GetBucketVersioning", "GetPublicAccessBlock"}, Things),
   network |-> Clients({"ec2"}) \cup Call({"DescribeFlowLogs"}, Things)
      \cup Call({"DescribeNetworkAcls", "DescribeSecurityGroups", "DescribeVpcs", "EbsEncryption"}, Wides),
   rds |-> Clients({"rds", "ec2"}) \cup Call({"DescribeDBInstances"}, Wides)
      \cup Call({"SubnetRouteTable", "MainRouteTable"}, Things),
   kms |-> Call({"ListKeys"}, Wides) \cup Call({"DescribeKey", "KeyRotation"}, Things),
   iam |-> Clients({"iam"}) \cup Call({"ListAnalyzers"}, Wides)
      \cup Call({"PasswordPolicy", "ServerCertificates", "ListUsers", "ListPolicies"}, {Global})
      \cup Call({"RootDates", "MfaActive", "VirtualMFADevices"}, {Root})
      \cup Call({"InlinePolicies", "GetUserPolicy", "AttachedPolicies"}, Globals \cup {Root})
      \cup Call({"ReportRow", "MFADevices"}, Globals)
      \cup Call({"PolicyDocument"}, Policies) \cup Call({"GetPolicy", "PolicyRoles"}, {Support}),
   logging |-> Clients({"cloudtrail", "s3", "config"}) \cup TrailCalls
      \cup Call({"TrailBucket", "GetBucketPolicy", "GetBucketAcl", "GetBucketLogging"}, Things)
      \cup Call({"Recorders", "RecorderStatus"}, Wides),
   monitoring |-> Clients({"cloudtrail", "logs", "cloudwatch", "sns", "securityhub"}) \cup TrailCalls
      \cup Call({"LogGroup", "LogGroupName", "SeventhPart", "MetricFilters", "Alarms", "Subscriptions"}, Things)
      \cup Call({"DescribeHub"}, Wides),
   ecr |-> Clients({"ecr"}) \cup Call({"Pods"}, {Global}) \cup Call({"PodImage"}, Things)
      \cup Call({"DescribeRepositories"}, Wides),
   elb |-> Call({"Services"}, {Global}) \cup Call({"Ingress"}, Things)
      \cup Call({"DescribeLoadBalancers"}, Wides)]

(* What a cycle should find: pairs of a type and a place.                  *)
AwsExists ==
  CASE task = "s3" -> {"bucket"} \X Things
    [] task = "network" -> ({"nacl", "sg", "vpc"} \X Things) \cup ({"ebs"} \X Wides)
    [] task = "rds" -> {"db"} \X Things
    [] task = "kms" -> {"key"} \X {k \in Within(home) : Truth("DescribeKey", k) = "set"}
    [] task = "iam" -> ({"pwd-policy", "certificates", "analyzers"} \X {Global})
         \cup ({"policy"} \X Policies)
         \cup ({"user"} \X {u \in Globals \cup {Root} : /\ Truth("ReportRow", u) = "set"
                                                        /\ Says("RootDates", u) = "set"})
    [] task = "logging" -> {<<"config", Global>>}
         \cup ({"trail"} \X {t \in Things : Truth("TrailBucket", t) = "set"})
    [] task = "monitoring" -> {<<"monitoring", Global>>} \cup ({"hub"} \X Wides)
    [] task = "ecr" -> {"repo"} \X {s \in Things : Truth("PodImage", s) = "set"}
    [] task = "elb" ->
         LET ours == {s \in Within(home) : Truth("Ingress", s) = "set"}
         IN {"elb"} \X (IF ours = {} THEN Within(home) ELSE ours)

(* The calls whose failure hides a resource, and no others do: how far one *)
(* failure reaches.  Security hubs, configuration recorders, analyzers and *)
(* policies are all or nothing over the account, the rest is lost by       *)
(* region or one by one.                                                   *)
EveryRegion(p, ops) == Call(ops, {Wide(r) : r \in NewMultiRegionClients(p)})
HidingCalls(type, s) ==
  LET here == Wide(s[1])
  IN CASE type = "bucket" -> {<<"ListBuckets", Global>>, <<"GetBucketLocation", s>>}
       [] type = "nacl" -> {<<"DescribeNetworkAcls", here>>}
       [] type = "sg" -> {<<"DescribeSecurityGroups", here>>}
       [] type = "vpc" -> {<<"DescribeVpcs", here>>, <<"DescribeFlowLogs", s>>}
       [] type = "ebs" -> {<<"EbsEncryption", s>>}
       [] type = "db" -> {<<"DescribeDBInstances", here>>}
       [] type = "key" -> {<<"ListKeys", here>>, <<"DescribeKey", s>>, <<"KeyRotation", s>>}
       [] type = "pwd-policy" -> {<<"PasswordPolicy", Global>>}
       [] type = "certificates" -> {<<"ServerCertificates", Global>>}
       [] type = "analyzers" -> EveryRegion("iam", {"ListAnalyzers"})
       [] type = "policy" -> {<<"ListPolicies", Global>>, <<"GetPolicy", Support>>,
            <<"PolicyRoles", Support>>} \cup Call({"PolicyDocument"}, Policies)
       [] type = "user" -> {<<"ListUsers", Global>>}
       [] type \in {"trail", "monitoring"} -> {<<"DescribeTrails", Global>>}
       [] type = "config" -> EveryRegion("config", {"Recorders", "RecorderStatus"})
       [] type = "hub" -> EveryRegion("securityhub", {"DescribeHub"})
       [] type = "repo" -> {<<"Pods", Global>>, <<"DescribeRepositories", here>>}
       [] type = "elb" -> {<<"Services", Global>>, <<"DescribeLoadBalancers", here>>}

(* The clients it is found through: provider and region.                   *)
ThroughClients(type, s) ==
  CASE type = "bucket" -> {<<"s3", DefaultRegion>>}
    [] type \in {"nacl", "sg", "vpc", "ebs"} -> {<<"ec2", s[1]>>}
    [] type = "db" -> {<<"rds", s[1]>>}
    [] type \in {"trail", "monitoring", "config"} -> {<<"cloudtrail", DefaultRegion>>}
    [] type = "hub" -> {<<"cloudtrail", DefaultRegion>>, <<"securityhub", s[1]>>}
    [] type = "repo" -> {<<"ecr", s[1]>>}
    [] OTHER -> {}

(* The ARN of a log group that ends too soon ends the fetch.               *)
Unnamed == ~Fails("DescribeTrails", Global) /\ \E t \in Things : EndsTooSoon(t)

AwsHidden(type, s) ==
  \/ HidingCalls(type, s) \cap fails # {}
  \/ \E pr \in ThroughClients(type, s) : pr[2] \notin NewMultiRegionClients(pr[1])
  \/ type = "user" /\ report # "ready"
  \/ type \in {"monitoring", "hub"} /\ Unnamed
=============================================================================
