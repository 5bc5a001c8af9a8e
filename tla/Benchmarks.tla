----------------------------- MODULE Benchmarks -----------------------------
(* How a beater is built from its configuration (flavors, the strategies   *)
(* of flavors/benchmark and resources/fetching/preset): the steps that     *)
(* must succeed, the one that need not, and the fetchers that its registry *)
(* gets.  The calls are those of the construction; a field of the          *)
(* configuration is a call that cannot fail.                               *)
EXTENDS CloudCalls

Succeed(ops) == \A op \in ops : ~Fails(op, Global)
Has(field) == Truth(field, Global) = "set"

Beater(told) == {Resource("benchmark", Global, told)}
Registered(keys) == {Resource("fetcher", <<Whole, key>>, {}) : key \in keys}

-----------------------------------------------------------------------------
(* Identities and configurations of the clouds.                            *)
GetAccountAlias == Succeed({"ListAccountAliases"})
GetIdentity == Succeed({"GetCallerIdentity"}) /\ GetAccountAlias
AwsInitialize == Succeed({"InitializeAWSConfig"}) /\ GetIdentity

(* The instance's region becomes the configuration's.                      *)
GetMetadata == Succeed({"InstanceMetadata"})
EksInitializeAWSConfig == Succeed({"InitializeAWSConfig"}) /\ GetMetadata

(* Credentials are optional on EKS: without them there is no identity.     *)
GetEksAwsConfig == Has("AwsCredentials") => EksInitializeAWSConfig /\ GetIdentity

(* A field that is used only if it is set, and must then be right.         *)
ValidateJSONFromFile == Succeed({"CredentialsFile"})
GetCustomCredentials ==
  /\ Has("CredentialsFilePath") => ValidateJSONFromFile
  /\ Has("CredentialsJSON") => Has("ValidJSON")

(* The project of the machine, when none is configured, may be none.       *)
GetProjectId == IF Has("ProjectId") THEN "set" ELSE Says("FindDefaultCredentials", Global)

GetGcpConfigParentValue ==
  /\ Has("AccountType")
  /\ IF Has("SingleAccount") THEN GetProjectId # "nil" ELSE Has("OrganizationId")

GetGcpClientConfig == GetCustomCredentials /\ GetGcpConfigParentValue
GcpInit == Succeed({"AssetClient", "ResourceManager"})

GetAzureClientConfig ==
  /\ Has("KnownCredentialsType")
  /\ Has("UsernamePassword") => Has("ClientUsername") /\ Has("ClientPassword")
  /\ Succeed({"FindCredentials"})

AzureInit == Succeed({"ResourceGraphFactory", "DiagnosticSettingsClient"})

-----------------------------------------------------------------------------
(* Kubernetes: the name of the cluster is looked for, its ID and that of   *)
(* the node must be found.                                                 *)
GetClusterNameFromAutoscalingGroup ==
  IF Succeed({"DescribeAutoScalingGroups"}) /\ Has("GroupTag") THEN "set" ELSE "nil"

GetClusterNameFromInstanceTags ==
  IF ~Succeed({"DescribeInstances"}) THEN "nil" ELSE Truth("NameTag", Global)

EksGetClusterName ==
  IF GetClusterNameFromInstanceTags = "unset" THEN GetClusterNameFromAutoscalingGroup
  ELSE GetClusterNameFromInstanceTags

EksClusterName == IF GetMetadata THEN EksGetClusterName ELSE "nil"

KubernetesClusterName == Says("ClusterIdentifier", Global)

GetK8sClusterId == Succeed({"KubeSystem"})
GetK8sNodeId == Succeed({"NodeName", "Node"})
GetK8sDataProvider == Succeed({"ServerVersion"}) /\ GetK8sClusterId
GetK8sIdProvider == GetK8sNodeId /\ GetK8sClusterId
GetK8sProviders == Succeed({"KubeClient"}) /\ GetK8sDataProvider /\ GetK8sIdProvider

-----------------------------------------------------------------------------
(* The fetchers of each benchmark.                                         *)
NewCisAwsFetchers == {"iam", "kms", "logging", "monitoring", "network", "rds", "s3"}
NewCisK8sFetchers == {"file", "process", "kube"}
NewCisEksFetchers == NewCisK8sFetchers \cup IF Has("AwsCredentials") THEN {"ecr", "elb"} ELSE {}
NewCisGcpFetchers ==
  {"gcp_assets", "gcp_monitoring", "gcp_service_usage"}
  \cup IF Has("SingleAccount") THEN {} ELSE {"gcp_logging", "gcp_policies"}
NewCisAzureFactory == {"azure_assets", "azure_batch", "azure_insights"}

(* An organization's registry is filled by its Update (AwsOrg).            *)
AwsBenchmark ==
  IF ~AwsInitialize THEN {}
  ELSE Beater({}) \cup Registered(IF Has("SingleAccount") THEN NewCisAwsFetchers ELSE {})

EksBenchmark ==
  IF ~GetK8sProviders \/ ~GetEksAwsConfig THEN {}
  ELSE Beater({<<"EksClusterName", Global, EksClusterName>>}) \cup Registered(NewCisEksFetchers)

K8sBenchmark ==
  IF ~GetK8sProviders THEN {}
  ELSE Beater({<<"ClusterIdentifier", Global, KubernetesClusterName>>}) \cup Registered(NewCisK8sFetchers)

GcpBenchmark ==
  IF ~GetGcpClientConfig \/ ~GcpInit THEN {}
  ELSE Beater({}) \cup Registered(NewCisGcpFetchers)

AzureBenchmark ==
  IF ~GetAzureClientConfig \/ ~AzureInit THEN {}
  ELSE Beater({}) \cup Registered(NewCisAzureFactory)

(* GetStrategy has a strategy for each benchmark. *)
NewBenchmark ==
  CASE task = "cis_aws" -> AwsBenchmark
    [] task = "cis_eks" -> EksBenchmark
    [] task = "cis_k8s" -> K8sBenchmark
    [] task = "cis_gcp" -> GcpBenchmark
    [] task = "cis_azure" -> AzureBenchmark

ConfigNew == Succeed({"Unpack"}) /\ Has("AccountTypes")
IsSupportedBenchmark == Has("SupportedBenchmark")
BuildBase == Succeed({"OpaEvaluator", "CommonDataProvider"})
NewClient == Succeed({"Client"})

NewPosture ==
  IF ConfigNew /\ IsSupportedBenchmark /\ BuildBase /\ NewClient THEN NewBenchmark ELSE {}

NewVulnerability ==
  IF ConfigNew /\ AwsInitialize /\ Succeed({"CommonDataProvider"}) /\ NewClient THEN Beater({}) ELSE {}

BenchmarkSends == IF task = "vuln_mgmt" THEN NewVulnerability ELSE NewPosture

-----------------------------------------------------------------------------
(* The configuration and the calls of each construction, what it should    *)
(* build, and what must be right for that, and nothing else.               *)
BenchmarkFields ==
  {"SupportedBenchmark", "AccountTypes", "SingleAccount", "AwsCredentials", "NameTag", "GroupTag",
   "AccountType", "OrganizationId", "ProjectId", "CredentialsFilePath", "CredentialsJSON", "ValidJSON",
   "KnownCredentialsType", "UsernamePassword", "ClientUsername", "ClientPassword"}

BeaterSteps == {"Unpack", "AccountTypes", "CommonDataProvider", "Client"}
PostureSteps == BeaterSteps \cup {"SupportedBenchmark", "OpaEvaluator"}
IdentitySteps == {"InitializeAWSConfig", "GetCallerIdentity", "ListAccountAliases"}
ClusterSteps == {"KubeClient", "ServerVersion", "KubeSystem", "NodeName", "Node"}
GcpSteps == {"AccountType", "AssetClient", "ResourceManager"}
AzureSteps == {"KnownCredentialsType", "FindCredentials", "ResourceGraphFactory", "DiagnosticSettingsClient"}

BenchmarkCalls ==
  [cis_aws |-> Call(PostureSteps \cup IdentitySteps \cup {"SingleAccount"}, {Global}),
   cis_eks |-> Call(PostureSteps \cup IdentitySteps \cup ClusterSteps \cup {"AwsCredentials", "InstanceMetadata",
      "DescribeInstances", "NameTag", "DescribeAutoScalingGroups", "GroupTag"}, {Global}),
   cis_k8s |-> Call(PostureSteps \cup ClusterSteps \cup {"ClusterIdentifier"}, {Global}),
   cis_gcp |-> Call(PostureSteps \cup GcpSteps \cup {"SingleAccount", "OrganizationId", "ProjectId",
      "FindDefaultCredentials", "CredentialsFilePath", "CredentialsFile", "CredentialsJSON", "ValidJSON"},
      {Global}),
   cis_azure |-> Call(PostureSteps \cup AzureSteps \cup {"UsernamePassword", "ClientUsername", "ClientPassword"},
      {Global}),
   vuln_mgmt |-> Call(BeaterSteps \cup IdentitySteps, {Global})]

When(condition, ops) == IF condition THEN ops ELSE {}

Needed ==
  CASE task = "vuln_mgmt" -> BeaterSteps \cup IdentitySteps
    [] task = "cis_aws" -> PostureSteps \cup IdentitySteps
    [] task = "cis_eks" -> PostureSteps \cup ClusterSteps
         \cup When(Has("AwsCredentials"), IdentitySteps \cup {"InstanceMetadata"})
    [] task = "cis_k8s" -> PostureSteps \cup ClusterSteps
    [] task = "cis_gcp" -> PostureSteps \cup GcpSteps
         \cup When(Has("CredentialsFilePath"), {"CredentialsFile"})
         \cup When(Has("CredentialsJSON"), {"ValidJSON"})
         \cup When(~Has("SingleAccount"), {"OrganizationId"})
         \cup When(Has("SingleAccount") /\ ~Has("ProjectId"), {"FindDefaultCredentials"})
    [] task = "cis_azure" -> PostureSteps \cup AzureSteps
         \cup When(Has("UsernamePassword"), {"ClientUsername", "ClientPassword"})

BenchmarkHidden ==
  \E op \in Needed : Fails(op, Global) \/ (op \in BenchmarkFields /\ ~Has(op))
=============================================================================
