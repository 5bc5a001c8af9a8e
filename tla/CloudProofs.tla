----------------------------- MODULE CloudProofs -----------------------------
(* The promises of a Fetch of a cloud, of a node, and of the report of a   *)
(* vulnerability, for any places, names, failures and answers.             *)
EXTENDS CloudFetchers, TLAPS

-----------------------------------------------------------------------------
(* How far the credential report is, by its counters and the last answer.  *)
ReportInv ==
  /\ gets \in Nat /\ retries \in Nat
  /\ report \in {"none", "first", "generate", "second", "retry", "ready", "failed"}
  /\ report \in {"none", "first"} => gets = 0 /\ retries = 0
  /\ report \in {"generate", "second"} => gets = 1 /\ retries = 0
  /\ report = "retry" => gets = retries + 2 /\ retries <= MaxRetries
  /\ report = "failed" => \/ gets \in {1, 2} /\ retries = 0
                          \/ retries = MaxRetries /\ gets = MaxRetries + 2
                          \/ last = "garbled"
  /\ report = "ready" <=> last = "ok"
  /\ gets <= MaxRetries + 2

(* Every answer, and every error, counts.                                  *)
LEMMA ReportStep == ReportInv /\ GetCredentialReport => ReportInv'
<1> SUFFICES ASSUME ReportInv, GetCredentialReport PROVE ReportInv'
  OBVIOUS
<1> USE RetryAssumption DEF ReportInv, Get
<1>1. CASE FirstGet
  BY <1>1 DEF FirstGet, Answer
<1>2. CASE GenerateReport
  BY <1>2 DEF GenerateReport
<1>3. CASE SecondGet
  BY <1>3 DEF SecondGet, Answer
<1>4. CASE RetryGet
  BY <1>4 DEF RetryGet, Answer, Answered, Again
<1>5. CASE GiveUp
  BY <1>5 DEF GiveUp
<1> QED
  BY <1>1, <1>2, <1>3, <1>4, <1>5 DEF GetCredentialReport

-----------------------------------------------------------------------------
(* What the event of a vulnerability shows was read from its ratings.      *)
ScanInv ==
  task = "scan" /\ state = "done" => shown.base \in GetCVSSScore /\ shown.version \in GetCVSSVersion

(* A field is read from one of the sources that count.                     *)
Field(s, f) == IF f \in vul.CVSS[s] THEN <<s, f>> ELSE NoValue

LEMMA FieldRead ==
  ASSUME NEW f
  PROVE  GetCVSSValue(f) = IF Counting = {} THEN {NoValue} ELSE {Field(s, f) : s \in Counting}
<1> DEFINE V(s) == IF f \in vul.CVSS[s] THEN <<s, f>> ELSE NoValue
<1>1. CASE Sources = {}
  BY <1>1 DEF GetCVSSValue, Counting
<1>2. CASE Sources # {} /\ vul.DataSource \in Sources
  <2>1. Counting = {vul.DataSource} /\ GetCVSSValue(f) = {V(vul.DataSource)}
    BY <1>2 DEF GetCVSSValue, Counting
  <2> QED
    BY <2>1 DEF Field
<1>3. CASE Sources # {} /\ vul.DataSource \notin Sources /\ NVD \in Sources
  <2>1. Counting = {NVD} /\ GetCVSSValue(f) = {V(NVD)}
    BY <1>3 DEF GetCVSSValue, Counting
  <2> QED
    BY <2>1 DEF Field
<1>4. CASE Sources # {} /\ vul.DataSource \notin Sources /\ NVD \notin Sources
  <2>1. Counting = Sources /\ GetCVSSValue(f) = {V(s) : s \in Sources}
    BY <1>4 DEF GetCVSSValue, Counting
  <2> QED
    BY <1>4, <2>1 DEF Field
<1> QED
  BY <1>1, <1>2, <1>3, <1>4

(* Scores and vectors are read alike: the later field, or else the older,  *)
(* of whichever source.                                                    *)
Read(v3, v2) ==
  (GetCVSSValue(v3) \ {NoValue}) \cup IF NoValue \in GetCVSSValue(v3) THEN GetCVSSValue(v2) ELSE {}

Generation(v, v3) == IF v = NoValue THEN "" ELSE IF v[2] = v3 THEN "3" ELSE "2.0"

LEMMA ReadsAlike ==
  /\ GetCVSSScore = Read("V3Score", "V2Score")
  /\ GetCVSSVersion = {Generation(v, "V3Vector") : v \in Read("V3Vector", "V2Vector")}
  /\ \A base : OfScore(base) = Generation(base, "V3Score")
<1>1. GetCVSSScore = Read("V3Score", "V2Score")
  BY DEF GetCVSSScore, Read
<1>2. GetCVSSVector = Read("V3Vector", "V2Vector")
  BY DEF GetCVSSVector, Read
<1>3. GetCVSSVersion = {Generation(v, "V3Vector") : v \in GetCVSSVector}
  BY DEF GetCVSSVersion, Generation
<1>4. \A base : OfScore(base) = Generation(base, "V3Score")
  BY DEF OfScore, Generation
<1> QED
  BY <1>1, <1>2, <1>3, <1>4

(* What a source shows may be what is read.                                *)
LEMMA MayRead ==
  ASSUME NEW s \in Counting, NEW v3, NEW v2, v3 # v2
  PROVE  \E v \in Read(v3, v2) : Generation(v, v3) = Latest(s, v3, v2)
<1>1. \A f : Field(s, f) \in GetCVSSValue(f)
  BY FieldRead
<1>2. \A f : <<s, f>> # NoValue /\ <<s, f>>[2] = f
  BY DEF NoValue
<1>3. CASE v3 \in vul.CVSS[s]
  <2>1. Field(s, v3) = <<s, v3>>
    BY <1>3 DEF Field
  <2>2. <<s, v3>> \in Read(v3, v2)
    BY <1>1, <1>2, <2>1 DEF Read
  <2> QED
    BY <1>2, <1>3, <2>2 DEF Generation, Latest
<1>4. CASE v3 \notin vul.CVSS[s]
  <2>1. Field(s, v3) = NoValue
    BY <1>4 DEF Field
  <2>2. Field(s, v2) \in Read(v3, v2)
    BY <1>1, <2>1 DEF Read
  <2>3. Generation(Field(s, v2), v3) = Latest(s, v3, v2)
    BY <1>2, <1>4 DEF Generation, Latest, Field
  <2> QED
    BY <2>2, <2>3
<1> QED
  BY <1>3, <1>4

(* When all sources show one generation, no other is read.                 *)
LEMMA OneRead ==
  ASSUME NEW g, Counting # {}, NEW v3, NEW v2, v3 # v2, \A s \in Counting : Latest(s, v3, v2) = g,
         NEW v \in Read(v3, v2)
  PROVE  Generation(v, v3) = g
<1>1. \A f : \A w \in GetCVSSValue(f) : \E s \in Counting : w = Field(s, f)
  BY FieldRead
<1>2. \A s, f : <<s, f>> # NoValue /\ <<s, f>>[2] = f
  BY DEF NoValue
<1>3. CASE v \in GetCVSSValue(v3) /\ v # NoValue
  <2>1. PICK s \in Counting : v = Field(s, v3)
    BY <1>1, <1>3
  <2>2. v3 \in vul.CVSS[s] /\ v = <<s, v3>>
    BY <1>3, <2>1 DEF Field
  <2> QED
    BY <1>2, <1>3, <2>2 DEF Generation, Latest
<1>4. CASE NoValue \in GetCVSSValue(v3) /\ v \in GetCVSSValue(v2)
  <2>1. PICK r \in Counting : Field(r, v3) = NoValue
    BY <1>1, <1>4
  <2>2. v3 \notin vul.CVSS[r]
    BY <1>2, <2>1 DEF Field
  <2>3. g # "3"
    BY <2>2 DEF Latest
  <2>4. PICK s \in Counting : v = Field(s, v2)
    BY <1>1, <1>4
  <2>5. v3 \notin vul.CVSS[s]
    BY <2>3 DEF Latest
  <2> QED
    BY <1>2, <2>4, <2>5 DEF Generation, Latest, Field
<1> QED
  BY <1>3, <1>4 DEF Read

(* Sources that show one generation make every event agree, and others     *)
(* make one that does not.                                                 *)
LEMMA ScoreOfVersion == ScanInv => CvssAgrees
<1> SUFFICES ASSUME ScanInv, task = "scan", state = "done"
             PROVE  IF \A g, h \in Generations : g = h
                    THEN OfScore(shown.base) = shown.version /\ Generations \subseteq {shown.version}
                    ELSE \E base \in GetCVSSScore, version \in GetCVSSVersion : OfScore(base) # version
  BY DEF CvssAgrees
<1> DEFINE Score(s) == Latest(s, "V3Score", "V2Score")
           Vector(s) == Latest(s, "V3Vector", "V2Vector")
<1>1. /\ \A g : g \in Generations <=> \E s \in Counting : g = Score(s) \/ g = Vector(s)
  BY DEF Generations
<1>2. /\ \A s \in Counting : \E base \in GetCVSSScore : OfScore(base) = Score(s)
      /\ \A s \in Counting : Vector(s) \in GetCVSSVersion
  <2>1. \A s \in Counting : \E base \in Read("V3Score", "V2Score") : Generation(base, "V3Score") = Score(s)
    BY MayRead
  <2>2. \A s \in Counting : \E v \in Read("V3Vector", "V2Vector") : Generation(v, "V3Vector") = Vector(s)
    BY MayRead
  <2> HIDE DEF Score, Vector
  <2> QED
    BY <2>1, <2>2, ReadsAlike
<1>3. shown.base \in GetCVSSScore /\ shown.version \in GetCVSSVersion
  BY DEF ScanInv
<1>4. CASE Counting = {}
  <2>1. \A f : GetCVSSValue(f) = {NoValue}
    BY <1>4, FieldRead
  <2>2. GetCVSSScore = {NoValue} /\ GetCVSSVersion = {""}
    <3>1. Read("V3Score", "V2Score") = {NoValue} /\ Read("V3Vector", "V2Vector") = {NoValue}
      BY <2>1 DEF Read
    <3> QED
      BY <3>1, ReadsAlike DEF Generation
  <2>3. Generations = {} /\ shown.base = NoValue /\ shown.version = ""
    BY <1>1, <1>3, <1>4, <2>2
  <2> QED
    BY <2>3 DEF OfScore
<1>5. CASE Counting # {} /\ \A g, h \in Generations : g = h
  <2>1. PICK s \in Counting : TRUE
    BY <1>5
  <2> DEFINE g == Score(s)
  <2>2. \A r \in Counting : Score(r) = g /\ Vector(r) = g
    <3> HIDE DEF Score, Vector
    <3> QED
      BY <1>1, <1>5, <2>1 DEF g
  <2>3. \A base \in Read("V3Score", "V2Score") : Generation(base, "V3Score") = g
    <3> HIDE DEF g
    <3> QED
      BY <1>5, <2>2, OneRead
  <2>4. \A v \in Read("V3Vector", "V2Vector") : Generation(v, "V3Vector") = g
    <3> HIDE DEF g
    <3> QED
      BY <1>5, <2>2, OneRead
  <2> HIDE DEF g, Score, Vector
  <2>5. OfScore(shown.base) = g /\ shown.version = g
    BY <1>3, <2>3, <2>4, ReadsAlike
  <2>6. \A h \in Generations : h = g
    BY <1>1, <2>2
  <2> QED
    BY <1>5, <2>5, <2>6
<1>6. CASE Counting # {} /\ ~(\A g, h \in Generations : g = h)
  <2> SUFFICES ASSUME \A base \in GetCVSSScore, version \in GetCVSSVersion : OfScore(base) = version
               PROVE  FALSE
    BY <1>6
  <2>1. \A s, r \in Counting : Score(s) = Vector(r)
    <3> HIDE DEF Score, Vector
    <3> QED
      BY <1>2
  <2> HIDE DEF Score, Vector
  <2> QED
    BY <1>1, <1>6, <2>1
<1> QED
  BY <1>4, <1>5, <1>6

-----------------------------------------------------------------------------
(* The two invariants hold before the first step, and every step keeps     *)
(* them; a Fetch is one step, so most of the work of the proofs below is   *)
(* in what that step computes.                                             *)
LEMMA CloudInit == Init => ReportInv /\ ScanInv
<1> SUFFICES ASSUME Init PROVE ReportInv /\ ScanInv
  OBVIOUS
<1>1. ReportInv
  BY RetryAssumption DEF Init, ReportInv, AskForReport, NoReport
<1>2. ScanInv
  BY DEF Init, ScanInv
<1> QED
  BY <1>1, <1>2

(* What is read from the ratings depends on nothing else.                  *)
LEMMA RatingsStay ==
  ASSUME vul' = vul
  PROVE  GetCVSSScore' = GetCVSSScore /\ GetCVSSVersion' = GetCVSSVersion
<1>1. Sources' = Sources
  BY DEF Sources
<1>2. \A field : GetCVSSValue(field)' = GetCVSSValue(field)
  BY <1>1 DEF GetCVSSValue
<1>3. GetCVSSScore' = GetCVSSScore
  BY <1>2 DEF GetCVSSScore
<1>4. GetCVSSVector' = GetCVSSVector
  BY <1>2 DEF GetCVSSVector
<1>5. GetCVSSVersion' = GetCVSSVersion
  BY <1>4 DEF GetCVSSVersion
<1> QED
  BY <1>3, <1>5

(* A step either asks for the report or fetches.                           *)
LEMMA CloudStep == ReportInv /\ ScanInv /\ [Next]_vars => ReportInv' /\ ScanInv'
<1> SUFFICES ASSUME ReportInv, ScanInv, [Next]_vars PROVE ReportInv' /\ ScanInv'
  OBVIOUS
<1>1. CASE UNCHANGED vars
  <2>1. ReportInv'
    BY <1>1 DEF vars, ReportInv, reportVars
  <2>2. ScanInv'
    BY <1>1, RatingsStay DEF vars, ScanInv, scanVars
  <2> QED
    BY <2>1, <2>2
<1>2. CASE ReadReport
  <2>1. ReportInv'
    BY <1>2, ReportStep DEF ReadReport
  <2>2. ScanInv'
    BY <1>2, RatingsStay DEF ReadReport, world, ScanInv, scanVars
  <2> QED
    BY <2>1, <2>2
<1>3. CASE Fetch
  <2>1. ReportInv'
    BY <1>3 DEF Fetch, ReportInv, reportVars
  <2>2. ASSUME task' = "scan" PROVE ScanInv'
    <3>1. GenerateEvent
      BY <1>3, <2>2 DEF Fetch, world
    <3>2. PICK base \in GetCVSSScore, version \in GetCVSSVersion :
            shown' = [base |-> base, version |-> version, reference |-> GetReference]
      BY <3>1 DEF GenerateEvent
    <3>3. shown'.base \in GetCVSSScore /\ shown'.version \in GetCVSSVersion
      BY <3>2
    <3>4. vul' = vul
      BY <3>1 DEF GenerateEvent
    <3> QED
      BY <3>3, <3>4, RatingsStay DEF ScanInv
  <2> QED
    BY <2>1, <2>2 DEF ScanInv
<1> QED
  BY <1>1, <1>2, <1>3 DEF Next

(* Both invariants hold in every state.                                    *)
LEMMA CloudInvariant == Spec => [](ReportInv /\ ScanInv)
  BY CloudInit, CloudStep, PTL DEF Spec

(* The credential report is asked for at most maxRetries + 2 times; it is  *)
(* there exactly when the last answer was the report, and given up after   *)
(* a retry only when all of them are used up.                              *)
THEOREM CloudReportBounded == Spec => []ReportBounded
<1>1. ReportInv => ReportBounded
  BY RetryAssumption DEF ReportInv, ReportBounded
<1> QED
  BY <1>1, CloudInvariant, PTL

(* The score and the version that an event shows are of one rating, the    *)
(* latest of the source that counts.                                       *)
THEOREM CloudCvssAgrees == Spec => []CvssAgrees
  BY ScoreOfVersion, CloudInvariant, PTL

-----------------------------------------------------------------------------
(* What a resource tells.                                                  *)
NoClient(s) == \E p \in {"s3", "sns", "cloudtrail"} : s[1] \notin NewMultiRegionClients(p)

IsTold(t) ==
  \/ t[3] \in {"nil", Truth(t[1], t[2])}
  \/ t[3] = "unset" /\ (UnreadFor(t[1], t[2]) # {} \/ (t[1] \in Blurred /\ NoClient(t[2])))

Tells(S) == \A a \in S : \A t \in a.told : IsTold(t)

(* TellsTruth, by its parts.                                               *)
LEMMA TellsDef == TellsTruth <=> Tells(sent)
  BY DEF TellsTruth, Tells, IsTold, NoClient

(* The answer itself, or none.                                             *)
LEMMA PlainTold ==
  ASSUME NEW op, NEW s
  PROVE  /\ IsTold(<<op, s, Truth(op, s)>>) /\ IsTold(<<op, s, Says(op, s)>>)
         /\ \A c : IsTold(<<op, s, GetClient(c, op, s)>>)
  BY DEF IsTold, Says, GetClient

(* nil that reads as "none", of a call that does.                          *)
LEMMA BlurTold ==
  ASSUME NEW op \in Blurred, NEW s
  PROVE  /\ IsTold(<<op, s, Blur(Says(op, s))>>)
         /\ \A p \in {"s3", "sns", "cloudtrail"} :
              IsTold(<<op, s, Blur(GetClient(NewMultiRegionClients(p), op, s))>>)
<1>1. Fails(op, s) => UnreadFor(op, s) # {}
  <2>1. /\ op \notin {"Asset", "IamPolicy", "DnsPolicy", "UsedForActivityLogs"}
        /\ op \notin Services /\ op \notin BatchTypes
    BY DEF Blurred, Services, BatchTypes
  <2>2. UnreadFor(op, s) = {<<op, s>>} \cap fails
    BY <2>1 DEF UnreadFor
  <2> QED
    BY <2>2 DEF Fails
<1>2. IsTold(<<op, s, Blur(Says(op, s))>>)
  BY <1>1 DEF IsTold, Blur, Says, Truth
<1>3. ASSUME NEW p \in {"s3", "sns", "cloudtrail"}
      PROVE  IsTold(<<op, s, Blur(GetClient(NewMultiRegionClients(p), op, s))>>)
  BY <1>1 DEF IsTold, Blur, GetClient, Says, Truth, NoClient
<1> QED
  BY <1>2, <1>3

(* What the regions answer is what some region answers.                    *)
LEMMA RegionTells ==
  ASSUME NEW answers, \A r \in DOMAIN answers : Tells(answers[r].found)
  PROVE  Tells(MultiRegionFetch(answers).found)
  BY DEF Tells, MultiRegionFetch

(* Fetcher by fetcher: each detail is one of the forms above. S3.          *)
LEMMA S3Tells == Tells(S3Fetch)
<1> DEFINE c == NewMultiRegionClients("s3")
           T(b) == {<<"GetBucketEncryption", b, GetBucketEncryption(c, b)>>,
                    <<"GetBucketPolicy", b, GetBucketPolicy(c, b)>>,
                    <<"GetBucketVersioning", b, GetBucketVersioning(c, b)>>,
                    <<"GetPublicAccessBlock", b, GetPublicAccessBlock(c, b)>>,
                    <<"AccountPublicAccessBlock", Global, GetAccountPublicAccessBlock>>}
<1>1. ASSUME NEW b, NEW t \in T(b) PROVE IsTold(t)
  BY <1>1, PlainTold, BlurTold DEF Blurred, GetBucketEncryption, GetBucketPolicy, GetBucketVersioning,
     GetPublicAccessBlock, GetAccountPublicAccessBlock
<1>2. S3Fetch \in {{}, {Resource("bucket", b, T(b)) : b \in GetBucketsRegionMapping}}
  BY DEF S3Fetch, DescribeBuckets, Return, Failed, Panics
<1> HIDE DEF T
<1> QED
  BY <1>1, <1>2 DEF Tells, Resource

(* Network ACLs, security groups, VPCs and the EBS encryption.             *)
LEMMA NetworkTells == Tells(NetworkFetch)
<1> DEFINE c == NewMultiRegionClients("ec2")
<1>1. Tells(DescribeNetworkAcl(c).found) /\ Tells(DescribeSecurityGroups(c).found)
  <2>1. \A type, op, r : Tells(ListRegion(type, op, r).found)
    BY DEF Tells, ListRegion, Return, Failed, Resource
  <2> QED
    BY <2>1, RegionTells DEF DescribeNetworkAcl, DescribeSecurityGroups
<1>2. Tells(DescribeVPCs(c).found)
  <2> DEFINE Vpc(r) == IF Fails("DescribeVpcs", Wide(r)) THEN Failed
                       ELSE Return({Resource("vpc", v, {<<"DescribeFlowLogs", v, Says("DescribeFlowLogs", v)>>})
                                    : v \in {v \in Within(r) : ~Fails("DescribeFlowLogs", v)}})
  <2>a. \A v : IsTold(<<"DescribeFlowLogs", v, Says("DescribeFlowLogs", v)>>)
    BY PlainTold
  <2>1. \A r : Tells(Vpc(r).found)
    BY <2>a DEF Tells, Return, Failed, Resource
  <2> HIDE DEF Vpc
  <2>2. Tells(MultiRegionFetch([r \in c |-> Vpc(r)]).found)
    BY <2>1, RegionTells
  <2> QED
    BY <2>2 DEF DescribeVPCs, Vpc
<1>3. Tells(GetEbsEncryptionByDefault(c).found)
  <2> DEFINE Ebs(r) == IF Fails("EbsEncryption", Wide(r)) THEN Failed
                       ELSE Return({Resource("ebs", Wide(r),
                                      {<<"EbsEncryption", Wide(r), Says("EbsEncryption", Wide(r))>>})})
  <2>a. \A s : IsTold(<<"EbsEncryption", s, Says("EbsEncryption", s)>>)
    BY PlainTold
  <2>1. \A r : Tells(Ebs(r).found)
    BY <2>a DEF Tells, Return, Failed, Resource
  <2> HIDE DEF Ebs
  <2>2. Tells(MultiRegionFetch([r \in c |-> Ebs(r)]).found)
    BY <2>1, RegionTells
  <2> QED
    BY <2>2 DEF GetEbsEncryptionByDefault, Ebs
<1> QED
  BY <1>1, <1>2, <1>3 DEF NetworkFetch, Tells

(* Instances of RDS, with the routes of their subnets.                     *)
LEMMA RdsTells == Tells(RdsFetch)
<1> DEFINE Db(r) == IF Fails("DescribeDBInstances", Wide(r)) THEN Failed
                    ELSE Return({Resource("db", d, GetDBInstanceSubnets(d)) : d \in Within(r)})
<1>1. ASSUME NEW d, NEW t \in GetDBInstanceSubnets(d) PROVE IsTold(t)
  <2>1. IsTold(<<"SubnetRouteTable", d, GetClient(NewMultiRegionClients("ec2"), "SubnetRouteTable", d)>>)
    BY PlainTold
  <2>2. IsTold(<<"MainRouteTable", d, GetClient(NewMultiRegionClients("ec2"), "MainRouteTable", d)>>)
    BY PlainTold
  <2> QED
    BY <1>1, <2>1, <2>2 DEF GetDBInstanceSubnets, GetRouteTableForSubnet
<1>2. \A r : Tells(Db(r).found)
  BY <1>1 DEF Tells, Return, Failed, Resource
<1> HIDE DEF Db
<1>3. Tells(MultiRegionFetch([r \in NewMultiRegionClients("rds") |-> Db(r)]).found)
  BY <1>2, RegionTells
<1> QED
  BY <1>3 DEF RdsFetch, DescribeDBInstances, Db

(* Keys of KMS.                                                            *)
LEMMA KmsTells == Tells(KmsFetch)
<1> DEFINE Key(r) == IF Fails("ListKeys", Wide(r)) THEN Failed
                     ELSE Return({Resource("key", k, {<<"KeyRotation", k, Says("KeyRotation", k)>>})
                                  : k \in {k \in Within(r) : /\ Says("DescribeKey", k) = "set"
                                                             /\ ~Fails("KeyRotation", k)}})
<1>a. \A k : IsTold(<<"KeyRotation", k, Says("KeyRotation", k)>>)
  BY PlainTold
<1>1. \A r : Tells(Key(r).found)
  BY <1>a DEF Tells, Return, Failed, Resource
<1> HIDE DEF Key
<1>2. Tells(MultiRegionFetch([r \in CurrentRegionClients |-> Key(r)]).found)
  BY <1>1, RegionTells
<1>3. Tells(DescribeSymmetricKeys.found) /\ Tells({})
  BY <1>2 DEF DescribeSymmetricKeys, Key, Tells
<1> QED
  BY <1>3 DEF KmsFetch

(* Password policy, certificates, analyzers, users and policies.           *)
LEMMA IamTells == Tells(IamFetch)
<1>1. Tells(GetPasswordPolicy.found)
  BY DEF Tells, GetPasswordPolicy, Failed, Return, Resource
<1>2. Tells(ListServerCertificates.found)
  <2>1. IsTold(<<"ServerCertificates", Global, Says("ServerCertificates", Global)>>)
    BY PlainTold
  <2> QED
    BY <2>1 DEF Tells, ListServerCertificates, Failed, Return, Resource
<1>3. Tells(GetAccessAnalyzers.found)
  <2>1. \A s : IsTold(<<"ListAnalyzers", s, Says("ListAnalyzers", s)>>)
    BY PlainTold
  <2> QED
    BY <2>1 DEF Tells, GetAccessAnalyzers, Failed, Return, Resource
<1>4. \A ready : Tells(GetUsers(ready).found)
  <2> DEFINE T(u) == GetMFADevices(u) \cup ListInlinePolicies(u)
                     \cup {<<"AttachedPolicies", u, ListAttachedPolicies(u)>>}
             U == {u \in Globals : Truth("ReportRow", u) = "set"} \cup GetRootAccountUser
  <2>1. ASSUME NEW u, NEW t \in T(u) PROVE IsTold(t)
    <3>1. /\ IsTold(<<"MFADevices", u, Blur(Says("MFADevices", u))>>)
          /\ IsTold(<<"InlinePolicies", u, Blur(Says("InlinePolicies", u))>>)
          /\ IsTold(<<"GetUserPolicy", u, Blur(Says("GetUserPolicy", u))>>)
          /\ IsTold(<<"AttachedPolicies", u, ListAttachedPolicies(u)>>)
      BY BlurTold DEF Blurred, ListAttachedPolicies
    <3>2. /\ IsTold(<<"MfaActive", Root, Truth("MfaActive", Root)>>)
          /\ IsTold(<<"VirtualMFADevices", Root, Says("VirtualMFADevices", Root)>>)
      BY PlainTold
    <3>3. ASSUME t \in GetMFADevices(u) PROVE IsTold(t)
      BY <3>1, <3>2, <3>3 DEF GetMFADevices, ListRootMFADevice
    <3>4. ASSUME t \in ListInlinePolicies(u) PROVE IsTold(t)
      BY <3>1, <3>4 DEF ListInlinePolicies
    <3> QED
      BY <2>1, <3>1, <3>3, <3>4
  <2>2. \A ready : GetUsers(ready).found \in {{}, {Resource("user", u, T(u)) : u \in U}}
    BY DEF GetUsers, Failed, Return
  <2> HIDE DEF T, U
  <2> QED
    BY <2>1, <2>2 DEF Tells, Resource
<1>5. Tells(GetPolicies.found)
  <2>1. \A p : IsTold(GetPolicyDocument(p))
    BY PlainTold DEF GetPolicyDocument
  <2>2. IsTold(<<"PolicyRoles", Support, Says("PolicyRoles", Support)>>)
    BY PlainTold
  <2> QED
    BY <2>1, <2>2 DEF Tells, GetPolicies, GetSupportPolicy, Failed, Return, Resource
<1> QED
  BY <1>1, <1>2, <1>3, <1>4, <1>5 DEF IamFetch, Tells

(* The trails of cloudtrail.Provider, told to two fetchers.                *)
LEMMA TrailTells == \A s : \A t \in TrailInfo(s) : IsTold(t)
<1> SUFFICES ASSUME NEW s, NEW t \in TrailInfo(s) PROVE IsTold(t)
  OBVIOUS
<1> DEFINE c == NewMultiRegionClients("cloudtrail")
<1>1. IsTold(<<"TrailStatus", s, GetTrailStatus(c, s)>>)
  BY PlainTold DEF GetTrailStatus
<1>2. IsTold(<<"EventSelectors", s, GetEventSelectors(c, s)>>)
  BY BlurTold DEF GetEventSelectors, Blurred
<1> QED
  BY <1>1, <1>2 DEF TrailInfo

(* A trail is reported as it was described; a failure reports none.        *)
LEMMA DescribeTrailsTells == Tells(DescribeTrails.found)
  BY TrailTells DEF Tells, DescribeTrails, Panics, Failed, Return, Resource

(* Trails with their buckets, and AWS Config.                              *)
LEMMA LoggingTells == Tells(LoggingFetch)
<1>1. ASSUME NEW s, NEW t \in EnrichedTrail(s) PROVE IsTold(t)
  <2> DEFINE c == NewMultiRegionClients("s3")
  <2>1. IsTold(<<"GetBucketPolicy", s, GetBucketPolicy(c, s)>>)
    BY BlurTold DEF GetBucketPolicy, Blurred
  <2>2. IsTold(<<"GetBucketAcl", s, GetBucketACL(c, s)>>)
    BY PlainTold DEF GetBucketACL
  <2>3. IsTold(<<"GetBucketLogging", s, GetBucketLogging(c, s)>>)
    BY BlurTold DEF GetBucketLogging, Blurred
  <2> QED
    BY <1>1, <2>1, <2>2, <2>3, TrailTells DEF EnrichedTrail
<1>2. Tells(LoggingDescribeTrails.found)
  BY <1>1, DescribeTrailsTells DEF Tells, LoggingDescribeTrails, Return, Resource
<1>3. \A t \in DescribeConfigRecorders.found : IsTold(t)
  <2> DEFINE Config(r) == IF Fails("Recorders", Wide(r)) \/ Fails("RecorderStatus", Wide(r)) THEN Failed
                          ELSE Return({<<"Recorders", Wide(r), Says("Recorders", Wide(r))>>})
  <2>1. \A r : \A t \in Config(r).found : IsTold(t)
    <3>1. \A s : IsTold(<<"Recorders", s, Says("Recorders", s)>>)
      BY PlainTold
    <3> QED
      BY <3>1 DEF Failed, Return
  <2> HIDE DEF Config
  <2>2. \A t \in MultiRegionFetch([r \in NewMultiRegionClients("config") |-> Config(r)]).found : IsTold(t)
    BY <2>1 DEF MultiRegionFetch
  <2> QED
    BY <2>2 DEF DescribeConfigRecorders, Config
<1>4. Tells({Resource("config", Global, DescribeConfigRecorders.found)})
  BY <1>3 DEF Tells, Resource
<1>5. LoggingFetch \in {LoggingDescribeTrails.found,
                        LoggingDescribeTrails.found \cup {Resource("config", Global, DescribeConfigRecorders.found)}}
  BY DEF LoggingFetch
<1> QED
  BY <1>2, <1>4, <1>5 DEF Tells

(* Trails with their alarms, and the security hubs.                        *)
LEMMA MonitoringTells == Tells(MonitoringFetch)
<1>1. ASSUME NEW s, NEW t \in MonitoringItem(s) PROVE IsTold(t)
  <2>1. /\ IsTold(<<"MetricFilters", s, DescribeMetricFilters(s)>>) /\ IsTold(<<"Alarms", s, DescribeAlarms(s)>>)
        /\ IsTold(<<"LogGroup", s, Truth("LogGroup", s)>>)
    BY PlainTold DEF DescribeMetricFilters, DescribeAlarms
  <2>2. IsTold(<<"Subscriptions", s, GetSubscriptionForAlarms(s)>>)
    BY BlurTold DEF GetSubscriptionForAlarms, ListSubscriptionsByTopic, Blurred
  <2>3. Truth("LogGroup", s) \in {"set", "unset"}
    BY DEF Truth
  <2>4. \/ t \in TrailInfo(s) \/ t = <<"LogGroup", s, Truth("LogGroup", s)>>
        \/ t = <<"MetricFilters", s, DescribeMetricFilters(s)>> \/ t = <<"Alarms", s, DescribeAlarms(s)>>
        \/ t = <<"Subscriptions", s, GetSubscriptionForAlarms(s)>>
    BY <1>1, <2>3 DEF MonitoringItem
  <2> QED
    BY <2>1, <2>2, <2>4, TrailTells
<1>2. Tells(AggregateResources.found)
  BY <1>1, DescribeTrailsTells DEF Tells, AggregateResources, Return, Resource, Panics
<1>3. DescribeHubs.end # "err" => Tells(DescribeHubs.found)
  <2> DEFINE H == NewMultiRegionClients("securityhub")
             Hub(r) == [found |-> {Resource("hub", Wide(r),
                                     {<<"DescribeHub", Wide(r), Blur(Says("DescribeHub", Wide(r)))>>})},
                        end |-> IF Fails("DescribeHub", Wide(r)) THEN "err" ELSE "ok"]
  <2>1. ASSUME NEW r, Hub(r).end # "err" PROVE Tells(Hub(r).found)
    <3>1. Blur(Says("DescribeHub", Wide(r))) = Truth("DescribeHub", Wide(r))
      BY <2>1 DEF Blur, Says, Truth
    <3>2. IsTold(<<"DescribeHub", Wide(r), Truth("DescribeHub", Wide(r))>>)
      BY PlainTold
    <3> QED
      BY <3>1, <3>2 DEF Tells, Resource
  <2> HIDE DEF Hub
  <2>2. MultiRegionFetch([r \in H |-> Hub(r)]).end # "err" => \A r \in H : Hub(r).end # "err"
    BY DEF MultiRegionFetch
  <2>3. MultiRegionFetch([r \in H |-> Hub(r)]).end # "err" => Tells(MultiRegionFetch([r \in H |-> Hub(r)]).found)
    BY <2>1, <2>2, RegionTells
  <2> QED
    BY <2>3 DEF DescribeHubs, Hub
<1> QED
  BY <1>2, <1>3 DEF MonitoringFetch, Tells

(* What a cluster runs from ECR and behind load balancers tells nothing of *)
(* its own.                                                                *)
LEMMA ClusterTells == Tells(EcrFetch) /\ Tells(ElbFetch)
<1>1. \A r, S : Tells(DescribeRepositories(r, S).found)
  BY DEF Tells, DescribeRepositories, Failed, Return, Resource
<1>2. \A S : Tells(DescribeLoadBalancer(S).found)
  BY DEF Tells, DescribeLoadBalancer, Failed, Return, Resource
<1> QED
  BY <1>1, <1>2 DEF EcrFetch, ElbFetch, Tells

(* Whatever an AWS fetcher sends tells the truth.                          *)
LEMMA AwsTells == task \in DOMAIN AwsCalls => Tells(AwsSends)
<1> SUFFICES ASSUME task \in {"s3", "network", "rds", "kms", "iam", "logging", "monitoring", "ecr", "elb"}
             PROVE  Tells(AwsSends)
  BY DEF AwsCalls
<1> QED
  BY S3Tells, NetworkTells, RdsTells, KmsTells, IamTells, LoggingTells, MonitoringTells, ClusterTells
  DEF AwsSends

-----------------------------------------------------------------------------
(* Which calls a fetcher makes.                                            *)
LEMMA Tasks ==
  /\ DOMAIN AwsCalls = {"s3", "network", "rds", "kms", "iam", "logging", "monitoring", "ecr", "elb"}
  /\ DOMAIN AzureCalls = {"azure_assets", "azure_batch", "azure_insights"}
  /\ DOMAIN GcpCalls = {"gcp_assets", "gcp_monitoring", "gcp_service_usage", "gcp_logging", "gcp_policies"}
  /\ DOMAIN NodeCalls = {"process", "file"}
  /\ DOMAIN BenchmarkCalls = {"cis_aws", "cis_eks", "cis_k8s", "cis_gcp", "cis_azure", "vuln_mgmt"}
  /\ DOMAIN ScanCalls = {"scan"}
<1>1. DOMAIN AwsCalls = {"s3", "network", "rds", "kms", "iam", "logging", "monitoring", "ecr", "elb"}
  BY DEF AwsCalls
<1>2. DOMAIN AzureCalls = {"azure_assets", "azure_batch", "azure_insights"}
  BY DEF AzureCalls
<1>3. DOMAIN GcpCalls = {"gcp_assets", "gcp_monitoring", "gcp_service_usage", "gcp_logging", "gcp_policies"}
  BY DEF GcpCalls
<1>4. DOMAIN NodeCalls = {"process", "file"} /\ DOMAIN ScanCalls = {"scan"}
  BY DEF NodeCalls, ScanCalls
<1>5. DOMAIN BenchmarkCalls = {"cis_aws", "cis_eks", "cis_k8s", "cis_gcp", "cis_azure", "vuln_mgmt"}
  BY DEF BenchmarkCalls
<1> QED
  BY <1>1, <1>2, <1>3, <1>4, <1>5

(* The calls of a task are those of its cloud.                             *)
LEMMA CallsOf ==
  /\ \A k \in DOMAIN AwsCalls : Calls[k] = AwsCalls[k]
  /\ \A k \in DOMAIN AzureCalls : Calls[k] = AzureCalls[k]
  /\ \A k \in DOMAIN GcpCalls : Calls[k] = GcpCalls[k]
  /\ \A k \in DOMAIN NodeCalls : Calls[k] = NodeCalls[k]
  /\ \A k \in DOMAIN BenchmarkCalls : Calls[k] = BenchmarkCalls[k]
  /\ \A k \in DOMAIN ScanCalls : Calls[k] = ScanCalls[k]
  BY Tasks DEF Fetchers, Calls

(* One fetcher runs; what fails and what is unset is something it asks for. *)
AskedInv ==
  /\ home \in Region /\ task \in Fetchers
  /\ task \notin DOMAIN AwsCalls => home = DefaultRegion
  /\ fails \subseteq {c \in Calls[task] : c[1] \notin Fields}
  /\ unset \subseteq {c \in Calls[task] : c[1] \notin Lists}

(* What nobody asks for is there.                                          *)
LEMMA Unasked ==
  ASSUME AskedInv
  PROVE  /\ task \in DOMAIN AzureCalls => \A s : Truth("Subscription", s) = "set"
         /\ task \in DOMAIN GcpCalls => \A s : Truth("Resource", s) = "set"
         /\ task \in DOMAIN BenchmarkCalls => \A s : Truth("EksClusterName", s) = "set"
<1>1. \A k \in DOMAIN AzureCalls : \A c \in AzureCalls[k] : c[1] # "Subscription"
  BY Tasks DEF AzureCalls, Call, Queries, Services, Encryptions, BatchTypes
<1>2. \A k \in DOMAIN GcpCalls : \A c \in GcpCalls[k] : c[1] # "Resource"
  BY Tasks DEF GcpCalls, Call, GcpListings, GcpThings
<1>3. \A k \in DOMAIN BenchmarkCalls : \A c \in BenchmarkCalls[k] : c[1] # "EksClusterName"
  BY Tasks DEF BenchmarkCalls, Call, PostureSteps, BeaterSteps, IdentitySteps, ClusterSteps, GcpSteps, AzureSteps
<1>4. \A c \in unset : c \in Calls[task]
  BY DEF AskedInv
<1>5. \A op, s : <<op, s>>[1] = op
  OBVIOUS
<1> QED
  BY <1>1, <1>2, <1>3, <1>4, <1>5, CallsOf DEF Truth

-----------------------------------------------------------------------------
(* Azure.                                                                  *)
LEMMA CloudAccountTells ==
  ASSUME AskedInv, task \in DOMAIN AzureCalls
  PROVE  \A p : \A t \in CloudAccount(p) : IsTold(t)
<1>1. \A s : <<"Subscription", s, "set">>[1] = "Subscription" /\ <<"Subscription", s, "set">>[2] = s
  OBVIOUS
<1> QED
  BY <1>1, Unasked DEF CloudAccount, IsTold

(* A storage account: whether activity logs use it is blurred by what the  *)
(* enricher could not list.                                                *)
LEMMA StorageTells ==
  ASSUME NEW s \in Things, NEW t \in StorageAccountEnricher(s)
  PROVE  IsTold(t)
<1>n. NoSubscriptions => \A op : "Query" \in op => Places(op) # {}
  BY DEF NoSubscriptions, Fails, Places
<1>1. CASE t \in AddUsedForActivityLogsFlag(s)
  <2> DEFINE none == NoDiagnosticSettings \/ s[1] \notin GetSubscriptions
  <2>1. ~none => t = <<"UsedForActivityLogs", s, Truth("UsedForActivityLogs", s)>>
    BY <1>1 DEF AddUsedForActivityLogsFlag
  <2>2. none => t = <<"UsedForActivityLogs", s, "unset">>
    BY <1>1 DEF AddUsedForActivityLogsFlag
  <2>3. none => UnreadFor("UsedForActivityLogs", s) # {}
    <3>1. UnreadFor("UsedForActivityLogs", s) = Places({"Query", "AncestorsChain", "DiagnosticSettings"})
      BY DEF UnreadFor, Blurred, Services, BatchTypes
    <3>2. s[1] \in Place
      BY DEF Things
    <3>3. ASSUME NEW p \in Place, Fails("DiagnosticSettings", Wide(p))
          PROVE  Places({"Query", "AncestorsChain", "DiagnosticSettings"}) # {}
      BY <3>3 DEF Fails, Places
    <3>4. ASSUME Truth("AncestorsChain", Wide(s[1])) # "set"
          PROVE  Places({"Query", "AncestorsChain", "DiagnosticSettings"}) # {}
      BY <3>4 DEF Truth, Places
    <3> QED
      BY <1>n, <3>1, <3>2, <3>3, <3>4 DEF NoDiagnosticSettings, GetSubscriptions
  <2>4. none => IsTold(<<"UsedForActivityLogs", s, "unset">>)
    BY <2>3 DEF IsTold
  <2> QED
    BY <2>1, <2>2, <2>4, PlainTold
<1>2. CASE t \in AddStorageAccountBlobServices(s)
  BY <1>2 DEF AddStorageAccountBlobServices, ListStorageAccountBlobServices, OfAllAccounts, IsTold
<1>3. CASE t \in AddStorageAccountServicesDiagnosticSettings(s)
  <2>1. PICK v \in Services : t = <<v, s, Blur(OfAllAccounts(v, s))>>
    BY <1>3 DEF AddStorageAccountServicesDiagnosticSettings
  <2>2. UnreadFor(v, s) = Places({"Query", v})
    BY DEF UnreadFor, Blurred, Services, BatchTypes
  <2>3. \A a : Fails(v, a) => Places({"Query", v}) # {}
    BY DEF Fails, Places
  <2>4. OfAllAccounts(v, s) = "nil" => UnreadFor(v, s) # {}
    BY <1>n, <2>2, <2>3 DEF OfAllAccounts, Truth
  <2>5. OfAllAccounts(v, s) \in {"nil", Truth(v, s)}
    BY DEF OfAllAccounts
  <2> QED
    BY <2>1, <2>4, <2>5 DEF IsTold, Blur
<1> QED
  BY <1>1, <1>2, <1>3 DEF StorageAccountEnricher

(* The enrichers of the other assets.                                      *)
LEMMA EnrichTells ==
  ASSUME NEW type, NEW s \in Things, NEW t \in Enrich(type, s)
  PROVE  IsTold(t)
<1>1. CASE type = "storage"
  BY <1>1, StorageTells DEF Enrich
<1>2. CASE type = "vm"
  BY <1>2, BlurTold DEF Enrich, VmNetworkSecurityGroupEnricher, Blurred
<1>3. CASE type = "sql"
  <2>1. /\ IsTold(<<"EncryptionProtector", s, ListSQLEncryptionProtector(s)>>)
        /\ IsTold(<<"BlobAuditPolicy", s, GetSQLBlobAuditingPolicies(s)>>)
    BY PlainTold DEF ListSQLEncryptionProtector, GetSQLBlobAuditingPolicies
  <2>2. \A e : IsTold(<<e, s, ListSQLTransparentDataEncryptions(e, s)>>)
    BY DEF IsTold, ListSQLTransparentDataEncryptions
  <2> QED
    BY <1>3, <2>1, <2>2 DEF Enrich, SqlServerEnricher, EnrichTransparentDataEncryption
<1>4. CASE type \notin {"storage", "vm", "sql"}
  BY <1>4 DEF Enrich
<1> QED
  BY <1>1, <1>2, <1>3, <1>4

(* Whatever an Azure fetcher sends tells the truth.                        *)
LEMMA AzureTells == AskedInv /\ task \in DOMAIN AzureCalls => Tells(AzureSends)
<1> SUFFICES ASSUME AskedInv, task \in DOMAIN AzureCalls PROVE Tells(AzureSends)
  OBVIOUS
<1>1. Tells(AzureAssetsFetch)
  <2> DEFINE T(type, s) == Enrich(type, s) \cup CloudAccount(s[1])
  <2>1. \A type : \A s \in Listed(type) : s \in Things
    BY DEF Listed
  <2>2. \A type : \A s \in Things : \A t \in T(type, s) : IsTold(t)
    BY EnrichTells, CloudAccountTells
  <2>3. AzureAssetsFetch = UNION {{Resource(type, s, T(type, s)) : s \in Listed(type)} : type \in AssetTypes}
    BY DEF AzureAssetsFetch
  <2> HIDE DEF T
  <2>4. \A type : Tells({Resource(type, s, T(type, s)) : s \in Listed(type)})
    BY <2>1, <2>2 DEF Tells, Resource
  <2> QED
    BY <2>3, <2>4 DEF Tells
<1>2. Tells(AzureBatchFetch)
  <2> DEFINE v(type, p) == Blur(IF QueryFails("resources") THEN "nil" ELSE Truth(type, Wide(p)))
             T(type, p) == {<<type, Wide(p), v(type, p)>>} \cup CloudAccount(p)
  <2>1. ASSUME NEW type \in BatchTypes, NEW p PROVE IsTold(<<type, Wide(p), v(type, p)>>)
    <3>1. UnreadFor(type, Wide(p)) = Places({"Query"})
      BY DEF UnreadFor, Blurred, Services, BatchTypes
    <3>2. QueryFails("resources") => Places({"Query"}) # {}
      BY DEF QueryFails, Fails, Places
    <3> QED
      BY <3>1, <3>2 DEF IsTold, Blur, Truth
  <2>2. \A type \in BatchTypes : \A p : \A t \in T(type, p) : IsTold(t)
    BY <2>1, CloudAccountTells
  <2>3. AzureBatchFetch = {Resource(type, Wide(p), T(type, p)) : type \in BatchTypes, p \in GetSubscriptions}
    BY DEF AzureBatchFetch
  <2> HIDE DEF T
  <2> QED
    BY <2>2, <2>3 DEF Tells, Resource
<1>3. Tells(AzureInsightsBatchFetch)
  <2> DEFINE T(p) == {<<"DiagnosticSettings", Wide(p), Truth("DiagnosticSettings", Wide(p))>>} \cup CloudAccount(p)
  <2>1. \A p : \A t \in T(p) : IsTold(t)
    BY PlainTold, CloudAccountTells
  <2>2. AzureInsightsBatchFetch \in {{}, {Resource("diagnostic-settings", Wide(p), T(p)) : p \in GetSubscriptions}}
    BY DEF AzureInsightsBatchFetch
  <2> HIDE DEF T
  <2> QED
    BY <2>1, <2>2 DEF Tells, Resource
<1> QED
  BY <1>1, <1>2, <1>3, Tasks DEF AzureSends

-----------------------------------------------------------------------------
(* GCP.                                                                    *)
LEMMA EcsTells == \A p : \A t \in GetEcsGcpCloudData(p) : IsTold(t)
<1>1. IsTold(<<"OrganizationName", Global, Says("OrganizationName", Global)>>)
  BY PlainTold
<1>2. \A p : IsTold(<<"ProjectName", Wide(p), Says("ProjectName", Wide(p))>>)
  BY PlainTold
<1> QED
  BY <1>1, <1>2 DEF GetEcsGcpCloudData

(* What the listings of a kind tell of each of its assets.                 *)
LEMMA ListingTells ==
  ASSUME AskedInv, task \in DOMAIN GcpCalls, NEW n, NEW s \in DOMAIN ListAllAssetTypesByName(n),
         NEW t \in ListAllAssetTypesByName(n)[s]
  PROVE  IsTold(t)
<1> DEFINE resources == GetAllAssets("ListResources", Group(n))
           policies == GetAllAssets("ListIamPolicies", Group(n))
<1>1. s \in MergeAssetContentType(n, resources, policies) /\ s[2] = n
  BY DEF ListAllAssetTypesByName, MergeAssetContentType, Assets
<1>2. \/ t = <<"Resource", s, IF resources THEN "set" ELSE "nil">>
      \/ t = <<"IamPolicy", s, IF policies THEN Truth("IamPolicy", s) ELSE "unset">>
      \/ t \in ExtendWithECS(s[1])
  BY <1>1 DEF ListAllAssetTypesByName
<1>3. IsTold(<<"Resource", s, IF resources THEN "set" ELSE "nil">>)
  BY Unasked DEF IsTold
<1>4. IsTold(<<"IamPolicy", s, IF policies THEN Truth("IamPolicy", s) ELSE "unset">>)
  <2>1. UnreadFor("IamPolicy", s) = Call({"ListIamPolicies"}, {Group(s[2])}) \cap fails
    BY DEF UnreadFor, Blurred, Services, BatchTypes
  <2>2. ~policies => UnreadFor("IamPolicy", s) # {}
    BY <1>1, <2>1 DEF GetAllAssets, Fails, Call
  <2> QED
    BY <2>2 DEF IsTold
<1> QED
  BY <1>2, <1>3, <1>4, EcsTells DEF ExtendWithECS

(* Networks get their DNS policy and its logging from one listing.         *)
LEMMA AssetsTell ==
  ASSUME AskedInv, task \in DOMAIN GcpCalls
  PROVE  \A S \in GcpAssetsFetch : Tells(S)
<1> DEFINE networks == ListAllAssetTypesByName(First)
           N(s) == networks[s] \cup EnrichNetworkAssets(s)
           compute == {Resource("asset", s, N(s)) : s \in DOMAIN networks}
           Kind(n) == {Resource("asset", s, ListAllAssetTypesByName(n)[s]) : s \in DOMAIN ListAllAssetTypesByName(n)}
           storage == UNION {Kind(n) : n \in Others}
<1>1. ASSUME NEW s, NEW t \in EnrichNetworkAssets(s) PROVE IsTold(t)
  <2>1. UnreadFor("DnsPolicy", s) = Places({"ListDnsPolicies"})
    BY DEF UnreadFor, Blurred, Services, BatchTypes
  <2>2. Fails("ListDnsPolicies", Global) => Places({"ListDnsPolicies"}) # {}
    BY DEF Fails, Places
  <2>3. IsTold(<<"DnsLogging", s, Truth("DnsLogging", s)>>) /\ IsTold(<<"DnsPolicy", s, Truth("DnsPolicy", s)>>)
    BY PlainTold
  <2>4. Fails("ListDnsPolicies", Global) => IsTold(<<"DnsPolicy", s, "unset">>)
    BY <2>1, <2>2 DEF IsTold
  <2>5. Truth("DnsPolicy", s) \in {"set", "unset"}
    BY DEF Truth
  <2> QED
    BY <2>3, <2>4, <2>5 DEF EnrichNetworkAssets
<1>2. \A s \in DOMAIN networks : \A t \in N(s) : IsTold(t)
  BY <1>1, ListingTells
<1>3. Tells(compute)
  <2> HIDE DEF networks, N
  <2> QED
    BY <1>2 DEF Tells, Resource
<1>4. \A n : Tells(Kind(n))
  BY ListingTells DEF Tells, Resource
<1>5. Tells(storage) /\ Tells({})
  <2> HIDE DEF Kind
  <2> QED
    BY <1>4 DEF Tells
<1>6. \A S \in GcpAssetsFetch : S \in {{}, storage, compute \cup storage}
  BY DEF GcpAssetsFetch
<1> HIDE DEF compute, storage
<1> QED
  BY <1>3, <1>5, <1>6 DEF Tells

(* An asset that its project does not tell was not listed.                 *)
LEMMA ProjectTells == Tells(ListByProject)
<1> DEFINE listed == UNION {DOMAIN ListAllAssetTypesByName(n) : n \in Name}
           T(p) == {<<"Asset", s, IF s \in listed THEN "set" ELSE "unset">>
                    : s \in Assets(Name) \cap (Within(p) \cup Globals)} \cup ExtendWithECS(p)
<1>1. ASSUME NEW s \in Assets(Name)
      PROVE  IsTold(<<"Asset", s, IF s \in listed THEN "set" ELSE "unset">>)
  <2>1. Truth("Asset", s) = "set" /\ s[2] \in Name /\ s \in Assets({s[2]})
    BY DEF Assets
  <2>2. UnreadFor("Asset", s) = Call({"ListResources"}, {Group(s[2])}) \cap fails
    BY DEF UnreadFor, Blurred, Services, BatchTypes
  <2>3. s \notin listed => Fails("ListResources", Group(s[2]))
    BY <2>1 DEF ListAllAssetTypesByName, MergeAssetContentType, GetAllAssets
  <2>4. s \notin listed => UnreadFor("Asset", s) # {}
    BY <2>2, <2>3 DEF Fails, Call
  <2> QED
    BY <2>1, <2>4 DEF IsTold
<1>2. \A p : \A t \in T(p) : IsTold(t)
  BY <1>1, EcsTells DEF ExtendWithECS
<1>3. ListByProject = {Resource(task, Wide(p), T(p)) : p \in {s[1] : s \in listed} \ {Whole}}
  BY DEF ListByProject, GetAssetsByProject
<1> HIDE DEF listed, T
<1> QED
  BY <1>2, <1>3 DEF Tells, Resource

(* Ancestors whose policy could not be read are left out.                  *)
LEMMA PoliciesTell == Tells(ListProjectsAncestorsPolicies)
<1> DEFINE ancestors == UNION {GetAncestorsAssets(a) : a \in Globals}
           T(p) == ancestors \cup ExtendWithECS(p)
<1>1. \A a : IsTold(<<"AncestorPolicy", a, Blur(Says("AncestorPolicy", a))>>)
  BY BlurTold DEF Blurred
<1>2. \A t \in ancestors : IsTold(t)
  BY <1>1 DEF GetAncestorsAssets
<1>3. ListProjectsAncestorsPolicies =
        IF ~GetAllAssets("ListIamPolicies", Group(First)) THEN {}
        ELSE {Resource(task, Wide(p), T(p)) : p \in Place}
  BY DEF ListProjectsAncestorsPolicies
<1> HIDE DEF ancestors
<1>4. \A p : \A t \in T(p) : IsTold(t)
  BY <1>2, EcsTells DEF ExtendWithECS
<1> HIDE DEF T
<1> QED
  BY <1>3, <1>4 DEF Tells, Resource

(* Whatever a GCP fetcher sends tells the truth.                           *)
LEMMA GcpTells == AskedInv /\ task \in DOMAIN GcpCalls => \A S \in GcpSends : Tells(S)
  BY AssetsTell, ProjectTells, PoliciesTell, Tasks
  DEF GcpSends, GcpMonitoringFetch, GcpLogSinkFetch, GcpServiceUsageFetch, GcpPoliciesFetch,
      ListMonitoringAssets, ListLoggingAssets, ListServiceUsageAssets

-----------------------------------------------------------------------------
(* A node, a benchmark and a vulnerability.                                *)
LEMMA NodeTells == task \in DOMAIN NodeCalls => \A S \in NodeSends : Tells(S)
<1>1. \A S : Tells(ReadOf(S))
  <2>1. \A s : \A t \in GetProcessConfigurationFile(s) : IsTold(t)
    BY BlurTold DEF GetProcessConfigurationFile, Blurred
  <2> QED
    BY <2>1 DEF Tells, ReadOf, FetchProcessData, Resource
<1>2. Tells({})
  BY DEF Tells
<1>3. Tells(FileSystemFetch)
  <2>1. \A s : IsTold(<<"Owner", s, GetUserNameFromID(s)>>) /\ IsTold(<<"Group", s, GetGroupNameFromID(s)>>)
    BY BlurTold DEF GetUserNameFromID, GetGroupNameFromID, Blurred
  <2>2. \A s : \A t \in FromFileInfo(s) : IsTold(t)
    BY <2>1 DEF FromFileInfo
  <2> QED
    BY <2>2 DEF Tells, FileSystemFetch, Resource
<1> QED
  BY <1>1, <1>2, <1>3, Tasks DEF NodeSends, ProcessesFetch

(* A beater carries the cluster's name, or none.                           *)
LEMMA BenchmarkTells == AskedInv /\ task \in DOMAIN BenchmarkCalls => Tells(BenchmarkSends)
<1> SUFFICES ASSUME AskedInv, task \in DOMAIN BenchmarkCalls PROVE Tells(BenchmarkSends)
  OBVIOUS
<1>1. EksClusterName \in {"nil", "set"}
  BY DEF EksClusterName, EksGetClusterName, GetClusterNameFromInstanceTags,
         GetClusterNameFromAutoscalingGroup, Truth
<1>2. IsTold(<<"EksClusterName", Global, EksClusterName>>)
  BY <1>1, Unasked DEF IsTold
<1>3. IsTold(<<"ClusterIdentifier", Global, KubernetesClusterName>>)
  BY PlainTold DEF KubernetesClusterName
<1>4. Tells({}) /\ (\A keys : Tells(Registered(keys))) /\ Tells(Beater({}))
  BY DEF Tells, Registered, Beater, Resource
<1>5. /\ Tells(Beater({<<"EksClusterName", Global, EksClusterName>>}))
      /\ Tells(Beater({<<"ClusterIdentifier", Global, KubernetesClusterName>>}))
  BY <1>2, <1>3 DEF Tells, Beater, Resource
<1>6. \A S, U : Tells(S) /\ Tells(U) => Tells(S \cup U)
  BY DEF Tells
<1>7. Tells(AwsBenchmark) /\ Tells(EksBenchmark) /\ Tells(K8sBenchmark) /\ Tells(GcpBenchmark)
      /\ Tells(AzureBenchmark)
  BY <1>4, <1>5, <1>6 DEF AwsBenchmark, EksBenchmark, K8sBenchmark, GcpBenchmark, AzureBenchmark
<1>8. task # "vuln_mgmt" => Tells(NewPosture)
  BY <1>4, <1>7, Tasks DEF NewPosture, NewBenchmark
<1>9. Tells(NewVulnerability)
  BY <1>4 DEF NewVulnerability
<1> QED
  BY <1>8, <1>9 DEF BenchmarkSends

(* A vulnerability carries what it was found in.                           *)
LEMMA ScanTells == Tells(ScanSends)
<1>1. \A op : IsTold(<<op, Global, Says(op, Global)>>)
  BY PlainTold
<1> QED
  BY <1>1 DEF Tells, ScanSends, Resource

-----------------------------------------------------------------------------
(* Whatever is fetched tells the truth, whoever fetches it.                *)
LEMMA FetchTells ==
  ASSUME AskedInv, Fetch
  PROVE  Tells(sent')
<1>1. CASE task \in DOMAIN AwsCalls
  BY <1>1, AwsTells, Tasks DEF Fetch
<1>2. CASE task \in DOMAIN AzureCalls
  BY <1>2, AzureTells, Tasks DEF Fetch
<1>3. CASE task \in DOMAIN GcpCalls
  BY <1>3, GcpTells, Tasks DEF Fetch
<1>4. CASE task \in DOMAIN NodeCalls
  BY <1>4, NodeTells, Tasks DEF Fetch
<1>5. CASE task \in DOMAIN BenchmarkCalls
  BY <1>5, BenchmarkTells, Tasks DEF Fetch
<1>6. CASE task \in DOMAIN ScanCalls
  BY <1>6, ScanTells, Tasks DEF Fetch
<1> QED
  BY <1>1, <1>2, <1>3, <1>4, <1>5, <1>6 DEF AskedInv, Fetchers

(* What is told depends on nothing but the world.                          *)
LEMMA WorldTells ==
  ASSUME UNCHANGED world, Tells(sent')
  PROVE  TellsTruth'
<1>1. \A op, s : Truth(op, s)' = Truth(op, s)
  BY DEF world, Truth
<1>2. \A n : Group(n)' = Group(n)
  BY DEF world, Group
<1>3. \A ops : Places(ops)' = Places(ops)
  BY DEF world, Places
<1>4. \A op, s : UnreadFor(op, s)' = UnreadFor(op, s)
  BY <1>2, <1>3 DEF world, UnreadFor
<1>5. \A s : NoClient(s)' <=> NoClient(s)
  BY DEF world, NoClient, NewMultiRegionClients, Fails
<1>6. \A t : IsTold(t)' <=> IsTold(t)
  BY <1>1, <1>4, <1>5 DEF IsTold
<1> QED
  BY <1>6 DEF TellsTruth, Tells, IsTold, NoClient

(* The world a run starts in, and it does not change.                      *)
LEMMA AskedInit == Init => AskedInv
<1> SUFFICES ASSUME Init PROVE AskedInv
  OBVIOUS
<1>1. PICK odd \in [1..MaxOdd -> Calls[task]] :
        /\ fails \in SUBSET {odd[i] : i \in {i \in 1..MaxOdd : odd[i][1] \notin Fields}}
        /\ unset \in SUBSET {odd[i] : i \in {i \in 1..MaxOdd : odd[i][1] \notin Lists}}
  BY DEF Init
<1>2. fails \subseteq {c \in Calls[task] : c[1] \notin Fields}
  BY <1>1
<1>3. unset \subseteq {c \in Calls[task] : c[1] \notin Lists}
  BY <1>1
<1> QED
  BY <1>2, <1>3 DEF Init, AskedInv

(* No step changes what fails or is unset.                                 *)
LEMMA AskedStep == AskedInv /\ [Next]_vars => AskedInv'
<1> SUFFICES ASSUME AskedInv, UNCHANGED world PROVE AskedInv'
  BY DEF Next, ReadReport, Fetch, vars, world
<1> QED
  BY DEF AskedInv, world, Region, Fetchers, Calls

(* A failed call is no finding: what a resource tells is true, or it says  *)
(* nothing, but for the details that read "none" where they were not read. *)
THEOREM CloudTellsTruth == Spec => []TellsTruth
<1>1. Init => TellsTruth
  BY DEF Init, TellsTruth
<1>2. ASSUME AskedInv, TellsTruth, [Next]_vars PROVE TellsTruth'
  <2>1. UNCHANGED world
    BY <1>2 DEF Next, ReadReport, Fetch, vars, world
  <2>2. CASE Fetch
    BY <1>2, <2>1, <2>2, FetchTells, WorldTells
  <2>3. CASE UNCHANGED sent
    BY <1>2, <2>1, <2>3, TellsDef, WorldTells DEF Tells
  <2> QED
    BY <1>2, <2>2, <2>3 DEF Next, ReadReport, vars
<1> QED
  BY <1>1, <1>2, AskedInit, AskedStep, PTL DEF Spec

-----------------------------------------------------------------------------
(* The parts of a pair.                                                    *)
LEMMA Pair == \A x, y : <<x, y>>[1] = x /\ <<x, y>>[2] = y
  OBVIOUS

(* Some region of a service fails.                                         *)
LEMMA EveryRegionFails ==
  ASSUME NEW p, NEW ops
  PROVE  EveryRegion(p, ops) \cap fails # {}
         <=> \E op \in ops, r \in NewMultiRegionClients(p) : Fails(op, Wide(r))
<1> DEFINE W == {Wide(r) : r \in NewMultiRegionClients(p)}
<1>1. EveryRegion(p, ops) = ops \X W
  BY DEF EveryRegion, Call
<1>2. \A op, w : <<op, w>> \in ops \X W <=> op \in ops /\ w \in W
  OBVIOUS
<1>3. \A c \in ops \X W : c = <<c[1], c[2]>> /\ c[1] \in ops /\ c[2] \in W
  OBVIOUS
<1>4. ASSUME NEW op \in ops, NEW r \in NewMultiRegionClients(p), Fails(op, Wide(r))
      PROVE  (ops \X W) \cap fails # {}
  BY <1>2, <1>4 DEF Fails
<1>5. ASSUME NEW c \in ops \X W, c \in fails
      PROVE  \E op \in ops, r \in NewMultiRegionClients(p) : Fails(op, Wide(r))
  <2>1. PICK r \in NewMultiRegionClients(p) : c[2] = Wide(r)
    BY <1>3
  <2> QED
    BY <1>3, <1>5, <2>1 DEF Fails
<1> QED
  BY <1>1, <1>4, <1>5

(* A resource is asked for through one client.                             *)
LEMMA ThroughOne ==
  ASSUME NEW p, NEW r
  PROVE  (\E pr \in {<<p, r>>} : pr[2] \notin NewMultiRegionClients(pr[1])) <=> r \notin NewMultiRegionClients(p)
<1>1. <<p, r>>[1] = p /\ <<p, r>>[2] = r
  OBVIOUS
<1> QED
  BY <1>1

(* What a resource of AWS is lost to, type by type.                        *)
LEMMA Hidden ==
  ASSUME NEW s
  PROVE  /\ AwsHidden("bucket", s) <=> \/ Fails("ListBuckets", Global) \/ Fails("GetBucketLocation", s)
                                       \/ DefaultRegion \notin NewMultiRegionClients("s3")
         /\ AwsHidden("nacl", s) <=> \/ Fails("DescribeNetworkAcls", Wide(s[1]))
                                     \/ s[1] \notin NewMultiRegionClients("ec2")
         /\ AwsHidden("sg", s) <=> \/ Fails("DescribeSecurityGroups", Wide(s[1]))
                                   \/ s[1] \notin NewMultiRegionClients("ec2")
         /\ AwsHidden("vpc", s) <=> \/ Fails("DescribeVpcs", Wide(s[1])) \/ Fails("DescribeFlowLogs", s)
                                    \/ s[1] \notin NewMultiRegionClients("ec2")
         /\ AwsHidden("ebs", s) <=> \/ Fails("EbsEncryption", s) \/ s[1] \notin NewMultiRegionClients("ec2")
         /\ AwsHidden("db", s) <=> \/ Fails("DescribeDBInstances", Wide(s[1]))
                                   \/ s[1] \notin NewMultiRegionClients("rds")
         /\ AwsHidden("key", s) <=> \/ Fails("ListKeys", Wide(s[1])) \/ Fails("DescribeKey", s)
                                    \/ Fails("KeyRotation", s)
         /\ AwsHidden("repo", s) <=> \/ Fails("Pods", Global) \/ Fails("DescribeRepositories", Wide(s[1]))
                                     \/ s[1] \notin NewMultiRegionClients("ecr")
         /\ AwsHidden("elb", s) <=> \/ Fails("Services", Global)
                                    \/ Fails("DescribeLoadBalancers", Wide(s[1]))
         /\ AwsHidden("pwd-policy", s) <=> Fails("PasswordPolicy", Global)
         /\ AwsHidden("certificates", s) <=> Fails("ServerCertificates", Global)
         /\ AwsHidden("trail", s) <=> \/ Fails("DescribeTrails", Global)
                                      \/ DefaultRegion \notin NewMultiRegionClients("cloudtrail")
         /\ AwsHidden("monitoring", s) <=> \/ Fails("DescribeTrails", Global) \/ Unnamed
                                           \/ DefaultRegion \notin NewMultiRegionClients("cloudtrail")
         /\ AwsHidden("analyzers", s) <=> \E r \in NewMultiRegionClients("iam") : Fails("ListAnalyzers", Wide(r))
         /\ AwsHidden("config", s) <=> \/ DefaultRegion \notin NewMultiRegionClients("cloudtrail")
                                       \/ \E r \in NewMultiRegionClients("config") : Fails("Recorders", Wide(r)) \/ Fails("RecorderStatus", Wide(r))
         /\ AwsHidden("hub", s) <=> \/ DefaultRegion \notin NewMultiRegionClients("cloudtrail") \/ Unnamed
                                    \/ s[1] \notin NewMultiRegionClients("securityhub")
                                    \/ \E r \in NewMultiRegionClients("securityhub") : Fails("DescribeHub", Wide(r))
         /\ AwsHidden("policy", s) <=> \/ Fails("ListPolicies", Global) \/ Fails("GetPolicy", Support)
                                       \/ Fails("PolicyRoles", Support)
                                       \/ \E p \in Policies : Fails("PolicyDocument", p)
         /\ AwsHidden("user", s) <=> Fails("ListUsers", Global) \/ report # "ready"
<1>1. AwsHidden("bucket", s) <=> \/ Fails("ListBuckets", Global) \/ Fails("GetBucketLocation", s)
                                 \/ DefaultRegion \notin NewMultiRegionClients("s3")
  <2>1. HidingCalls("bucket", s) = {<<"ListBuckets", Global>>, <<"GetBucketLocation", s>>}
    BY DEF HidingCalls
  <2>2. ThroughClients("bucket", s) = {<<"s3", DefaultRegion>>}
    BY DEF ThroughClients
  <2>3. HidingCalls("bucket", s) \cap fails # {} <=> Fails("ListBuckets", Global) \/ Fails("GetBucketLocation", s)
    BY <2>1 DEF Fails
  <2> QED
    BY <2>2, <2>3, ThroughOne DEF AwsHidden
<1>2. AwsHidden("nacl", s) <=> \/ Fails("DescribeNetworkAcls", Wide(s[1]))
                               \/ s[1] \notin NewMultiRegionClients("ec2")
  <2>1. HidingCalls("nacl", s) = {<<"DescribeNetworkAcls", Wide(s[1])>>}
    BY DEF HidingCalls
  <2>2. ThroughClients("nacl", s) = {<<"ec2", s[1]>>}
    BY DEF ThroughClients
  <2>3. HidingCalls("nacl", s) \cap fails # {} <=> Fails("DescribeNetworkAcls", Wide(s[1]))
    BY <2>1 DEF Fails
  <2> QED
    BY <2>2, <2>3, ThroughOne DEF AwsHidden
<1>3. AwsHidden("sg", s) <=> \/ Fails("DescribeSecurityGroups", Wide(s[1]))
                             \/ s[1] \notin NewMultiRegionClients("ec2")
  <2>1. HidingCalls("sg", s) = {<<"DescribeSecurityGroups", Wide(s[1])>>}
    BY DEF HidingCalls
  <2>2. ThroughClients("sg", s) = {<<"ec2", s[1]>>}
    BY DEF ThroughClients
  <2>3. HidingCalls("sg", s) \cap fails # {} <=> Fails("DescribeSecurityGroups", Wide(s[1]))
    BY <2>1 DEF Fails
  <2> QED
    BY <2>2, <2>3, ThroughOne DEF AwsHidden
<1>4. AwsHidden("vpc", s) <=> \/ Fails("DescribeVpcs", Wide(s[1])) \/ Fails("DescribeFlowLogs", s)
                              \/ s[1] \notin NewMultiRegionClients("ec2")
  <2>1. HidingCalls("vpc", s) = {<<"DescribeVpcs", Wide(s[1])>>, <<"DescribeFlowLogs", s>>}
    BY DEF HidingCalls
  <2>2. ThroughClients("vpc", s) = {<<"ec2", s[1]>>}
    BY DEF ThroughClients
  <2>3. HidingCalls("vpc", s) \cap fails # {} <=> Fails("DescribeVpcs", Wide(s[1])) \/ Fails("DescribeFlowLogs", s)
    BY <2>1 DEF Fails
  <2> QED
    BY <2>2, <2>3, ThroughOne DEF AwsHidden
<1>5. AwsHidden("ebs", s) <=> \/ Fails("EbsEncryption", s) \/ s[1] \notin NewMultiRegionClients("ec2")
  <2>1. HidingCalls("ebs", s) = {<<"EbsEncryption", s>>}
    BY DEF HidingCalls
  <2>2. ThroughClients("ebs", s) = {<<"ec2", s[1]>>}
    BY DEF ThroughClients
  <2>3. HidingCalls("ebs", s) \cap fails # {} <=> Fails("EbsEncryption", s)
    BY <2>1 DEF Fails
  <2> QED
    BY <2>2, <2>3, ThroughOne DEF AwsHidden
<1>6. AwsHidden("db", s) <=> \/ Fails("DescribeDBInstances", Wide(s[1]))
                             \/ s[1] \notin NewMultiRegionClients("rds")
  <2>1. HidingCalls("db", s) = {<<"DescribeDBInstances", Wide(s[1])>>}
    BY DEF HidingCalls
  <2>2. ThroughClients("db", s) = {<<"rds", s[1]>>}
    BY DEF ThroughClients
  <2>3. HidingCalls("db", s) \cap fails # {} <=> Fails("DescribeDBInstances", Wide(s[1]))
    BY <2>1 DEF Fails
  <2> QED
    BY <2>2, <2>3, ThroughOne DEF AwsHidden
<1>7. AwsHidden("key", s) <=> \/ Fails("ListKeys", Wide(s[1])) \/ Fails("DescribeKey", s)
                              \/ Fails("KeyRotation", s)
  <2>1. HidingCalls("key", s) = {<<"ListKeys", Wide(s[1])>>, <<"DescribeKey", s>>, <<"KeyRotation", s>>}
    BY DEF HidingCalls
  <2>2. ThroughClients("key", s) = {}
    BY DEF ThroughClients
  <2>3. HidingCalls("key", s) \cap fails # {} <=> Fails("ListKeys", Wide(s[1])) \/ Fails("DescribeKey", s) \/ Fails("KeyRotation", s)
    BY <2>1 DEF Fails
  <2> QED
    BY <2>2, <2>3 DEF AwsHidden
<1>8. AwsHidden("repo", s) <=> \/ Fails("Pods", Global) \/ Fails("DescribeRepositories", Wide(s[1]))
                               \/ s[1] \notin NewMultiRegionClients("ecr")
  <2>1. HidingCalls("repo", s) = {<<"Pods", Global>>, <<"DescribeRepositories", Wide(s[1])>>}
    BY DEF HidingCalls
  <2>2. ThroughClients("repo", s) = {<<"ecr", s[1]>>}
    BY DEF ThroughClients
  <2>3. HidingCalls("repo", s) \cap fails # {} <=> Fails("Pods", Global) \/ Fails("DescribeRepositories", Wide(s[1]))
    BY <2>1 DEF Fails
  <2> QED
    BY <2>2, <2>3, ThroughOne DEF AwsHidden
<1>9. AwsHidden("elb", s) <=> \/ Fails("Services", Global)
                              \/ Fails("DescribeLoadBalancers", Wide(s[1]))
  <2>1. HidingCalls("elb", s) = {<<"Services", Global>>, <<"DescribeLoadBalancers", Wide(s[1])>>}
    BY DEF HidingCalls
  <2>2. ThroughClients("elb", s) = {}
    BY DEF ThroughClients
  <2>3. HidingCalls("elb", s) \cap fails # {} <=> Fails("Services", Global) \/ Fails("DescribeLoadBalancers", Wide(s[1]))
    BY <2>1 DEF Fails
  <2> QED
    BY <2>2, <2>3 DEF AwsHidden
<1>10. AwsHidden("pwd-policy", s) <=> Fails("PasswordPolicy", Global)
  <2>1. HidingCalls("pwd-policy", s) = {<<"PasswordPolicy", Global>>}
    BY DEF HidingCalls
  <2>2. ThroughClients("pwd-policy", s) = {}
    BY DEF ThroughClients
  <2>3. HidingCalls("pwd-policy", s) \cap fails # {} <=> Fails("PasswordPolicy", Global)
    BY <2>1 DEF Fails
  <2> QED
    BY <2>2, <2>3 DEF AwsHidden
<1>11. AwsHidden("certificates", s) <=> Fails("ServerCertificates", Global)
  <2>1. HidingCalls("certificates", s) = {<<"ServerCertificates", Global>>}
    BY DEF HidingCalls
  <2>2. ThroughClients("certificates", s) = {}
    BY DEF ThroughClients
  <2>3. HidingCalls("certificates", s) \cap fails # {} <=> Fails("ServerCertificates", Global)
    BY <2>1 DEF Fails
  <2> QED
    BY <2>2, <2>3 DEF AwsHidden
<1>12. AwsHidden("trail", s) <=> \/ Fails("DescribeTrails", Global)
                                 \/ DefaultRegion \notin NewMultiRegionClients("cloudtrail")
  <2>1. HidingCalls("trail", s) = {<<"DescribeTrails", Global>>}
    BY DEF HidingCalls
  <2>2. ThroughClients("trail", s) = {<<"cloudtrail", DefaultRegion>>}
    BY DEF ThroughClients
  <2>3. HidingCalls("trail", s) \cap fails # {} <=> Fails("DescribeTrails", Global)
    BY <2>1 DEF Fails
  <2> QED
    BY <2>2, <2>3, ThroughOne DEF AwsHidden
<1>13. AwsHidden("monitoring", s) <=> \/ Fails("DescribeTrails", Global) \/ Unnamed
                                      \/ DefaultRegion \notin NewMultiRegionClients("cloudtrail")
  <2>1. HidingCalls("monitoring", s) = {<<"DescribeTrails", Global>>}
    BY DEF HidingCalls
  <2>2. ThroughClients("monitoring", s) = {<<"cloudtrail", DefaultRegion>>}
    BY DEF ThroughClients
  <2>3. HidingCalls("monitoring", s) \cap fails # {} <=> Fails("DescribeTrails", Global)
    BY <2>1 DEF Fails
  <2> QED
    BY <2>2, <2>3, ThroughOne DEF AwsHidden
<1>14. AwsHidden("analyzers", s) <=> \E r \in NewMultiRegionClients("iam") : Fails("ListAnalyzers", Wide(r))
  <2>1. HidingCalls("analyzers", s) = EveryRegion("iam", {"ListAnalyzers"})
    BY DEF HidingCalls
  <2>2. ThroughClients("analyzers", s) = {}
    BY DEF ThroughClients
  <2>3. HidingCalls("analyzers", s) \cap fails # {}
        <=> \E r \in NewMultiRegionClients("iam") : Fails("ListAnalyzers", Wide(r))
    BY <2>1, EveryRegionFails
  <2> QED
    BY <2>2, <2>3 DEF AwsHidden
<1>15. AwsHidden("config", s) <=> \/ DefaultRegion \notin NewMultiRegionClients("cloudtrail")
                                  \/ \E r \in NewMultiRegionClients("config") : Fails("Recorders", Wide(r)) \/ Fails("RecorderStatus", Wide(r))
  <2>1. HidingCalls("config", s) = EveryRegion("config", {"Recorders", "RecorderStatus"})
    BY DEF HidingCalls
  <2>2. ThroughClients("config", s) = {<<"cloudtrail", DefaultRegion>>}
    BY DEF ThroughClients
  <2>3. HidingCalls("config", s) \cap fails # {}
        <=> \E r \in NewMultiRegionClients("config") : Fails("Recorders", Wide(r)) \/ Fails("RecorderStatus", Wide(r))
    BY <2>1, EveryRegionFails
  <2> QED
    BY <2>2, <2>3, ThroughOne DEF AwsHidden
<1>16. AwsHidden("hub", s) <=> \/ DefaultRegion \notin NewMultiRegionClients("cloudtrail") \/ Unnamed
                               \/ s[1] \notin NewMultiRegionClients("securityhub")
                               \/ \E r \in NewMultiRegionClients("securityhub") : Fails("DescribeHub", Wide(r))
  <2>1. HidingCalls("hub", s) = EveryRegion("securityhub", {"DescribeHub"})
    BY DEF HidingCalls
  <2>2. ThroughClients("hub", s) = {<<"cloudtrail", DefaultRegion>>, <<"securityhub", s[1]>>}
    BY DEF ThroughClients
  <2>3. HidingCalls("hub", s) \cap fails # {}
        <=> \E r \in NewMultiRegionClients("securityhub") : Fails("DescribeHub", Wide(r))
    BY <2>1, EveryRegionFails
  <2> QED
    BY <2>2, <2>3, ThroughOne DEF AwsHidden
<1>17. AwsHidden("policy", s) <=> \/ Fails("ListPolicies", Global) \/ Fails("GetPolicy", Support)
                                  \/ Fails("PolicyRoles", Support)
                                  \/ \E p \in Policies : Fails("PolicyDocument", p)
  <2>1. HidingCalls("policy", s) = {<<"ListPolicies", Global>>, <<"GetPolicy", Support>>,
           <<"PolicyRoles", Support>>} \cup ({"PolicyDocument"} \X Policies)
    BY DEF HidingCalls, Call
  <2>2. ThroughClients("policy", s) = {}
    BY DEF ThroughClients
  <2>3. ({"PolicyDocument"} \X Policies) \cap fails # {} <=> \E p \in Policies : Fails("PolicyDocument", p)
    <3>1. \A p : <<"PolicyDocument", p>> \in {"PolicyDocument"} \X Policies <=> p \in Policies
      OBVIOUS
    <3>2. \A c \in {"PolicyDocument"} \X Policies : c = <<"PolicyDocument", c[2]>> /\ c[2] \in Policies
      OBVIOUS
    <3> QED
      BY <3>1, <3>2 DEF Fails
  <2>4. HidingCalls("policy", s) \cap fails # {}
        <=> \/ <<"ListPolicies", Global>> \in fails \/ <<"GetPolicy", Support>> \in fails
            \/ <<"PolicyRoles", Support>> \in fails \/ ({"PolicyDocument"} \X Policies) \cap fails # {}
    BY <2>1
  <2> QED
    BY <2>2, <2>3, <2>4 DEF AwsHidden, Fails
<1>18. AwsHidden("user", s) <=> Fails("ListUsers", Global) \/ report # "ready"
  <2>1. HidingCalls("user", s) = {<<"ListUsers", Global>>} /\ ThroughClients("user", s) = {}
    BY DEF HidingCalls, ThroughClients
  <2> QED
    BY <2>1 DEF AwsHidden, Fails
<1> QED
  BY <1>1, <1>2, <1>3, <1>4, <1>5, <1>6, <1>7, <1>8, <1>9, <1>10, <1>11, <1>12, <1>13, <1>14, <1>15, <1>16, <1>17, <1>18

-----------------------------------------------------------------------------
(* What is reported, by type and place.                                    *)
Found(S) == {<<a.type, a.at>> : a \in S}
Pairs(type, X) == {<<type, s>> : s \in X}
ShownOf(E) == {e \in E : ~AwsHidden(e[1], e[2])}
AwsShown == ShownOf(AwsExists)

(* What is found in two answers is found in their union.                   *)
LEMMA FoundUnion == Found({}) = {} /\ \A S, U : Found(S \cup U) = Found(S) \cup Found(U)
  BY DEF Found

(* What is shown of one type.                                              *)
LEMMA ShownPairs ==
  ASSUME NEW type, NEW X
  PROVE  ShownOf({type} \X X) = Pairs(type, {s \in X : ~AwsHidden(type, s)})
<1>1. \A s : <<type, s>> \in {type} \X X <=> s \in X
  OBVIOUS
<1>2. \A e \in {type} \X X : e = <<type, e[2]>> /\ e[1] = type /\ e[2] \in X
  OBVIOUS
<1>3. \A s : <<type, s>>[1] = type /\ <<type, s>>[2] = s
  OBVIOUS
<1> QED
  BY <1>1, <1>2, <1>3 DEF Pairs, ShownOf

(* What is shown of two types, and of four.                                *)
LEMMA ShownUnion == \A E, F : ShownOf(E \cup F) = ShownOf(E) \cup ShownOf(F)
  BY DEF ShownOf

(* Four types at once, as the network and IAM fetchers report them.        *)
LEMMA ShownFour ==
  ASSUME NEW A, NEW B, NEW C, NEW D
  PROVE  ShownOf((A \cup B) \cup (C \cup D)) = (ShownOf(A) \cup ShownOf(B)) \cup (ShownOf(C) \cup ShownOf(D))
  BY DEF ShownOf

(* The same of what is found.                                              *)
LEMMA FoundFour ==
  ASSUME NEW A, NEW B, NEW C, NEW D
  PROVE  Found((A \cup B) \cup (C \cup D)) = (Found(A) \cup Found(B)) \cup (Found(C) \cup Found(D))
  BY DEF Found

(* There are clients for existing regions only.                            *)
LEMMA ClientsAreRegions == AskedInv => \A p : NewMultiRegionClients(p) \subseteq Place /\ home \in Place
  BY DEF AskedInv, NewMultiRegionClients, Region

(* Things and places by their region.                                      *)
LEMMA Regions ==
  /\ \A r \in Place : Within(r) = {s \in Things : s[1] = r} /\ {Wide(r)} = {s \in Wides : s[1] = r}
  /\ \A s \in Things : s[1] \in Place
  /\ \A s \in Wides : s[1] \in Place /\ Wide(s[1]) = s
<1>1. \A r \in Place : Within(r) = {s \in Things : s[1] = r}
  BY DEF Within, Things
<1>2. \A r : Wide(r)[1] = r
  BY DEF Wide
<1>3. \A s \in Wides : s[1] \in Place /\ Wide(s[1]) = s
  BY <1>2 DEF Wides
<1>4. \A r \in Place : Wide(r) \in Wides
  BY DEF Wides
<1>5. \A r \in Place : {Wide(r)} = {s \in Wides : s[1] = r}
  BY <1>2, <1>3, <1>4
<1>6. \A s \in Things : s[1] \in Place
  BY DEF Things
<1> QED
  BY <1>1, <1>3, <1>5, <1>6

(* What each region lists, and what they list together.                    *)
LEMMA RegionFound ==
  ASSUME NEW type, NEW X, NEW answers,
         \A r \in DOMAIN answers : Found(answers[r].found) = Pairs(type, {s \in X : s[1] = r})
  PROVE  Found(MultiRegionFetch(answers).found) = Pairs(type, {s \in X : s[1] \in DOMAIN answers})
<1> DEFINE all == MultiRegionFetch(answers).found
           good == {s \in X : s[1] \in DOMAIN answers}
<1>1. all = UNION {answers[r].found : r \in DOMAIN answers}
  BY DEF MultiRegionFetch
<1>2. ASSUME NEW x \in Found(all) PROVE x \in Pairs(type, good)
  <2>1. PICK a \in all : x = <<a.type, a.at>>
    BY <1>2 DEF Found
  <2>2. PICK r \in DOMAIN answers : a \in answers[r].found
    BY <1>1, <2>1
  <2>3. x \in Found(answers[r].found)
    BY <2>1, <2>2 DEF Found
  <2> QED
    BY <2>3 DEF Pairs
<1>3. ASSUME NEW x \in Pairs(type, good) PROVE x \in Found(all)
  <2>1. PICK s \in X : s[1] \in DOMAIN answers /\ x = <<type, s>>
    BY <1>3 DEF Pairs
  <2>2. x \in Found(answers[s[1]].found)
    BY <2>1 DEF Pairs
  <2>3. answers[s[1]].found \subseteq all
    BY <1>1, <2>1
  <2> QED
    BY <2>2, <2>3 DEF Found
<1> QED
  BY <1>2, <1>3

(* One resource per place, whatever it tells.                              *)
LEMMA FoundOf ==
  ASSUME NEW type, NEW X, NEW told
  PROVE  Found({Resource(type, s, told[s]) : s \in X}) = Pairs(type, X)
<1> DEFINE R(s) == Resource(type, s, told[s])
<1>1. \A s : R(s).type = type /\ R(s).at = s
  BY DEF Resource
<1> HIDE DEF R
<1>2. Found({R(s) : s \in X}) = {<<R(s).type, R(s).at>> : s \in X}
  BY DEF Found
<1>3. {<<R(s).type, R(s).at>> : s \in X} = {<<type, s>> : s \in X}
  BY <1>1
<1>4. Found({R(s) : s \in X}) = Pairs(type, X)
  BY <1>2, <1>3 DEF Pairs
<1> QED
  BY <1>4 DEF R

(* Fetcher by fetcher: what is sent is what exists and no failed call      *)
(* hides. Most have a part per type, where the code's condition for a      *)
(* resource is compared with HidingCalls and ThroughClients. S3.           *)
LEMMA S3Found == task = "s3" => Found(S3Fetch) = AwsShown
<1> SUFFICES ASSUME task = "s3" PROVE Found(S3Fetch) = AwsShown
  OBVIOUS
<1> DEFINE good == {b \in Things : ~AwsHidden("bucket", b)}
<1>1. AwsShown = Pairs("bucket", good)
  <2>1. AwsExists = {"bucket"} \X Things
    BY DEF AwsExists
  <2> QED
    BY <2>1, ShownPairs DEF AwsShown
<1>2. CASE DefaultRegion \notin NewMultiRegionClients("s3") \/ Fails("ListBuckets", Global)
  <2>1. S3Fetch = {}
    BY <1>2 DEF S3Fetch, DescribeBuckets, Panics, Failed
  <2>2. good = {}
    BY <1>2, Hidden
  <2> QED
    BY <1>1, <2>1, <2>2 DEF Found, Pairs
<1>3. CASE ~(DefaultRegion \notin NewMultiRegionClients("s3") \/ Fails("ListBuckets", Global))
  <2> DEFINE c == NewMultiRegionClients("s3")
             T(b) == {<<"GetBucketEncryption", b, GetBucketEncryption(c, b)>>,
                      <<"GetBucketPolicy", b, GetBucketPolicy(c, b)>>,
                      <<"GetBucketVersioning", b, GetBucketVersioning(c, b)>>,
                      <<"GetPublicAccessBlock", b, GetPublicAccessBlock(c, b)>>,
                      <<"AccountPublicAccessBlock", Global, GetAccountPublicAccessBlock>>}
  <2>1. S3Fetch = {Resource("bucket", b, T(b)) : b \in GetBucketsRegionMapping}
    BY <1>3 DEF S3Fetch, DescribeBuckets, Return
  <2>2. Found(S3Fetch) = Pairs("bucket", GetBucketsRegionMapping)
    <3> DEFINE told == [b \in GetBucketsRegionMapping |-> T(b)]
    <3>1. \A b \in GetBucketsRegionMapping : told[b] = T(b)
      OBVIOUS
    <3> HIDE DEF T, told
    <3>2. S3Fetch = {Resource("bucket", b, told[b]) : b \in GetBucketsRegionMapping}
      BY <2>1, <3>1
    <3> QED
      BY <3>2, FoundOf
  <2>3. good = GetBucketsRegionMapping
    BY <1>3, Hidden DEF GetBucketsRegionMapping
  <2> QED
    BY <1>1, <2>2, <2>3
<1> QED
  BY <1>2, <1>3

(* A listing per region, with one resource per element.                    *)
LEMMA ListFound ==
  ASSUME AskedInv, NEW p, NEW type, NEW op
  PROVE  Found(MultiRegionFetch([r \in NewMultiRegionClients(p) |-> ListRegion(type, op, r)]).found)
         = Pairs(type, {s \in Things : ~Fails(op, Wide(s[1])) /\ s[1] \in NewMultiRegionClients(p)})
<1> DEFINE X == {s \in Things : ~Fails(op, Wide(s[1]))}
           answers == [r \in NewMultiRegionClients(p) |-> ListRegion(type, op, r)]
<1>1. ASSUME NEW r \in NewMultiRegionClients(p)
      PROVE  Found(ListRegion(type, op, r).found) = Pairs(type, {s \in X : s[1] = r})
  <2>1. r \in Place
    BY ClientsAreRegions
  <2>2. CASE Fails(op, Wide(r))
    <3>1. ListRegion(type, op, r).found = {} /\ {s \in X : s[1] = r} = {}
      BY <2>2 DEF ListRegion, Failed
    <3> QED
      BY <3>1, FoundUnion DEF Pairs
  <2>3. CASE ~Fails(op, Wide(r))
    <3>1. {s \in X : s[1] = r} = Within(r)
      BY <2>1, <2>3, Regions
    <3> DEFINE told == [s \in Within(r) |-> {}]
    <3>2. ListRegion(type, op, r).found = {Resource(type, s, told[s]) : s \in Within(r)}
      BY <2>3 DEF ListRegion, Return
    <3> QED
      BY <3>1, <3>2, FoundOf
  <2> QED
    BY <2>2, <2>3
<1>2. \A r \in DOMAIN answers : Found(answers[r].found) = Pairs(type, {s \in X : s[1] = r})
  BY <1>1
<1>3. {s \in X : s[1] \in DOMAIN answers}
      = {s \in Things : ~Fails(op, Wide(s[1])) /\ s[1] \in NewMultiRegionClients(p)}
  OBVIOUS
<1> HIDE DEF X, answers
<1>4. Found(MultiRegionFetch(answers).found) = Pairs(type, {s \in X : s[1] \in DOMAIN answers})
  BY <1>2, RegionFound
<1> QED
  BY <1>3, <1>4 DEF answers

(* VPCs need their flow logs as well.                                      *)
LEMMA VpcFound ==
  ASSUME AskedInv, NEW p
  PROVE  Found(DescribeVPCs(NewMultiRegionClients(p)).found)
         = Pairs("vpc", {s \in Things : /\ ~Fails("DescribeVpcs", Wide(s[1])) /\ ~Fails("DescribeFlowLogs", s)
                                        /\ s[1] \in NewMultiRegionClients(p)})
<1> DEFINE X == {s \in Things : ~Fails("DescribeVpcs", Wide(s[1])) /\ ~Fails("DescribeFlowLogs", s)}
           T(v) == {<<"DescribeFlowLogs", v, Says("DescribeFlowLogs", v)>>}
           kept(r) == {v \in Within(r) : ~Fails("DescribeFlowLogs", v)}
           answers == [r \in NewMultiRegionClients(p) |->
                         IF Fails("DescribeVpcs", Wide(r)) THEN Failed
                         ELSE Return({Resource("vpc", v, T(v)) : v \in kept(r)})]
<1>1. ASSUME NEW r \in NewMultiRegionClients(p)
      PROVE  Found(answers[r].found) = Pairs("vpc", {s \in X : s[1] = r})
  <2>1. r \in Place
    BY ClientsAreRegions
  <2>2. CASE Fails("DescribeVpcs", Wide(r))
    <3>1. answers[r].found = {} /\ {s \in X : s[1] = r} = {}
      BY <2>2 DEF Failed
    <3> QED
      BY <3>1, FoundUnion DEF Pairs
  <2>3. CASE ~Fails("DescribeVpcs", Wide(r))
    <3>1. {s \in X : s[1] = r} = kept(r)
      BY <2>1, <2>3, Regions
    <3>2. answers[r].found = {Resource("vpc", v, T(v)) : v \in kept(r)}
      BY <2>3 DEF Return
    <3> DEFINE told == [v \in kept(r) |-> T(v)]
    <3>3. \A v \in kept(r) : told[v] = T(v)
      OBVIOUS
    <3> HIDE DEF T, told, kept, answers, X
    <3>4. answers[r].found = {Resource("vpc", v, told[v]) : v \in kept(r)}
      BY <3>2, <3>3
    <3> QED
      BY <3>1, <3>4, FoundOf
  <2> QED
    BY <2>2, <2>3
<1>2. \A r \in DOMAIN answers : Found(answers[r].found) = Pairs("vpc", {s \in X : s[1] = r})
  BY <1>1
<1>3. {s \in X : s[1] \in DOMAIN answers}
      = {s \in Things : /\ ~Fails("DescribeVpcs", Wide(s[1])) /\ ~Fails("DescribeFlowLogs", s)
                        /\ s[1] \in NewMultiRegionClients(p)}
  OBVIOUS
<1>4. DescribeVPCs(NewMultiRegionClients(p)) = MultiRegionFetch(answers)
  BY DEF DescribeVPCs
<1> HIDE DEF X, answers
<1>5. Found(MultiRegionFetch(answers).found) = Pairs("vpc", {s \in X : s[1] \in DOMAIN answers})
  BY <1>2, RegionFound
<1> QED
  BY <1>3, <1>4, <1>5

(* One answer per region.                                                  *)
LEMMA EbsFound ==
  ASSUME AskedInv, NEW p
  PROVE  Found(GetEbsEncryptionByDefault(NewMultiRegionClients(p)).found)
         = Pairs("ebs", {s \in Wides : ~Fails("EbsEncryption", s) /\ s[1] \in NewMultiRegionClients(p)})
<1> DEFINE X == {s \in Wides : ~Fails("EbsEncryption", s)}
           T(s) == {<<"EbsEncryption", s, Says("EbsEncryption", s)>>}
           answers == [r \in NewMultiRegionClients(p) |->
                         IF Fails("EbsEncryption", Wide(r)) THEN Failed
                         ELSE Return({Resource("ebs", Wide(r), T(Wide(r)))})]
<1>1. ASSUME NEW r \in NewMultiRegionClients(p)
      PROVE  Found(answers[r].found) = Pairs("ebs", {s \in X : s[1] = r})
  <2>1. {Wide(r)} = {s \in Wides : s[1] = r}
    BY ClientsAreRegions, Regions
  <2>2. CASE Fails("EbsEncryption", Wide(r))
    <3>1. answers[r].found = {}
      BY <2>2 DEF Failed
    <3>2. {s \in X : s[1] = r} = {}
      BY <2>1, <2>2
    <3> QED
      BY <3>1, <3>2, FoundUnion DEF Pairs
  <2>3. CASE ~Fails("EbsEncryption", Wide(r))
    <3>1. {s \in X : s[1] = r} = {Wide(r)}
      BY <2>1, <2>3
    <3>2. answers[r].found = {Resource("ebs", Wide(r), T(Wide(r)))}
      BY <2>3 DEF Return
    <3> HIDE DEF T, answers, X
    <3> QED
      BY <3>1, <3>2 DEF Found, Pairs, Resource
  <2> QED
    BY <2>2, <2>3
<1>2. \A r \in DOMAIN answers : Found(answers[r].found) = Pairs("ebs", {s \in X : s[1] = r})
  BY <1>1
<1>3. {s \in X : s[1] \in DOMAIN answers}
      = {s \in Wides : ~Fails("EbsEncryption", s) /\ s[1] \in NewMultiRegionClients(p)}
  OBVIOUS
<1>4. GetEbsEncryptionByDefault(NewMultiRegionClients(p)) = MultiRegionFetch(answers)
  BY DEF GetEbsEncryptionByDefault
<1> HIDE DEF X, answers
<1>5. Found(MultiRegionFetch(answers).found) = Pairs("ebs", {s \in X : s[1] \in DOMAIN answers})
  BY <1>2, RegionFound
<1> QED
  BY <1>3, <1>4, <1>5

(* The network fetcher sends the four together, and what one of them loses *)
(* the others keep.                                                        *)
LEMMA NetworkFound == AskedInv /\ task = "network" => Found(NetworkFetch) = AwsShown
<1> SUFFICES ASSUME AskedInv, task = "network" PROVE Found(NetworkFetch) = AwsShown
  OBVIOUS
<1> DEFINE c == NewMultiRegionClients("ec2")
<1>1. AwsExists = (({"nacl"} \X Things) \cup ({"sg"} \X Things)) \cup (({"vpc"} \X Things) \cup ({"ebs"} \X Wides))
  <2>1. AwsExists = ({"nacl", "sg", "vpc"} \X Things) \cup ({"ebs"} \X Wides)
    BY DEF AwsExists
  <2>2. {"nacl", "sg", "vpc"} \X Things = ({"nacl"} \X Things) \cup ({"sg"} \X Things) \cup ({"vpc"} \X Things)
    OBVIOUS
  <2> QED
    BY <2>1, <2>2
<1>2. AwsShown = (Pairs("nacl", {s \in Things : ~AwsHidden("nacl", s)})
                  \cup Pairs("sg", {s \in Things : ~AwsHidden("sg", s)}))
                 \cup (Pairs("vpc", {s \in Things : ~AwsHidden("vpc", s)})
                       \cup Pairs("ebs", {s \in Wides : ~AwsHidden("ebs", s)}))
  <2>1. AwsShown = (ShownOf({"nacl"} \X Things) \cup ShownOf({"sg"} \X Things))
                   \cup (ShownOf({"vpc"} \X Things) \cup ShownOf({"ebs"} \X Wides))
    BY <1>1, ShownFour DEF AwsShown
  <2> QED
    BY <2>1, ShownPairs
<1>3. Found(DescribeNetworkAcl(c).found) = Pairs("nacl", {s \in Things : ~AwsHidden("nacl", s)})
  <2>1. {s \in Things : ~AwsHidden("nacl", s)} = {s \in Things : ~Fails("DescribeNetworkAcls", Wide(s[1])) /\ s[1] \in c}
    BY Hidden
  <2> QED
    BY <2>1, ListFound DEF DescribeNetworkAcl
<1>4. Found(DescribeSecurityGroups(c).found) = Pairs("sg", {s \in Things : ~AwsHidden("sg", s)})
  <2>1. {s \in Things : ~AwsHidden("sg", s)} = {s \in Things : ~Fails("DescribeSecurityGroups", Wide(s[1])) /\ s[1] \in c}
    BY Hidden
  <2> QED
    BY <2>1, ListFound DEF DescribeSecurityGroups
<1>5. Found(DescribeVPCs(c).found) = Pairs("vpc", {s \in Things : ~AwsHidden("vpc", s)})
  <2>1. {s \in Things : ~AwsHidden("vpc", s)}
        = {s \in Things : /\ ~Fails("DescribeVpcs", Wide(s[1])) /\ ~Fails("DescribeFlowLogs", s) /\ s[1] \in c}
    BY Hidden
  <2> QED
    BY <2>1, VpcFound
<1>6. Found(GetEbsEncryptionByDefault(c).found) = Pairs("ebs", {s \in Wides : ~AwsHidden("ebs", s)})
  <2>1. {s \in Wides : ~AwsHidden("ebs", s)} = {s \in Wides : ~Fails("EbsEncryption", s) /\ s[1] \in c}
    BY Hidden
  <2> QED
    BY <2>1, EbsFound
<1>7. NetworkFetch = (DescribeNetworkAcl(c).found \cup DescribeSecurityGroups(c).found)
                     \cup (DescribeVPCs(c).found \cup GetEbsEncryptionByDefault(c).found)
  BY DEF NetworkFetch
<1>8. Found(NetworkFetch) = (Found(DescribeNetworkAcl(c).found) \cup Found(DescribeSecurityGroups(c).found))
                            \cup (Found(DescribeVPCs(c).found) \cup Found(GetEbsEncryptionByDefault(c).found))
  <2> DEFINE acls == DescribeNetworkAcl(c).found
             groups == DescribeSecurityGroups(c).found
             vpcs == DescribeVPCs(c).found
             ebs == GetEbsEncryptionByDefault(c).found
  <2>1. NetworkFetch = (acls \cup groups) \cup (vpcs \cup ebs)
    BY <1>7
  <2> HIDE DEF acls, groups, vpcs, ebs
  <2>2. Found(NetworkFetch) = (Found(acls) \cup Found(groups)) \cup (Found(vpcs) \cup Found(ebs))
    BY <2>1, FoundFour
  <2> QED
    BY <2>2 DEF acls, groups, vpcs, ebs
<1> QED
  BY <1>2, <1>3, <1>4, <1>5, <1>6, <1>8

LEMMA RdsFound == AskedInv /\ task = "rds" => Found(RdsFetch) = AwsShown
<1> SUFFICES ASSUME AskedInv, task = "rds" PROVE Found(RdsFetch) = AwsShown
  OBVIOUS
<1> DEFINE c == NewMultiRegionClients("rds")
           X == {d \in Things : ~Fails("DescribeDBInstances", Wide(d[1]))}
           T(d) == GetDBInstanceSubnets(d)
           answers == [r \in c |->
                         IF Fails("DescribeDBInstances", Wide(r)) THEN Failed
                         ELSE Return({Resource("db", d, T(d)) : d \in Within(r)})]
<1>1. ASSUME NEW r \in c
      PROVE  Found(answers[r].found) = Pairs("db", {d \in X : d[1] = r})
  <2>1. r \in Place
    BY ClientsAreRegions
  <2>2. CASE Fails("DescribeDBInstances", Wide(r))
    <3>1. answers[r].found = {} /\ {d \in X : d[1] = r} = {}
      BY <2>2 DEF Failed
    <3> QED
      BY <3>1, FoundUnion DEF Pairs
  <2>3. CASE ~Fails("DescribeDBInstances", Wide(r))
    <3>1. {d \in X : d[1] = r} = Within(r)
      BY <2>1, <2>3, Regions
    <3>2. answers[r].found = {Resource("db", d, T(d)) : d \in Within(r)}
      BY <2>3 DEF Return
    <3> DEFINE told == [d \in Within(r) |-> T(d)]
    <3>3. \A d \in Within(r) : told[d] = T(d)
      OBVIOUS
    <3> HIDE DEF T, told, answers, X
    <3>4. answers[r].found = {Resource("db", d, told[d]) : d \in Within(r)}
      BY <3>2, <3>3
    <3> QED
      BY <3>1, <3>4, FoundOf
  <2> QED
    BY <2>2, <2>3
<1>2. \A r \in DOMAIN answers : Found(answers[r].found) = Pairs("db", {d \in X : d[1] = r})
  BY <1>1
<1>3. {d \in X : d[1] \in DOMAIN answers} = {d \in Things : ~AwsHidden("db", d)}
  BY Hidden
<1>4. RdsFetch = MultiRegionFetch(answers).found
  BY DEF RdsFetch, DescribeDBInstances
<1>5. AwsShown = Pairs("db", {d \in Things : ~AwsHidden("db", d)})
  <2>1. AwsExists = {"db"} \X Things
    BY DEF AwsExists
  <2> QED
    BY <2>1, ShownPairs DEF AwsShown
<1> HIDE DEF X, answers
<1>6. Found(MultiRegionFetch(answers).found) = Pairs("db", {d \in X : d[1] \in DOMAIN answers})
  BY <1>2, RegionFound
<1> QED
  BY <1>3, <1>4, <1>5, <1>6

(* A failure of the only region is an error, and nothing comes of it.      *)
LEMMA KmsFound == AskedInv /\ task = "kms" => Found(KmsFetch) = AwsShown
<1> SUFFICES ASSUME AskedInv, task = "kms" PROVE Found(KmsFetch) = AwsShown
  OBVIOUS
<1> DEFINE kept == {k \in Within(home) : Says("DescribeKey", k) = "set" /\ ~Fails("KeyRotation", k)}
           T(k) == {<<"KeyRotation", k, Says("KeyRotation", k)>>}
           answers == [r \in CurrentRegionClients |->
                         IF Fails("ListKeys", Wide(r)) THEN Failed
                         ELSE Return({Resource("key", k, T(k)) :
                                      k \in {k \in Within(r) : Says("DescribeKey", k) = "set" /\ ~Fails("KeyRotation", k)}})]
           good == {k \in {k \in Within(home) : Truth("DescribeKey", k) = "set"} : ~AwsHidden("key", k)}
<1>1. AwsShown = Pairs("key", good)
  <2>1. AwsExists = {"key"} \X {k \in Within(home) : Truth("DescribeKey", k) = "set"}
    BY DEF AwsExists
  <2> QED
    BY <2>1, ShownPairs DEF AwsShown
<1>2. DescribeSymmetricKeys = MultiRegionFetch(answers)
  BY DEF DescribeSymmetricKeys
<1>3. \A k \in Within(home) : k[1] = home
  BY ClientsAreRegions, Regions
<1>4. CASE Fails("ListKeys", Wide(home))
  <2>1. DescribeSymmetricKeys.end = "err"
    BY <1>2, <1>4 DEF MultiRegionFetch, CurrentRegionClients, Failed
  <2>2. good = {}
    BY <1>3, <1>4, Hidden
  <2> QED
    BY <1>1, <2>1, <2>2, FoundUnion DEF KmsFetch, Pairs
<1>5. CASE ~Fails("ListKeys", Wide(home))
  <2>1. DOMAIN answers = {home} /\ answers[home] = Return({Resource("key", k, T(k)) : k \in kept})
    BY <1>5 DEF CurrentRegionClients
  <2>2. answers[home].end = "ok" /\ answers[home].found = {Resource("key", k, T(k)) : k \in kept}
    <3> DEFINE found == {Resource("key", k, T(k)) : k \in kept}
    <3>1. Return(found).end = "ok" /\ Return(found).found = found
      <4> HIDE DEF found
      <4> QED
        BY DEF Return
    <3>2. answers[home] = Return(found)
      BY <2>1
    <3> HIDE DEF answers, found
    <3> QED
      BY <3>1, <3>2 DEF found
  <2>3. good = kept
    BY <1>3, <1>5, Hidden DEF Says
  <2> DEFINE told == [k \in kept |-> T(k)]
  <2>4. \A k \in kept : told[k] = T(k)
    OBVIOUS
  <2> HIDE DEF T, told, kept, answers, good
  <2>5. DescribeSymmetricKeys.end # "err" /\ DescribeSymmetricKeys.found = answers[home].found
    BY <1>2, <2>1, <2>2 DEF MultiRegionFetch
  <2>6. KmsFetch = {Resource("key", k, told[k]) : k \in kept}
    BY <2>2, <2>4, <2>5 DEF KmsFetch
  <2> QED
    BY <1>1, <2>3, <2>6, FoundOf
<1> QED
  BY <1>4, <1>5

(* What IAM is asked about a user.                                         *)
LEMMA UsersAsked ==
  ASSUME AskedInv, task = "iam"
  PROVE  /\ \A u \in Globals : Says("RootDates", u) = "set"
         /\ Truth("ReportRow", Root) = "set"
         /\ Root \notin Globals
<1>1. Root \notin Globals
  BY NamesAssumption DEF Root, Globals
<1>2. \A c \in AwsCalls.iam : /\ c[1] = "RootDates" => c[2] = Root
                              /\ c[1] = "ReportRow" => c[2] \in Globals
  BY DEF AwsCalls, Clients, Call
<1>3. Calls["iam"] = AwsCalls.iam
  BY CallsOf, Tasks
<1>4. \A op, s : <<op, s>>[1] = op /\ <<op, s>>[2] = s
  OBVIOUS
<1>5. fails \subseteq AwsCalls.iam /\ unset \subseteq AwsCalls.iam
  BY <1>3 DEF AskedInv
<1>6. ASSUME NEW u \in Globals PROVE <<"RootDates", u>> \notin fails \cup unset
  BY <1>1, <1>2, <1>4, <1>5
<1>7. <<"ReportRow", Root>> \notin unset
  BY <1>1, <1>2, <1>4, <1>5
<1> QED
  BY <1>1, <1>6, <1>7 DEF Says, Truth, Fails

(* Users are those of the report and the root user, and none without the   *)
(* list or the report.                                                     *)
LEMMA UsersFound ==
  ASSUME AskedInv, task = "iam",
         NEW exist, exist = {u \in Globals \cup {Root} : Truth("ReportRow", u) = "set" /\ Says("RootDates", u) = "set"}
  PROVE  Found(GetUsers(report = "ready").found) = Pairs("user", {u \in exist : ~AwsHidden("user", u)})
<1> DEFINE T(u) == GetMFADevices(u) \cup ListInlinePolicies(u)
                   \cup {<<"AttachedPolicies", u, ListAttachedPolicies(u)>>}
           U == {u \in Globals : Truth("ReportRow", u) = "set"} \cup GetRootAccountUser
<1>1. U = exist
  BY UsersAsked DEF GetRootAccountUser
<1>2. CASE Fails("ListUsers", Global) \/ report # "ready"
  <2>1. GetUsers(report = "ready").found = {}
    BY <1>2 DEF GetUsers, Failed
  <2>2. {u \in exist : ~AwsHidden("user", u)} = {}
    BY <1>2, Hidden
  <2> QED
    BY <2>1, <2>2, FoundUnion DEF Pairs
<1>3. CASE ~(Fails("ListUsers", Global) \/ report # "ready")
  <2>1. GetUsers(report = "ready").found = {Resource("user", u, T(u)) : u \in U}
    BY <1>3 DEF GetUsers, Return
  <2>2. {u \in exist : ~AwsHidden("user", u)} = U
    BY <1>1, <1>3, Hidden
  <2> DEFINE told == [u \in U |-> T(u)]
  <2>3. \A u \in U : told[u] = T(u)
    OBVIOUS
  <2> HIDE DEF T, U, told
  <2>4. GetUsers(report = "ready").found = {Resource("user", u, told[u]) : u \in U}
    BY <2>1, <2>3
  <2> QED
    BY <2>2, <2>4, FoundOf
<1> QED
  BY <1>2, <1>3

(* One document that cannot be read hides every policy.                    *)
LEMMA PoliciesFound == Found(GetPolicies.found) = Pairs("policy", {p \in Policies : ~AwsHidden("policy", p)})
<1> DEFINE lost == \/ Fails("ListPolicies", Global) \/ Fails("GetPolicy", Support) \/ Fails("PolicyRoles", Support)
                   \/ \E p \in Policies : Fails("PolicyDocument", p)
           T(p) == {GetPolicyDocument(p)}
           own == {Resource("policy", p, T(p)) : p \in ListPolicies}
<1>1. \A p : AwsHidden("policy", p) <=> lost
  BY Hidden
<1>2. CASE lost
  <2>1. GetPolicies.found = {} /\ {p \in Policies : ~AwsHidden("policy", p)} = {}
    BY <1>1, <1>2 DEF GetPolicies, Failed
  <2> QED
    BY <2>1, FoundUnion DEF Pairs
<1>3. CASE ~lost
  <2>1. GetPolicies.found = own \cup {GetSupportPolicy}
    BY <1>3 DEF GetPolicies, Return
  <2>2. {p \in Policies : ~AwsHidden("policy", p)} = Policies
    BY <1>1, <1>3
  <2>3. Found(own) = Pairs("policy", ListPolicies)
    <3> DEFINE told == [p \in ListPolicies |-> T(p)]
    <3>1. \A p \in ListPolicies : told[p] = T(p)
      OBVIOUS
    <3> HIDE DEF T, told
    <3>2. own = {Resource("policy", p, told[p]) : p \in ListPolicies}
      BY <3>1
    <3> QED
      BY <3>2, FoundOf
  <2>4. Found({GetSupportPolicy}) = Pairs("policy", {Support})
    <3>1. GetSupportPolicy.type = "policy" /\ GetSupportPolicy.at = Support
      BY DEF GetSupportPolicy, Resource
    <3> QED
      BY <3>1 DEF Found, Pairs
  <2>5. Pairs("policy", Policies) = Pairs("policy", ListPolicies) \cup Pairs("policy", {Support})
    BY DEF Pairs, ListPolicies, Policies
  <2> HIDE DEF own, lost
  <2>6. Found(own \cup {GetSupportPolicy}) = Found(own) \cup Found({GetSupportPolicy})
    BY FoundUnion
  <2> QED
    BY <2>1, <2>2, <2>3, <2>4, <2>5, <2>6
<1> QED
  BY <1>2, <1>3

(* A resource of the whole account, there or not.                          *)
LEMMA OneFound ==
  ASSUME NEW type, NEW told, NEW lost \in BOOLEAN,
         AwsHidden(type, Global) <=> lost,
         NEW S, S = IF lost THEN {} ELSE {Resource(type, Global, told)}
  PROVE  Found(S) = ShownOf({type} \X {Global})
<1>1. ShownOf({type} \X {Global}) = Pairs(type, {s \in {Global} : ~AwsHidden(type, s)})
  BY ShownPairs
<1>2. CASE lost
  BY <1>1, <1>2, FoundUnion DEF Pairs
<1>3. CASE ~lost
  <2>1. Resource(type, Global, told).type = type /\ Resource(type, Global, told).at = Global
    BY DEF Resource
  <2>2. {s \in {Global} : ~AwsHidden(type, s)} = {Global}
    BY <1>3
  <2>3. S = {Resource(type, Global, told)}
    BY <1>3
  <2>4. Found(S) = {<<type, Global>>}
    BY <2>1, <2>3 DEF Found
  <2> QED
    BY <1>1, <2>2, <2>4 DEF Pairs
<1> QED
  BY <1>2, <1>3

(* IAM sends what each of its calls finds.                                 *)
LEMMA IamFound == AskedInv /\ task = "iam" => Found(IamFetch) = AwsShown
<1> SUFFICES ASSUME AskedInv, task = "iam" PROVE Found(IamFetch) = AwsShown
  OBVIOUS
<1> DEFINE exist == {u \in Globals \cup {Root} : Truth("ReportRow", u) = "set" /\ Says("RootDates", u) = "set"}
           A == GetPasswordPolicy.found
           B == ListServerCertificates.found
           C == GetAccessAnalyzers.found
           D == GetUsers(report = "ready").found
           E == GetPolicies.found
           P == {"pwd-policy"} \X {Global}
           Q == {"certificates"} \X {Global}
           R == {"analyzers"} \X {Global}
           S == {"policy"} \X Policies
           V == {"user"} \X exist
<1>1. Found(A) = ShownOf(P)
  <2> DEFINE lost == Fails("PasswordPolicy", Global)
  <2>1. AwsHidden("pwd-policy", Global) <=> lost
    BY Hidden
  <2>2. A = IF lost THEN {} ELSE {Resource("pwd-policy", Global, {})}
    BY DEF GetPasswordPolicy, Failed, Return
  <2>3. lost \in BOOLEAN
    BY DEF Fails
  <2> HIDE DEF A, lost
  <2> QED
    BY <2>1, <2>2, <2>3, OneFound
<1>2. Found(B) = ShownOf(Q)
  <2> DEFINE lost == Fails("ServerCertificates", Global)
             told == {<<"ServerCertificates", Global, Says("ServerCertificates", Global)>>}
  <2>1. AwsHidden("certificates", Global) <=> lost
    BY Hidden
  <2>2. B = IF lost THEN {} ELSE {Resource("certificates", Global, told)}
    BY DEF ListServerCertificates, Failed, Return
  <2>3. lost \in BOOLEAN
    BY DEF Fails
  <2> HIDE DEF B, lost, told
  <2> QED
    BY <2>1, <2>2, <2>3, OneFound
<1>3. Found(C) = ShownOf(R)
  <2> DEFINE c == NewMultiRegionClients("iam")
             lost == \E r \in c : Fails("ListAnalyzers", Wide(r))
             told == {<<"ListAnalyzers", Wide(r), Says("ListAnalyzers", Wide(r))>> : r \in c}
  <2>1. AwsHidden("analyzers", Global) <=> lost
    BY Hidden
  <2>2. C = IF lost THEN {} ELSE {Resource("analyzers", Global, told)}
    <3> HIDE DEF told
    <3>1. CASE lost
      BY <3>1 DEF GetAccessAnalyzers, Failed
    <3>2. CASE ~lost
      BY <3>2 DEF GetAccessAnalyzers, Return, told
    <3> QED
      BY <3>1, <3>2
  <2>3. lost \in BOOLEAN
    OBVIOUS
  <2> HIDE DEF C, lost, told
  <2> QED
    BY <2>1, <2>2, <2>3, OneFound
<1>4. Found(D) = ShownOf(V)
  BY UsersFound, ShownPairs
<1>5. Found(E) = ShownOf(S)
  BY PoliciesFound, ShownPairs
<1>6. AwsExists = ((P \cup Q) \cup (R \cup S)) \cup V
  <2>1. AwsExists = ({"pwd-policy", "certificates", "analyzers"} \X {Global}) \cup S \cup V
    BY DEF AwsExists
  <2>2. {"pwd-policy", "certificates", "analyzers"} \X {Global} = P \cup Q \cup R
    OBVIOUS
  <2> QED
    BY <2>1, <2>2
<1>7. IamFetch = ((A \cup B) \cup (C \cup E)) \cup D
  BY DEF IamFetch
<1> HIDE DEF A, B, C, D, E, P, Q, R, S, V, exist
<1>8. AwsShown = ShownOf((P \cup Q) \cup (R \cup S)) \cup ShownOf(V)
  BY <1>6, ShownUnion DEF AwsShown
<1>9. Found(IamFetch) = Found((A \cup B) \cup (C \cup E)) \cup Found(D)
  BY <1>7, FoundUnion
<1>10. Found((A \cup B) \cup (C \cup E)) = (Found(A) \cup Found(B)) \cup (Found(C) \cup Found(E))
  BY FoundFour
<1>11. ShownOf((P \cup Q) \cup (R \cup S)) = (ShownOf(P) \cup ShownOf(Q)) \cup (ShownOf(R) \cup ShownOf(S))
  BY ShownFour
<1>12. Found(IamFetch) = ((Found(A) \cup Found(B)) \cup (Found(C) \cup Found(E))) \cup Found(D)
  BY <1>9, <1>10
<1> QED
  BY <1>1, <1>2, <1>3, <1>4, <1>5, <1>8, <1>11, <1>12

(* Trails are asked for through the client of DefaultRegion.               *)
LEMMA LoggingFound == AskedInv /\ task = "logging" => Found(LoggingFetch) = AwsShown
<1> SUFFICES ASSUME AskedInv, task = "logging" PROVE Found(LoggingFetch) = AwsShown
  OBVIOUS
<1> DEFINE X == {t \in Things : Truth("TrailBucket", t) = "set"}
           none == DefaultRegion \notin NewMultiRegionClients("cloudtrail")
           drop == \E r \in NewMultiRegionClients("config") : Fails("Recorders", Wide(r)) \/ Fails("RecorderStatus", Wide(r))
           T(t) == EnrichedTrail(t)
           A == LoggingDescribeTrails.found
           B == IF none \/ drop THEN {} ELSE {Resource("config", Global, DescribeConfigRecorders.found)}
           P == {"config"} \X {Global}
           Q == {"trail"} \X X
<1>1. /\ DescribeTrails.end = "panic" <=> none
      /\ DescribeTrails.end # "ok" <=> none \/ Fails("DescribeTrails", Global)
      /\ DescribeTrails.end # "ok" => DescribeTrails.found = {}
  BY DEF DescribeTrails, Panics, Failed, Return
<1>2. LoggingDescribeTrails.end = "panic" <=> none
  BY <1>1 DEF LoggingDescribeTrails, Return
<1>3. DescribeConfigRecorders.end = "err" <=> drop
  <2> DEFINE c == NewMultiRegionClients("config")
             answers == [r \in c |->
                IF Fails("Recorders", Wide(r)) \/ Fails("RecorderStatus", Wide(r)) THEN Failed
                ELSE Return({<<"Recorders", Wide(r), Says("Recorders", Wide(r))>>})]
  <2>1. \A r \in c : answers[r].end = "err" <=> Fails("Recorders", Wide(r)) \/ Fails("RecorderStatus", Wide(r))
    BY DEF Failed, Return
  <2>2. DescribeConfigRecorders = MultiRegionFetch(answers) /\ DOMAIN answers = c
    BY DEF DescribeConfigRecorders
  <2> HIDE DEF answers, c
  <2>3. DescribeConfigRecorders.end = "err" <=> \E r \in c : answers[r].end = "err"
    BY <2>2 DEF MultiRegionFetch
  <2> QED
    BY <2>1, <2>3 DEF c
<1>4. LoggingFetch = A \cup B
  BY <1>2, <1>3 DEF LoggingFetch
<1>5. Found(A) = ShownOf(Q)
  <2>1. ShownOf(Q) = Pairs("trail", {t \in X : ~AwsHidden("trail", t)})
    BY ShownPairs
  <2>2. CASE none \/ Fails("DescribeTrails", Global)
    <3>1. A = {} /\ {t \in X : ~AwsHidden("trail", t)} = {}
      BY <1>1, <2>2, Hidden DEF LoggingDescribeTrails
    <3> QED
      BY <2>1, <3>1, FoundUnion DEF Pairs
  <2>3. CASE ~(none \/ Fails("DescribeTrails", Global))
    <3>1. A = {Resource("trail", t, T(t)) : t \in X}
      BY <1>1, <2>3 DEF LoggingDescribeTrails, Return
    <3>2. {t \in X : ~AwsHidden("trail", t)} = X
      BY <2>3, Hidden
    <3> DEFINE told == [t \in X |-> T(t)]
    <3>3. \A t \in X : told[t] = T(t)
      OBVIOUS
    <3> HIDE DEF T, told, X, A, Q
    <3>4. A = {Resource("trail", t, told[t]) : t \in X}
      BY <3>1, <3>3
    <3> QED
      BY <2>1, <3>2, <3>4, FoundOf
  <2> QED
    BY <2>2, <2>3
<1>6. Found(B) = ShownOf(P)
  <2> DEFINE lost == none \/ drop
             told == DescribeConfigRecorders.found
  <2>1. AwsHidden("config", Global) <=> lost
    BY Hidden
  <2>2. B = IF lost THEN {} ELSE {Resource("config", Global, told)}
    OBVIOUS
  <2>3. lost \in BOOLEAN
    OBVIOUS
  <2> HIDE DEF B, lost, told
  <2> QED
    BY <2>1, <2>2, <2>3, OneFound
<1>7. AwsExists = P \cup Q
  <2>1. P = {<<"config", Global>>}
    OBVIOUS
  <2> QED
    BY <2>1 DEF AwsExists
<1> HIDE DEF A, B, P, Q
<1>8. AwsShown = ShownOf(P) \cup ShownOf(Q)
  BY <1>7, ShownUnion DEF AwsShown
<1>9. Found(LoggingFetch) = Found(A) \cup Found(B)
  BY <1>4, FoundUnion
<1> QED
  BY <1>5, <1>6, <1>8, <1>9

(* Monitoring, with one hub per region.                                    *)
LEMMA MonitoringFound == AskedInv /\ task = "monitoring" => Found(MonitoringFetch) = AwsShown
<1> SUFFICES ASSUME AskedInv, task = "monitoring" PROVE Found(MonitoringFetch) = AwsShown
  OBVIOUS
<1> DEFINE none == DefaultRegion \notin NewMultiRegionClients("cloudtrail")
           c == NewMultiRegionClients("securityhub")
           drop == \E r \in c : Fails("DescribeHub", Wide(r))
           T(s) == {<<"DescribeHub", s, Blur(Says("DescribeHub", s))>>}
           answers == [r \in c |-> [found |-> {Resource("hub", Wide(r), T(Wide(r)))},
                                    end |-> IF Fails("DescribeHub", Wide(r)) THEN "err" ELSE "ok"]]
           A == AggregateResources.found
           B == IF none \/ Unnamed \/ drop THEN {} ELSE DescribeHubs.found
           P == {"monitoring"} \X {Global}
           Q == {"hub"} \X Wides
<1>1. /\ DescribeTrails.end = "panic" <=> none
      /\ DescribeTrails.end # "ok" <=> none \/ Fails("DescribeTrails", Global)
      /\ DescribeTrails.end # "ok" => DescribeTrails.found = {}
  BY DEF DescribeTrails, Panics, Failed, Return
<1>2. AggregateResources.end = "panic" <=> none \/ Unnamed
  <2>1. DescribeTrails.end = "ok" <=> ~none /\ ~Fails("DescribeTrails", Global)
    BY <1>1
  <2> QED
    BY <1>1, <2>1 DEF AggregateResources, Return, Panics, Unnamed
<1>3. DescribeHubs = MultiRegionFetch(answers) /\ DOMAIN answers = c
  BY DEF DescribeHubs
<1>4. DescribeHubs.end = "err" <=> drop
  <2>1. \A r \in c : answers[r].end = "err" <=> Fails("DescribeHub", Wide(r))
    OBVIOUS
  <2> HIDE DEF answers, c
  <2>2. DescribeHubs.end = "err" <=> \E r \in c : answers[r].end = "err"
    BY <1>3 DEF MultiRegionFetch
  <2> QED
    BY <2>1, <2>2 DEF c
<1>5. MonitoringFetch = A \cup B
  BY <1>2, <1>4 DEF MonitoringFetch
<1>6. Found(A) = ShownOf(P)
  <2> DEFINE lost == none \/ Fails("DescribeTrails", Global) \/ Unnamed
             told == UNION {MonitoringItem(t) : t \in Things}
  <2>1. AwsHidden("monitoring", Global) <=> lost
    BY Hidden
  <2>2. A = IF lost THEN {} ELSE {Resource("monitoring", Global, told)}
    <3> HIDE DEF told
    <3>1. CASE lost
      BY <1>1, <3>1 DEF AggregateResources, Panics, Unnamed
    <3>2. CASE ~lost
      BY <1>1, <3>2 DEF AggregateResources, Return, Unnamed, told
    <3> QED
      BY <3>1, <3>2
  <2>3. lost \in BOOLEAN
    BY DEF Fails
  <2> HIDE DEF A, lost, told
  <2> QED
    BY <2>1, <2>2, <2>3, OneFound
<1>7. Found(B) = ShownOf(Q)
  <2>1. ShownOf(Q) = Pairs("hub", {s \in Wides : ~AwsHidden("hub", s)})
    BY ShownPairs
  <2>2. CASE none \/ Unnamed \/ drop
    <3>1. B = {} /\ {s \in Wides : ~AwsHidden("hub", s)} = {}
      BY <2>2, Hidden
    <3> QED
      BY <2>1, <3>1, FoundUnion DEF Pairs
  <2>3. CASE ~(none \/ Unnamed \/ drop)
    <3>1. {s \in Wides : ~AwsHidden("hub", s)} = {s \in Wides : s[1] \in c}
      BY <2>3, Hidden
    <3>2. ASSUME NEW r \in c
          PROVE  Found(answers[r].found) = Pairs("hub", {s \in Wides : s[1] = r})
      <4>1. {Wide(r)} = {s \in Wides : s[1] = r}
        BY ClientsAreRegions, Regions
      <4>2. answers[r].found = {Resource("hub", Wide(r), T(Wide(r)))}
        OBVIOUS
      <4> HIDE DEF T, answers, Q
      <4>3. Found(answers[r].found) = Pairs("hub", {Wide(r)})
        BY <4>2 DEF Found, Pairs, Resource
      <4> QED
        BY <4>1, <4>3
    <3>3. B = MultiRegionFetch(answers).found
      BY <1>3, <2>3
    <3> HIDE DEF answers, Q, c
    <3>4. \A r \in DOMAIN answers : Found(answers[r].found) = Pairs("hub", {s \in Wides : s[1] = r})
      BY <1>3, <3>2
    <3>5. Found(MultiRegionFetch(answers).found) = Pairs("hub", {s \in Wides : s[1] \in DOMAIN answers})
      BY <3>4, RegionFound
    <3> QED
      BY <1>3, <2>1, <3>1, <3>3, <3>5
  <2> QED
    BY <2>2, <2>3
<1>8. AwsExists = P \cup Q
  <2>1. P = {<<"monitoring", Global>>}
    OBVIOUS
  <2> QED
    BY <2>1 DEF AwsExists
<1> HIDE DEF A, B, P, Q
<1>9. AwsShown = ShownOf(P) \cup ShownOf(Q)
  BY <1>8, ShownUnion DEF AwsShown
<1>10. Found(MonitoringFetch) = Found(A) \cup Found(B)
  BY <1>5, FoundUnion
<1> QED
  BY <1>6, <1>7, <1>9, <1>10

(* Repositories of the images that pods run, and load balancers of         *)
(* services, are those of the cluster's account.                           *)
LEMMA EcrFound == AskedInv /\ task = "ecr" => Found(EcrFetch) = AwsShown
<1> SUFFICES ASSUME AskedInv, task = "ecr" PROVE Found(EcrFetch) = AwsShown
  OBVIOUS
<1> DEFINE X == {s \in Things : Truth("PodImage", s) = "set"}
           good == {s \in X : ~AwsHidden("repo", s)}
           answers == [r \in Place |-> DescribeRepositories(r, GetAwsRepositories(r))]
<1>1. AwsShown = Pairs("repo", good)
  <2>1. AwsExists = {"repo"} \X X
    BY DEF AwsExists
  <2> QED
    BY <2>1, ShownPairs DEF AwsShown
<1>2. CASE Fails("Pods", Global)
  <2>1. good = {} /\ EcrFetch = {}
    BY <1>2, Hidden DEF EcrFetch
  <2> QED
    BY <1>1, <2>1, FoundUnion DEF Pairs
<1>3. CASE ~Fails("Pods", Global)
  <2>1. EcrFetch = MultiRegionFetch(answers).found
    BY <1>3 DEF EcrFetch, MultiRegionFetch, Region
  <2>2. ASSUME NEW r \in Place
        PROVE  Found(answers[r].found) = Pairs("repo", {s \in good : s[1] = r})
    <3>1. GetAwsRepositories(r) = {s \in X : s[1] = r}
      BY Regions DEF GetAwsRepositories
    <3>2. CASE r \notin NewMultiRegionClients("ecr") \/ Fails("DescribeRepositories", Wide(r))
      <4>1. answers[r].found = {}
        BY <3>2 DEF DescribeRepositories, Return, Failed
      <4>2. {s \in good : s[1] = r} = {}
        BY <3>2, Hidden
      <4> QED
        BY <4>1, <4>2, FoundUnion DEF Pairs
    <3>3. CASE ~(r \notin NewMultiRegionClients("ecr") \/ Fails("DescribeRepositories", Wide(r)))
      <4>1. {s \in good : s[1] = r} = GetAwsRepositories(r)
        BY <1>3, <3>1, <3>3, Hidden
      <4> DEFINE told == [s \in GetAwsRepositories(r) |-> {}]
      <4>2. answers[r].found = {Resource("repo", s, told[s]) : s \in GetAwsRepositories(r)}
        BY <3>3 DEF DescribeRepositories, Return
      <4> HIDE DEF answers, good, told
      <4> QED
        BY <4>1, <4>2, FoundOf
    <3> QED
      BY <3>2, <3>3
  <2>3. \A r \in DOMAIN answers : Found(answers[r].found) = Pairs("repo", {s \in good : s[1] = r})
    BY <2>2
  <2>4. {s \in good : s[1] \in DOMAIN answers} = good
    BY Regions
  <2> HIDE DEF answers, good
  <2>5. Found(MultiRegionFetch(answers).found) = Pairs("repo", {s \in good : s[1] \in DOMAIN answers})
    BY <2>3, RegionFound
  <2> QED
    BY <1>1, <2>1, <2>4, <2>5
<1> QED
  BY <1>2, <1>3

(* As for ECR, by the names in the services.                               *)
LEMMA ElbFound == AskedInv /\ task = "elb" => Found(ElbFetch) = AwsShown
<1> SUFFICES ASSUME AskedInv, task = "elb" PROVE Found(ElbFetch) = AwsShown
  OBVIOUS
<1> DEFINE X == IF GetLoadBalancers = {} THEN Within(home) ELSE GetLoadBalancers
           lost == Fails("Services", Global) \/ Fails("DescribeLoadBalancers", Wide(home))
           told == [s \in X |-> {}]
<1>1. AwsShown = Pairs("elb", {s \in X : ~AwsHidden("elb", s)})
  <2>1. AwsExists = {"elb"} \X X
    BY DEF AwsExists, GetLoadBalancers
  <2> HIDE DEF X
  <2> QED
    BY <2>1, ShownPairs DEF AwsShown
<1>2. \A s \in X : AwsHidden("elb", s) <=> lost
  <2>1. \A s \in Within(home) : s[1] = home
    BY ClientsAreRegions, Regions
  <2>2. X \subseteq Within(home)
    BY DEF GetLoadBalancers
  <2> HIDE DEF X
  <2> QED
    BY <2>1, <2>2, Hidden
<1>3. CASE lost
  <2>1. {s \in X : ~AwsHidden("elb", s)} = {}
    BY <1>2, <1>3
  <2>2. ElbFetch = {}
    BY <1>3 DEF ElbFetch, DescribeLoadBalancer, Failed
  <2> QED
    BY <1>1, <2>1, <2>2, FoundUnion DEF Pairs
<1>4. CASE ~lost
  <2>1. {s \in X : ~AwsHidden("elb", s)} = X
    BY <1>2, <1>4
  <2>2. ElbFetch = {Resource("elb", s, told[s]) : s \in X}
    BY <1>4 DEF ElbFetch, DescribeLoadBalancer, Return
  <2> HIDE DEF X, told
  <2> QED
    BY <1>1, <2>1, <2>2, FoundOf
<1> QED
  BY <1>3, <1>4

(* Every AWS fetcher.                                                      *)
LEMMA AwsFound == AskedInv /\ task \in DOMAIN AwsCalls => Found(AwsSends) = AwsShown
<1> SUFFICES ASSUME AskedInv, task \in DOMAIN AwsCalls PROVE Found(AwsSends) = AwsShown
  OBVIOUS
<1> QED
  BY S3Found, NetworkFound, RdsFound, KmsFound, IamFound, LoggingFound, MonitoringFound, EcrFound, ElbFound, Tasks
     DEF AwsSends

-----------------------------------------------------------------------------
(* Azure.                                                                  *)
AzureShown == {e \in AzureExists : ~AzureHidden(e[1], e[2])}

(* Assets are queried by group.                                            *)
LEMMA AzureAssetsFound == task = "azure_assets" => Found(AzureAssetsFetch) = AzureShown
<1> SUFFICES ASSUME task = "azure_assets" PROVE Found(AzureAssetsFetch) = AzureShown
  OBVIOUS
<1> DEFINE R(t, s) == Resource(t, s, Enrich(t, s) \cup CloudAccount(s[1]))
<1>1. \A t, s : R(t, s).type = t /\ R(t, s).at = s
  BY DEF Resource
<1>2. AzureAssetsFetch = UNION {{R(t, s) : s \in Listed(t)} : t \in AssetTypes}
  BY DEF AzureAssetsFetch
<1> HIDE DEF R
<1>3. ASSUME NEW t \in AssetTypes, NEW s \in Things
      PROVE  <<t, s>> \in AzureShown <=> s \in Listed(t)
  <2>1. <<t, s>> \in AzureExists
    BY DEF AzureExists
  <2>2. <<t, s>>[1] = t /\ <<t, s>>[2] = s
    OBVIOUS
  <2> QED
    BY <2>1, <2>2 DEF AzureShown, AzureHidden, Listed, QueryFails
<1>4. ASSUME NEW x \in AzureShown PROVE x \in Found(AzureAssetsFetch)
  <2>1. PICK t \in AssetTypes, s \in Things : x = <<t, s>>
    BY DEF AzureShown, AzureExists
  <2>2. R(t, s) \in AzureAssetsFetch
    BY <1>2, <1>3, <2>1
  <2> QED
    BY <1>1, <2>1, <2>2 DEF Found
<1>5. ASSUME NEW x \in Found(AzureAssetsFetch) PROVE x \in AzureShown
  <2>1. PICK a \in AzureAssetsFetch : x = <<a.type, a.at>>
    BY DEF Found
  <2>2. PICK t \in AssetTypes : \E s \in Listed(t) : a = R(t, s)
    BY <1>2, <2>1
  <2>3. Listed(t) \subseteq Things
    BY DEF Listed
  <2> QED
    BY <1>1, <1>3, <2>1, <2>2, <2>3
<1> QED
  BY <1>4, <1>5

(* Subscriptions that are listed and have a name.                          *)
LEMMA SubscriptionsKnown ==
  GetSubscriptions = {p \in Place : ~NoSubscriptions /\ ~Unknown(p)}
  BY DEF GetSubscriptions, Unknown, Truth

(* Assets in batches: one per type and known subscription, also when it is *)
(* empty.                                                                  *)
LEMMA AzureBatchFound == task = "azure_batch" => Found(AzureBatchFetch) = AzureShown
<1> SUFFICES ASSUME task = "azure_batch" PROVE Found(AzureBatchFetch) = AzureShown
  OBVIOUS
<1> DEFINE R(t, p) == Resource(t, Wide(p),
                        {<<t, Wide(p), Blur(IF QueryFails("resources") THEN "nil" ELSE Truth(t, Wide(p)))>>}
                        \cup CloudAccount(p))
<1>1. \A t, p : R(t, p).type = t /\ R(t, p).at = Wide(p)
  BY DEF Resource
<1>2. AzureBatchFetch = {R(t, p) : t \in BatchTypes, p \in GetSubscriptions}
  BY DEF AzureBatchFetch
<1> HIDE DEF R
<1>3. ASSUME NEW t \in BatchTypes, NEW p \in Place
      PROVE  <<t, Wide(p)>> \in AzureShown <=> p \in GetSubscriptions
  <2>1. <<t, Wide(p)>> \in AzureExists
    BY DEF AzureExists, Wides
  <2>2. <<t, Wide(p)>>[1] = t /\ <<t, Wide(p)>>[2] = Wide(p) /\ Wide(p)[1] = p
    BY DEF Wide
  <2>3. t \notin AssetTypes /\ t # "diagnostic-settings"
    BY DEF BatchTypes, AssetTypes
  <2>4. AzureHidden(t, Wide(p)) <=> NoSubscriptions \/ Unknown(p)
    BY <2>2, <2>3 DEF AzureHidden, NoSubscriptions
  <2> QED
    BY <2>1, <2>2, <2>4, SubscriptionsKnown DEF AzureShown
<1>4. ASSUME NEW x \in AzureShown PROVE x \in Found(AzureBatchFetch)
  <2>1. PICK t \in BatchTypes, p \in Place : x = <<t, Wide(p)>>
    BY DEF AzureShown, AzureExists, Wides
  <2>2. R(t, p) \in AzureBatchFetch
    BY <1>2, <1>3, <2>1
  <2> QED
    BY <1>1, <2>1, <2>2 DEF Found
<1>5. ASSUME NEW x \in Found(AzureBatchFetch) PROVE x \in AzureShown
  <2>1. PICK a \in AzureBatchFetch : x = <<a.type, a.at>>
    BY DEF Found
  <2>2. PICK t \in BatchTypes, p \in GetSubscriptions : a = R(t, p)
    BY <1>2, <2>1
  <2>3. p \in Place
    BY SubscriptionsKnown
  <2> QED
    BY <1>1, <1>3, <2>1, <2>2, <2>3
<1> QED
  BY <1>4, <1>5

(* One subscription whose settings fail hides those of all.                *)
LEMMA AzureInsightsFound == task = "azure_insights" => Found(AzureInsightsBatchFetch) = AzureShown
<1> SUFFICES ASSUME task = "azure_insights" PROVE Found(AzureInsightsBatchFetch) = AzureShown
  OBVIOUS
<1> DEFINE type == "diagnostic-settings"
           R(p) == Resource(type, Wide(p),
                     {<<"DiagnosticSettings", Wide(p), Truth("DiagnosticSettings", Wide(p))>>} \cup CloudAccount(p))
           P == IF NoDiagnosticSettings THEN {} ELSE GetSubscriptions
<1>1. \A p : R(p).type = type /\ R(p).at = Wide(p)
  BY DEF Resource
<1>2. AzureInsightsBatchFetch = {R(p) : p \in P}
  BY DEF AzureInsightsBatchFetch
<1> HIDE DEF R
<1>3. ASSUME NEW p \in Place
      PROVE  <<type, Wide(p)>> \in AzureShown <=> p \in P
  <2>1. <<type, Wide(p)>> \in AzureExists
    BY DEF AzureExists, Wides
  <2>2. <<type, Wide(p)>>[1] = type /\ <<type, Wide(p)>>[2] = Wide(p) /\ Wide(p)[1] = p
    BY DEF Wide
  <2>3. type \notin AssetTypes
    BY DEF AssetTypes
  <2>4. AzureHidden(type, Wide(p))
        <=> NoSubscriptions \/ Unknown(p) \/ \E q \in Place : ~Unknown(q) /\ Fails("DiagnosticSettings", Wide(q))
    BY <2>2, <2>3 DEF AzureHidden, NoSubscriptions
  <2> QED
    BY <2>1, <2>2, <2>4, SubscriptionsKnown DEF AzureShown, NoDiagnosticSettings
<1>4. ASSUME NEW x \in AzureShown PROVE x \in Found(AzureInsightsBatchFetch)
  <2>1. PICK p \in Place : x = <<type, Wide(p)>>
    BY DEF AzureShown, AzureExists, Wides
  <2>2. R(p) \in AzureInsightsBatchFetch
    BY <1>2, <1>3, <2>1
  <2> QED
    BY <1>1, <2>1, <2>2 DEF Found
<1>5. ASSUME NEW x \in Found(AzureInsightsBatchFetch) PROVE x \in AzureShown
  <2>1. PICK a \in AzureInsightsBatchFetch : x = <<a.type, a.at>>
    BY DEF Found
  <2>2. PICK p \in P : a = R(p)
    BY <1>2, <2>1
  <2>3. p \in Place
    BY <2>2, SubscriptionsKnown
  <2> QED
    BY <1>1, <1>3, <2>1, <2>2, <2>3
<1> QED
  BY <1>4, <1>5

(* Every Azure fetcher.                                                    *)
LEMMA AzureFound == task \in DOMAIN AzureCalls => Found(AzureSends) = AzureShown
<1> SUFFICES ASSUME task \in DOMAIN AzureCalls PROVE Found(AzureSends) = AzureShown
  OBVIOUS
<1> QED
  BY AzureAssetsFound, AzureBatchFound, AzureInsightsFound, Tasks DEF AzureSends

-----------------------------------------------------------------------------
(* GCP.                                                                    *)
GcpShown == {e \in GcpExists : ~GcpHidden(e[1], e[2])}
ListedAssets(N) == {s \in Assets(N) : ~Unlisted(s)}

(* What the two listings of a kind of assets make together.                *)
LEMMA ListingFound == \A n : DOMAIN ListAllAssetTypesByName(n) = ListedAssets({n})
<1> SUFFICES ASSUME NEW n PROVE DOMAIN ListAllAssetTypesByName(n) = ListedAssets({n})
  OBVIOUS
<1>1. \A s \in Assets({n}) : s[2] = n
  BY DEF Assets
<1>2. DOMAIN ListAllAssetTypesByName(n)
      = MergeAssetContentType(n, GetAllAssets("ListResources", Group(n)), GetAllAssets("ListIamPolicies", Group(n)))
  BY DEF ListAllAssetTypesByName
<1>3. \A s \in Assets({n}) :
        Unlisted(s) <=> /\ Fails("ListResources", Group(n))
                        /\ Fails("ListIamPolicies", Group(n)) \/ Truth("IamPolicy", s) = "unset"
  BY <1>1 DEF Unlisted
<1>4. \A s : Truth("IamPolicy", s) \in {"set", "unset"}
  BY DEF Truth
<1> QED
  BY <1>2, <1>3, <1>4 DEF MergeAssetContentType, GetAllAssets, ListedAssets

(* Listings by asset type add up.                                          *)
LEMMA ListedByName ==
  /\ \A N \in SUBSET Name : UNION {ListedAssets({n}) : n \in N} = ListedAssets(N)
  /\ ListedAssets({First}) \cup ListedAssets(Others) = ListedAssets(Name)
<1>1. ASSUME NEW N \in SUBSET Name PROVE UNION {ListedAssets({n}) : n \in N} = ListedAssets(N)
  <2>1. \A s : s \in ListedAssets(N) <=> \E n \in N : s \in ListedAssets({n})
    BY DEF ListedAssets, Assets
  <2> QED
    BY <2>1
<1>2. ListedAssets({First}) \cup ListedAssets(Others) = ListedAssets(Name)
  BY FirstAssumption DEF ListedAssets, Assets, Others
<1> QED
  BY <1>1, <1>2

(* Assets come with what either of the two listings had; without fields a  *)
(* network ends the Fetch.                                                 *)
LEMMA GcpAssetsFound ==
  ASSUME AskedInv, task = "gcp_assets", NEW S \in GcpAssetsFetch
  PROVE  IF NilFields THEN Found(S) \subseteq GcpShown ELSE Found(S) = GcpShown
<1> DEFINE networks == ListAllAssetTypesByName(First)
           T(s) == networks[s] \cup EnrichNetworkAssets(s)
           compute == {Resource("asset", s, T(s)) : s \in DOMAIN networks}
           group(n) == {Resource("asset", s, ListAllAssetTypesByName(n)[s]) : s \in DOMAIN ListAllAssetTypesByName(n)}
           storage == UNION {group(n) : n \in Others}
<1>1. Found(compute) = Pairs("asset", ListedAssets({First}))
  <2> DEFINE told == [s \in DOMAIN networks |-> T(s)]
  <2>1. \A s \in DOMAIN networks : told[s] = T(s)
    OBVIOUS
  <2>2. DOMAIN networks = ListedAssets({First})
    BY ListingFound
  <2> HIDE DEF T, told, networks
  <2>3. compute = {Resource("asset", s, told[s]) : s \in DOMAIN networks}
    BY <2>1
  <2> QED
    BY <2>2, <2>3, FoundOf
<1>2. \A n : Found(group(n)) = Pairs("asset", ListedAssets({n}))
  BY ListingFound, FoundOf
<1>3. Found(storage) = Pairs("asset", ListedAssets(Others))
  <2>1. Others \in SUBSET Name
    BY DEF Others
  <2> HIDE DEF group
  <2>2. Found(storage) = UNION {Found(group(n)) : n \in Others}
    BY DEF Found
  <2>3. Found(storage) = UNION {Pairs("asset", ListedAssets({n})) : n \in Others}
    BY <1>2, <2>2
  <2>4. UNION {Pairs("asset", ListedAssets({n})) : n \in Others}
        = Pairs("asset", UNION {ListedAssets({n}) : n \in Others})
    <3> DEFINE L(n) == ListedAssets({n})
    <3> HIDE DEF L
    <3>1. \A x : x \in UNION {Pairs("asset", L(n)) : n \in Others} <=> \E n \in Others : \E s \in L(n) : x = <<"asset", s>>
      BY DEF Pairs
    <3>2. \A x : x \in Pairs("asset", UNION {L(n) : n \in Others}) <=> \E n \in Others : \E s \in L(n) : x = <<"asset", s>>
      BY DEF Pairs
    <3>3. UNION {Pairs("asset", L(n)) : n \in Others} = Pairs("asset", UNION {L(n) : n \in Others})
      BY <3>1, <3>2
    <3> QED
      BY <3>3 DEF L
  <2> QED
    BY <2>1, <2>3, <2>4, ListedByName
<1>4. GcpShown = Pairs("asset", ListedAssets(Name))
  <2>1. GcpExists = {"asset"} \X Assets(Name)
    BY DEF GcpExists
  <2>2. \A s : GcpHidden("asset", s) <=> Unlisted(s)
    BY DEF GcpHidden
  <2>3. \A e \in {"asset"} \X Assets(Name) : e = <<"asset", e[2]>> /\ e[1] = "asset" /\ e[2] \in Assets(Name)
    OBVIOUS
  <2>4. \A s \in Assets(Name) : <<"asset", s>> \in {"asset"} \X Assets(Name) /\ <<"asset", s>>[1] = "asset"
                                /\ <<"asset", s>>[2] = s
    OBVIOUS
  <2> QED
    BY <2>1, <2>2, <2>3, <2>4 DEF GcpShown, Pairs, ListedAssets
<1>5. Pairs("asset", ListedAssets({First})) \cup Pairs("asset", ListedAssets(Others)) = GcpShown
  <2>1. Pairs("asset", ListedAssets({First})) \cup Pairs("asset", ListedAssets(Others))
        = Pairs("asset", ListedAssets({First}) \cup ListedAssets(Others))
    BY DEF Pairs
  <2> QED
    BY <1>4, <2>1, ListedByName
<1>6. GcpAssetsFetch = IF NilFields THEN {{}, storage} ELSE {compute \cup storage}
  BY DEF GcpAssetsFetch
<1> HIDE DEF compute, storage
<1>7. CASE NilFields
  <2>1. S = {} \/ S = storage
    BY <1>6, <1>7
  <2>2. Found(S) = {} \/ Found(S) = Found(storage)
    BY <2>1, FoundUnion
  <2> QED
    BY <1>3, <1>5, <1>7, <2>2
<1>8. CASE ~NilFields
  <2>1. S = compute \cup storage
    BY <1>6, <1>8
  <2>2. Found(S) = Found(compute) \cup Found(storage)
    BY <2>1, FoundUnion
  <2> QED
    BY <1>1, <1>3, <1>5, <1>8, <2>2
<1> QED
  BY <1>7, <1>8

(* A project is reported for an asset of its own.                          *)
LEMMA ProjectFound ==
  ASSUME task \in {"gcp_monitoring", "gcp_service_usage", "gcp_logging"}
  PROVE  Found(ListByProject) = GcpShown
<1> DEFINE listed == UNION {DOMAIN ListAllAssetTypesByName(n) : n \in Name}
           P == {s[1] : s \in listed} \ {Whole}
           R(p) == Resource(task, Wide(p),
             {<<"Asset", s, IF s \in listed THEN "set" ELSE "unset">> : s \in Assets(Name) \cap (Within(p) \cup Globals)}
             \cup ExtendWithECS(p))
<1>1. listed = ListedAssets(Name)
  <2>1. listed = UNION {ListedAssets({n}) : n \in Name}
    BY ListingFound
  <2> QED
    BY <2>1, ListedByName
<1>2. \A p : R(p).type = task /\ R(p).at = Wide(p)
  BY DEF Resource
<1>3. ListByProject = {R(p) : p \in P}
  BY DEF ListByProject, GetAssetsByProject
<1> HIDE DEF R
<1>4. \A s \in Assets(Name) : s \in Things \/ s[1] = Whole
  BY DEF Assets, Globals
<1>5. \A p \in Place : p # Whole
  BY PlaceAssumption
<1>6. \A s \in Things : s[1] \in Place
  BY Regions
<1>7. P = {s[1] : s \in ListedAssets(Name) \cap Things}
  BY <1>1, <1>4, <1>5, <1>6 DEF ListedAssets
<1>8. GcpExists = {task} \X {Wide(s[1]) : s \in Assets(Name) \cap Things}
  BY DEF GcpExists
<1>9. \A s : GcpHidden(task, s) <=> \A a \in Assets(Name) \cap Within(s[1]) : Unlisted(a)
  BY DEF GcpHidden
<1>10. \A p : Wide(p)[1] = p /\ <<task, Wide(p)>>[1] = task /\ <<task, Wide(p)>>[2] = Wide(p)
  BY DEF Wide
<1> HIDE DEF P, listed
<1>11. ASSUME NEW p \in P PROVE <<task, Wide(p)>> \in GcpShown
  <2>1. PICK s \in ListedAssets(Name) \cap Things : p = s[1]
    BY <1>7
  <2>2. s \in Assets(Name) \cap Within(p) /\ ~Unlisted(s)
    BY <1>6, <2>1, Regions DEF ListedAssets
  <2>3. <<task, Wide(p)>> \in GcpExists
    BY <1>8, <2>1, <2>2
  <2> QED
    BY <1>9, <1>10, <2>2, <2>3 DEF GcpShown
<1>12. ASSUME NEW x \in GcpShown PROVE \E p \in P : x = <<task, Wide(p)>>
  <2>1. PICK s \in Assets(Name) \cap Things : x = <<task, Wide(s[1])>>
    BY <1>8 DEF GcpShown
  <2>2. ~GcpHidden(task, Wide(s[1]))
    BY <1>10, <2>1 DEF GcpShown
  <2>3. PICK a \in Assets(Name) \cap Within(s[1]) : ~Unlisted(a)
    BY <1>9, <1>10, <2>2
  <2>4. a \in ListedAssets(Name) \cap Things /\ a[1] = s[1]
    BY <1>6, <2>3, Regions DEF ListedAssets
  <2> QED
    BY <1>7, <2>1, <2>4
<1>13. \A x : x \in Found(ListByProject) <=> \E p \in P : x = <<task, Wide(p)>>
  BY <1>2, <1>3 DEF Found
<1> QED
  BY <1>11, <1>12, <1>13

(* Policies of projects and their ancestors.                               *)
LEMMA PoliciesOfProjectsFound == task = "gcp_policies" => Found(ListProjectsAncestorsPolicies) = GcpShown
<1> SUFFICES ASSUME task = "gcp_policies" PROVE Found(ListProjectsAncestorsPolicies) = GcpShown
  OBVIOUS
<1> DEFINE R(p) == Resource(task, Wide(p), (UNION {GetAncestorsAssets(a) : a \in Globals}) \cup ExtendWithECS(p))
           lost == Fails("ListIamPolicies", Group(First))
<1>1. \A p : R(p).type = task /\ R(p).at = Wide(p)
  BY DEF Resource
<1>2. ListProjectsAncestorsPolicies = IF lost THEN {} ELSE {R(p) : p \in Place}
  BY DEF ListProjectsAncestorsPolicies, GetAllAssets
<1>3. GcpExists = {task} \X Wides
  BY DEF GcpExists
<1>4. \A s : GcpHidden(task, s) <=> lost
  BY DEF GcpHidden
<1> HIDE DEF R, lost
<1>5. GcpShown = IF lost THEN {} ELSE {task} \X Wides
  <2>1. \A e \in {task} \X Wides : e[1] = task
    OBVIOUS
  <2> QED
    BY <1>3, <1>4, <2>1 DEF GcpShown
<1>6. CASE lost
  BY <1>2, <1>5, <1>6, FoundUnion
<1>7. CASE ~lost
  <2>1. Found(ListProjectsAncestorsPolicies) = {<<R(p).type, R(p).at>> : p \in Place}
    BY <1>2, <1>7 DEF Found
  <2>2. Found(ListProjectsAncestorsPolicies) = {<<task, Wide(p)>> : p \in Place}
    BY <1>1, <2>1
  <2> QED
    BY <1>5, <1>7, <2>2 DEF Wides
<1> QED
  BY <1>6, <1>7

(* Every GCP fetcher.                                                      *)
LEMMA GcpFound ==
  ASSUME AskedInv, task \in DOMAIN GcpCalls, NEW S \in GcpSends
  PROVE  IF Interrupted THEN Found(S) \subseteq GcpShown ELSE Found(S) = GcpShown
<1>1. Interrupted <=> task = "gcp_assets" /\ NilFields
  BY Tasks DEF Interrupted
<1>2. CASE task = "gcp_assets"
  BY <1>1, <1>2, GcpAssetsFound DEF GcpSends
<1>3. CASE task \in {"gcp_monitoring", "gcp_service_usage", "gcp_logging"}
  <2>1. S = ListByProject
    BY <1>3 DEF GcpSends, GcpMonitoringFetch, GcpLogSinkFetch, GcpServiceUsageFetch, ListMonitoringAssets,
                ListLoggingAssets, ListServiceUsageAssets
  <2> QED
    BY <1>1, <1>3, <2>1, ProjectFound
<1>4. CASE task = "gcp_policies"
  <2>1. S = ListProjectsAncestorsPolicies
    BY <1>4 DEF GcpSends, GcpPoliciesFetch
  <2> QED
    BY <1>1, <1>4, <2>1, PoliciesOfProjectsFound
<1> QED
  BY <1>2, <1>3, <1>4, Tasks

-----------------------------------------------------------------------------
(* A node.                                                                 *)
NodeShown == {e \in NodeExists : ~NodeHidden(e[1], e[2])}

(* What is shown of one type of a node.                                    *)
LEMMA NodeShownPairs ==
  ASSUME NEW type, NEW X, NodeExists = {type} \X X
  PROVE  NodeShown = Pairs(type, {s \in X : ~NodeHidden(type, s)})
<1>1. \A e \in {type} \X X : e = <<type, e[2]>> /\ e[1] = type /\ e[2] \in X
  OBVIOUS
<1>2. \A s \in X : <<type, s>> \in {type} \X X /\ <<type, s>>[1] = type /\ <<type, s>>[2] = s
  OBVIOUS
<1> QED
  BY <1>1, <1>2 DEF Pairs, NodeShown

(* Processes, up to the first that ended while it was read.                *)
LEMMA ProcessesFound ==
  ASSUME task = "process", NEW S \in ProcessesFetch
  PROVE  IF Ended # {} THEN Found(S) \subseteq NodeShown ELSE Found(S) = NodeShown
<1> DEFINE X == {s \in Things : Required(s)}
           read(U) == {s \in U : Required(s) /\ ~Fails("ReadCmdLine", s)}
           T(s) == GetProcessConfigurationFile(s)
<1>1. NodeShown = Pairs("process", {s \in X : ~NodeHidden("process", s)})
  <2>1. NodeExists = {"process"} \X X
    BY DEF NodeExists
  <2> HIDE DEF X
  <2> QED
    BY <2>1, NodeShownPairs
<1>2. \A s : NodeHidden("process", s) <=> Fails("ListFS", Global) \/ Fails("ReadStat", s) \/ Fails("ReadCmdLine", s)
  BY DEF NodeHidden, Fails
<1>3. \A U : Found(ReadOf(U)) = Pairs("process", read(U))
  <2> TAKE U
  <2> DEFINE told == [s \in read(U) |-> T(s)]
  <2>1. \A s \in read(U) : told[s] = T(s)
    OBVIOUS
  <2>2. ReadOf(U) = {Resource("process", s, T(s)) : s \in read(U)}
    BY DEF ReadOf, FetchProcessData
  <2> HIDE DEF T, told, read
  <2>3. ReadOf(U) = {Resource("process", s, told[s]) : s \in read(U)}
    BY <2>1, <2>2
  <2> QED
    BY <2>3, FoundOf
<1>4. CASE Fails("ListFS", Global)
  <2>1. S = {} /\ {s \in X : ~NodeHidden("process", s)} = {}
    BY <1>2, <1>4 DEF ProcessesFetch
  <2> QED
    BY <1>1, <2>1, FoundUnion DEF Pairs
<1>5. CASE ~Fails("ListFS", Global) /\ Ended = {}
  <2>1. S = ReadOf(Things)
    BY <1>5 DEF ProcessesFetch
  <2>2. {s \in X : ~NodeHidden("process", s)} = read(Things)
    BY <1>2, <1>5 DEF Ended
  <2> HIDE DEF X, read
  <2> QED
    BY <1>1, <1>3, <1>5, <2>1, <2>2
<1>6. CASE ~Fails("ListFS", Global) /\ Ended # {}
  <2>1. PICK U \in SUBSET (Things \ Ended) : S = ReadOf(U)
    BY <1>6 DEF ProcessesFetch
  <2>2. read(U) \subseteq {s \in X : ~NodeHidden("process", s)}
    BY <1>2, <1>6 DEF Ended
  <2> HIDE DEF X, read
  <2>3. Pairs("process", read(U)) \subseteq NodeShown
    BY <1>1, <2>2 DEF Pairs
  <2> QED
    BY <1>3, <1>6, <2>1, <2>3
<1> QED
  BY <1>4, <1>5, <1>6

(* Files that could be read.                                               *)
LEMMA FilesFound == task = "file" => Found(FileSystemFetch) = NodeShown
<1> SUFFICES ASSUME task = "file" PROVE Found(FileSystemFetch) = NodeShown
  OBVIOUS
<1> DEFINE X == {s \in UNION {Glob(p) : p \in Place} : ~Fails("Stat", s)}
           T(s) == FromFileInfo(s)
           told == [s \in X |-> T(s)]
<1>1. NodeShown = Pairs("file", {s \in Things : ~NodeHidden("file", s)})
  <2>1. NodeExists = {"file"} \X Things
    BY DEF NodeExists
  <2> QED
    BY <2>1, NodeShownPairs
<1>2. X = {s \in Things : ~NodeHidden("file", s)}
  <2>1. \A s : NodeHidden("file", s) <=> \/ Fails("Stat", s)
                                         \/ (Fails("Walk", Wide(s[1])) /\ Truth("DoubleStar", Wide(s[1])) = "set")
    BY DEF NodeHidden
  <2>2. \A p \in Place : Glob(p) = {s \in Things : /\ s[1] = p
                                                   /\ ~(Truth("DoubleStar", Wide(p)) = "set" /\ Fails("Walk", Wide(p)))}
    BY Regions DEF Glob
  <2>3. \A s : s \in UNION {Glob(p) : p \in Place}
               <=> s \in Things /\ ~(Truth("DoubleStar", Wide(s[1])) = "set" /\ Fails("Walk", Wide(s[1])))
    BY <2>2, Regions
  <2> QED
    BY <2>1, <2>3
<1>3. FileSystemFetch = {Resource("file", s, T(s)) : s \in X}
  BY DEF FileSystemFetch
<1>4. \A s \in X : told[s] = T(s)
  OBVIOUS
<1> HIDE DEF X, T, told
<1>5. FileSystemFetch = {Resource("file", s, told[s]) : s \in X}
  BY <1>3, <1>4
<1> QED
  BY <1>1, <1>2, <1>5, FoundOf

(* Both node fetchers.                                                     *)
LEMMA NodeFound ==
  ASSUME task \in DOMAIN NodeCalls, NEW S \in NodeSends
  PROVE  IF Interrupted THEN Found(S) \subseteq NodeShown ELSE Found(S) = NodeShown
<1>1. CASE task = "process"
  BY <1>1, ProcessesFound DEF NodeSends, Interrupted
<1>2. CASE task = "file"
  <2>1. ~Interrupted
    BY <1>2 DEF Interrupted
  <2> QED
    BY <1>2, <2>1, FilesFound DEF NodeSends
<1> QED
  BY <1>1, <1>2, Tasks

-----------------------------------------------------------------------------
(* The construction of a beater.                                           *)
LEMMA BuiltFound ==
  ASSUME NEW told, NEW keys, keys = OfBenchmark
  PROVE  Found(Beater(told) \cup Registered(keys)) = BenchmarkExists
<1>1. Found(Beater(told)) = {<<"benchmark", Global>>}
  <2>1. Resource("benchmark", Global, told).type = "benchmark" /\ Resource("benchmark", Global, told).at = Global
    BY DEF Resource
  <2> QED
    BY <2>1 DEF Found, Beater
<1>2. Found(Registered(keys)) = {"fetcher"} \X {<<Whole, key>> : key \in keys}
  <2> DEFINE R(key) == Resource("fetcher", <<Whole, key>>, {})
  <2>1. \A key : R(key).type = "fetcher" /\ R(key).at = <<Whole, key>>
    BY DEF Resource
  <2>2. Registered(keys) = {R(key) : key \in keys}
    BY DEF Registered
  <2> HIDE DEF R
  <2>3. Found(Registered(keys)) = {<<R(key).type, R(key).at>> : key \in keys}
    BY <2>2 DEF Found
  <2>4. Found(Registered(keys)) = {<<"fetcher", <<Whole, key>>>> : key \in keys}
    BY <2>1, <2>3
  <2> QED
    BY <2>4
<1>3. Found(Beater(told) \cup Registered(keys)) = Found(Beater(told)) \cup Found(Registered(keys))
  BY FoundUnion
<1> QED
  BY <1>1, <1>2, <1>3 DEF BenchmarkExists

BenchmarkShown == IF BenchmarkHidden THEN {} ELSE BenchmarkExists

(* A step that was taken, or a field that is set.                          *)
Right(op) == IF op \in BenchmarkFields THEN Has(op) ELSE ~Fails(op, Global)

(* A construction needs steps to be taken and fields to be set.            *)
LEMMA Rights ==
  ASSUME AskedInv
  PROVE  /\ BenchmarkHidden <=> \E op \in Needed : ~Right(op)
         /\ \A op \in {"AccountTypes", "SupportedBenchmark", "AccountType", "OrganizationId", "KnownCredentialsType",
                       "ClientUsername", "ClientPassword", "ValidJSON"} : Right(op) <=> Has(op)
         /\ \A op \in {"Unpack", "CommonDataProvider", "Client", "OpaEvaluator", "AssetClient", "ResourceManager",
                       "FindCredentials", "ResourceGraphFactory", "DiagnosticSettingsClient", "FindDefaultCredentials",
                       "CredentialsFile", "InstanceMetadata"} \cup IdentitySteps \cup ClusterSteps :
              Right(op) <=> ~Fails(op, Global)
<1>1. \A op, s : Fails(op, s) => op \notin Fields
  <2>1. \A op, s : <<op, s>>[1] = op
    OBVIOUS
  <2> QED
    BY <2>1 DEF AskedInv, Fails
<1>2. BenchmarkFields \subseteq Fields
  BY DEF Fields
<1>3. \A op : Right(op) <=> ~(Fails(op, Global) \/ (op \in BenchmarkFields /\ ~Has(op)))
  BY <1>1, <1>2 DEF Right
<1>4. BenchmarkHidden <=> \E op \in Needed : ~Right(op)
  BY <1>3 DEF BenchmarkHidden
<1>5. \A op \in {"AccountTypes", "SupportedBenchmark", "AccountType", "OrganizationId", "KnownCredentialsType",
                 "ClientUsername", "ClientPassword", "ValidJSON"} : op \in BenchmarkFields
  BY DEF BenchmarkFields
<1>6. \A op \in {"Unpack", "CommonDataProvider", "Client", "OpaEvaluator", "AssetClient", "ResourceManager",
                 "FindCredentials", "ResourceGraphFactory", "DiagnosticSettingsClient", "FindDefaultCredentials",
                 "CredentialsFile", "InstanceMetadata"} \cup IdentitySteps \cup ClusterSteps :
        op \notin BenchmarkFields
  BY DEF BenchmarkFields, IdentitySteps, ClusterSteps
<1> QED
  BY <1>4, <1>5, <1>6 DEF Right

(* The common parts of the constructions are conjunctions of steps.        *)
LEMMA BeaterRight ==
  ASSUME AskedInv
  PROVE  /\ ConfigNew /\ NewClient /\ Succeed({"CommonDataProvider"}) <=> \A op \in BeaterSteps : Right(op)
         /\ ConfigNew /\ IsSupportedBenchmark /\ BuildBase /\ NewClient <=> \A op \in PostureSteps : Right(op)
         /\ AwsInitialize <=> \A op \in IdentitySteps : Right(op)
         /\ GetK8sProviders <=> \A op \in ClusterSteps : Right(op)
<1>1. ConfigNew /\ NewClient /\ Succeed({"CommonDataProvider"}) <=> \A op \in BeaterSteps : Right(op)
  BY Rights DEF ConfigNew, NewClient, Succeed, BeaterSteps
<1>2. IsSupportedBenchmark /\ BuildBase <=> /\ \A op \in {"SupportedBenchmark", "OpaEvaluator"} : Right(op)
                                            /\ Succeed({"CommonDataProvider"})
  BY Rights DEF IsSupportedBenchmark, BuildBase, Succeed
<1>3. ConfigNew /\ IsSupportedBenchmark /\ BuildBase /\ NewClient <=> \A op \in PostureSteps : Right(op)
  BY <1>1, <1>2 DEF PostureSteps
<1>4. AwsInitialize <=> \A op \in IdentitySteps : Right(op)
  BY Rights DEF AwsInitialize, GetIdentity, GetAccountAlias, Succeed, IdentitySteps
<1>5. GetK8sProviders <=> \A op \in ClusterSteps : Right(op)
  BY Rights DEF GetK8sProviders, GetK8sDataProvider, GetK8sIdProvider, GetK8sClusterId, GetK8sNodeId, Succeed, ClusterSteps
<1> QED
  BY <1>1, <1>3, <1>4, <1>5

(* Benchmark by benchmark: all fetchers of OfBenchmark, or no beater. AWS. *)
LEMMA AwsBuilt == AskedInv /\ task = "cis_aws" => Found(BenchmarkSends) = BenchmarkShown
<1> SUFFICES ASSUME AskedInv, task = "cis_aws" PROVE Found(BenchmarkSends) = BenchmarkShown
  OBVIOUS
<1> DEFINE keys == IF Has("SingleAccount") THEN NewCisAwsFetchers ELSE {}
<1>1. BenchmarkHidden <=> ~((\A op \in PostureSteps : Right(op)) /\ (\A op \in IdentitySteps : Right(op)))
  BY Rights DEF Needed
<1>2. BenchmarkSends = IF BenchmarkHidden THEN {} ELSE Beater({}) \cup Registered(keys)
  BY <1>1, BeaterRight DEF BenchmarkSends, NewPosture, NewBenchmark, AwsBenchmark
<1>3. keys = OfBenchmark
  BY Tasks DEF OfBenchmark, When, NewCisAwsFetchers
<1> HIDE DEF keys
<1> QED
  BY <1>2, <1>3, BuiltFound, FoundUnion DEF BenchmarkShown

(* EKS: the cluster's and the account's steps.                             *)
LEMMA EksBuilt == AskedInv /\ task = "cis_eks" => Found(BenchmarkSends) = BenchmarkShown
<1> SUFFICES ASSUME AskedInv, task = "cis_eks" PROVE Found(BenchmarkSends) = BenchmarkShown
  OBVIOUS
<1> DEFINE told == {<<"EksClusterName", Global, EksClusterName>>}
<1>1. BenchmarkHidden <=> ~(/\ \A op \in PostureSteps : Right(op)
                            /\ \A op \in ClusterSteps : Right(op)
                            /\ Has("AwsCredentials") => /\ \A op \in IdentitySteps : Right(op)
                                                        /\ Right("InstanceMetadata"))
  BY Rights DEF Needed, When
<1>2. GetEksAwsConfig <=> (Has("AwsCredentials") => /\ \A op \in IdentitySteps : Right(op)
                                                    /\ Right("InstanceMetadata"))
  <2>1. EksInitializeAWSConfig /\ GetIdentity <=> AwsInitialize /\ GetMetadata
    BY DEF EksInitializeAWSConfig, AwsInitialize
  <2>2. GetMetadata <=> Right("InstanceMetadata")
    BY Rights DEF GetMetadata, Succeed
  <2> QED
    BY <2>1, <2>2, BeaterRight DEF GetEksAwsConfig
<1>3. BenchmarkSends = IF BenchmarkHidden THEN {} ELSE Beater(told) \cup Registered(NewCisEksFetchers)
  BY <1>1, <1>2, BeaterRight DEF BenchmarkSends, NewPosture, NewBenchmark, EksBenchmark
<1>4. NewCisEksFetchers = OfBenchmark
  BY Tasks DEF OfBenchmark, When, NewCisEksFetchers, NewCisK8sFetchers
<1> HIDE DEF told
<1> QED
  BY <1>3, <1>4, BuiltFound, FoundUnion DEF BenchmarkShown

(* Unmanaged Kubernetes.                                                   *)
LEMMA K8sBuilt == AskedInv /\ task = "cis_k8s" => Found(BenchmarkSends) = BenchmarkShown
<1> SUFFICES ASSUME AskedInv, task = "cis_k8s" PROVE Found(BenchmarkSends) = BenchmarkShown
  OBVIOUS
<1> DEFINE told == {<<"ClusterIdentifier", Global, KubernetesClusterName>>}
<1>1. BenchmarkHidden <=> ~((\A op \in PostureSteps : Right(op)) /\ (\A op \in ClusterSteps : Right(op)))
  BY Rights DEF Needed
<1>2. BenchmarkSends = IF BenchmarkHidden THEN {} ELSE Beater(told) \cup Registered(NewCisK8sFetchers)
  BY <1>1, BeaterRight DEF BenchmarkSends, NewPosture, NewBenchmark, K8sBenchmark
<1>3. NewCisK8sFetchers = OfBenchmark
  BY Tasks DEF OfBenchmark, NewCisK8sFetchers
<1> HIDE DEF told
<1> QED
  BY <1>2, <1>3, BuiltFound, FoundUnion DEF BenchmarkShown

(* GCP, by where the credentials and the project come from.                *)
LEMMA GcpBuilt == AskedInv /\ task = "cis_gcp" => Found(BenchmarkSends) = BenchmarkShown
<1> SUFFICES ASSUME AskedInv, task = "cis_gcp" PROVE Found(BenchmarkSends) = BenchmarkShown
  OBVIOUS
<1>1. BenchmarkHidden <=> ~(/\ \A op \in PostureSteps : Right(op)
                            /\ \A op \in GcpSteps : Right(op)
                            /\ Has("CredentialsFilePath") => Right("CredentialsFile")
                            /\ Has("CredentialsJSON") => Right("ValidJSON")
                            /\ ~Has("SingleAccount") => Right("OrganizationId")
                            /\ Has("SingleAccount") /\ ~Has("ProjectId") => Right("FindDefaultCredentials"))
  BY Rights DEF Needed, When
<1>2. GetCustomCredentials <=> /\ Has("CredentialsFilePath") => Right("CredentialsFile")
                               /\ Has("CredentialsJSON") => Right("ValidJSON")
  BY Rights DEF GetCustomCredentials, ValidateJSONFromFile, Succeed
<1>3. GetProjectId # "nil" <=> Has("ProjectId") \/ Right("FindDefaultCredentials")
  BY Rights DEF GetProjectId, Says, Truth
<1>4. GetGcpConfigParentValue <=> /\ Right("AccountType")
                                  /\ ~Has("SingleAccount") => Right("OrganizationId")
                                  /\ Has("SingleAccount") /\ ~Has("ProjectId") => Right("FindDefaultCredentials")
  BY <1>3, Rights DEF GetGcpConfigParentValue
<1>5. GcpInit <=> Right("AssetClient") /\ Right("ResourceManager")
  BY Rights DEF GcpInit, Succeed
<1>6. GetGcpClientConfig /\ GcpInit /\ (\A op \in PostureSteps : Right(op)) <=> ~BenchmarkHidden
  BY <1>1, <1>2, <1>4, <1>5 DEF GetGcpClientConfig, GcpSteps
<1>7. BenchmarkSends = IF BenchmarkHidden THEN {} ELSE Beater({}) \cup Registered(NewCisGcpFetchers)
  BY <1>6, BeaterRight DEF BenchmarkSends, NewPosture, NewBenchmark, GcpBenchmark
<1>8. NewCisGcpFetchers = OfBenchmark
  BY Tasks DEF OfBenchmark, When, NewCisGcpFetchers
<1> QED
  BY <1>7, <1>8, BuiltFound, FoundUnion DEF BenchmarkShown

(* Azure, by the kind of credentials.                                      *)
LEMMA AzureBuilt == AskedInv /\ task = "cis_azure" => Found(BenchmarkSends) = BenchmarkShown
<1> SUFFICES ASSUME AskedInv, task = "cis_azure" PROVE Found(BenchmarkSends) = BenchmarkShown
  OBVIOUS
<1>1. BenchmarkHidden <=> ~(/\ \A op \in PostureSteps : Right(op)
                            /\ \A op \in AzureSteps : Right(op)
                            /\ Has("UsernamePassword") => Right("ClientUsername") /\ Right("ClientPassword"))
  BY Rights DEF Needed, When
<1>2. GetAzureClientConfig /\ AzureInit
      <=> /\ \A op \in AzureSteps : Right(op)
          /\ Has("UsernamePassword") => Right("ClientUsername") /\ Right("ClientPassword")
  BY Rights DEF GetAzureClientConfig, AzureInit, Succeed, AzureSteps
<1>3. BenchmarkSends = IF BenchmarkHidden THEN {} ELSE Beater({}) \cup Registered(NewCisAzureFactory)
  BY <1>1, <1>2, BeaterRight DEF BenchmarkSends, NewPosture, NewBenchmark, AzureBenchmark
<1>4. NewCisAzureFactory = OfBenchmark
  BY Tasks DEF OfBenchmark, NewCisAzureFactory
<1> QED
  BY <1>3, <1>4, BuiltFound, FoundUnion DEF BenchmarkShown

(* The vulnerability flavor.                                               *)
LEMMA VulnerabilityBuilt == AskedInv /\ task = "vuln_mgmt" => Found(BenchmarkSends) = BenchmarkShown
<1> SUFFICES ASSUME AskedInv, task = "vuln_mgmt" PROVE Found(BenchmarkSends) = BenchmarkShown
  OBVIOUS
<1>1. BenchmarkHidden <=> ~((\A op \in BeaterSteps : Right(op)) /\ (\A op \in IdentitySteps : Right(op)))
  BY Rights DEF Needed
<1>2. Registered({}) = {}
  BY DEF Registered
<1>3. BenchmarkSends = IF BenchmarkHidden THEN {} ELSE Beater({}) \cup Registered({})
  BY <1>1, <1>2, BeaterRight DEF BenchmarkSends, NewVulnerability
<1>4. {} = OfBenchmark
  BY DEF OfBenchmark
<1> QED
  BY <1>3, <1>4, BuiltFound, FoundUnion DEF BenchmarkShown

(* Every construction.                                                     *)
LEMMA BenchmarkFound == AskedInv /\ task \in DOMAIN BenchmarkCalls => Found(BenchmarkSends) = BenchmarkShown
  BY AwsBuilt, EksBuilt, K8sBuilt, GcpBuilt, AzureBuilt, VulnerabilityBuilt, Tasks

(* A scan makes one event.                                                 *)
LEMMA ScanFound == Found(ScanSends) = {<<"vulnerability", Global>>}
<1> DEFINE told == {<<op, Global, Says(op, Global)>> : op \in ScanOps}
<1>1. ScanSends = {Resource("vulnerability", Global, told)}
  BY DEF ScanSends
<1>2. Resource("vulnerability", Global, told).type = "vulnerability" /\ Resource("vulnerability", Global, told).at = Global
  BY DEF Resource
<1> HIDE DEF told
<1> QED
  BY <1>1, <1>2 DEF Found

-----------------------------------------------------------------------------
IsLocal(S) == IF Interrupted THEN Found(S) \subseteq Shown ELSE Found(S) = Shown

(* Whatever is fetched is what is shown, for every task.                   *)
LEMMA FetchFound ==
  ASSUME AskedInv, Fetch
  PROVE  IsLocal(sent')
<1>1. CASE task \in DOMAIN AwsCalls
  <2>1. Shown = AwsShown /\ ~Interrupted /\ sent' = AwsSends
    BY <1>1, Tasks DEF Fetch, Shown, AwsShown, ShownOf, Interrupted
  <2> QED
    BY <1>1, <2>1, AwsFound DEF IsLocal
<1>2. CASE task \in DOMAIN AzureCalls
  <2>1. Shown = AzureShown /\ ~Interrupted /\ sent' = AzureSends
    BY <1>2, Tasks DEF Fetch, Shown, AzureShown, Interrupted
  <2> QED
    BY <1>2, <2>1, AzureFound DEF IsLocal
<1>3. CASE task \in DOMAIN GcpCalls
  <2>1. Shown = GcpShown /\ sent' \in GcpSends
    BY <1>3, Tasks DEF Fetch, Shown, GcpShown
  <2> QED
    BY <1>3, <2>1, GcpFound DEF IsLocal
<1>4. CASE task \in DOMAIN NodeCalls
  <2>1. Shown = NodeShown /\ sent' \in NodeSends
    BY <1>4, Tasks DEF Fetch, Shown, NodeShown
  <2> QED
    BY <1>4, <2>1, NodeFound DEF IsLocal
<1>5. CASE task \in DOMAIN BenchmarkCalls
  <2>1. Shown = BenchmarkShown /\ ~Interrupted /\ sent' = BenchmarkSends
    BY <1>5, Tasks DEF Fetch, Shown, BenchmarkShown, Interrupted
  <2> QED
    BY <1>5, <2>1, BenchmarkFound DEF IsLocal
<1>6. CASE task \in DOMAIN ScanCalls
  <2>1. Shown = {<<"vulnerability", Global>>} /\ ~Interrupted /\ sent' = ScanSends
    BY <1>6, Tasks DEF Fetch, Shown, Interrupted
  <2> QED
    BY <2>1, ScanFound DEF IsLocal
<1> QED
  BY <1>1, <1>2, <1>3, <1>4, <1>5, <1>6 DEF AskedInv, Fetchers

(* What there is to find, and what of it is hidden, is a matter of the     *)
(* world and of the credential report.                                     *)
LEMMA WorldCalls ==
  ASSUME UNCHANGED world
  PROVE  /\ task' = task /\ home' = home
         /\ \A op, s : /\ Truth(op, s)' = Truth(op, s)
                       /\ Fails(op, s)' <=> Fails(op, s)
                       /\ Says(op, s)' = Says(op, s)
         /\ \A p : NewMultiRegionClients(p)' = NewMultiRegionClients(p)
         /\ \A n : Group(n)' = Group(n)
<1>1. task' = task /\ home' = home /\ fails' = fails /\ unset' = unset
  BY DEF world
<1>2. \A op, s : /\ Truth(op, s)' = Truth(op, s)
                 /\ Fails(op, s)' <=> Fails(op, s)
                 /\ Says(op, s)' = Says(op, s)
  BY <1>1 DEF Truth, Fails, Says
<1>3. \A p : NewMultiRegionClients(p)' = NewMultiRegionClients(p)
  BY <1>1, <1>2 DEF NewMultiRegionClients
<1>4. \A n : Group(n)' = Group(n)
  BY <1>1 DEF Group
<1> QED
  BY <1>1, <1>2, <1>3, <1>4

(* What exists and what is hidden depends on the world alone, which no     *)
(* step changes; one lemma per cloud.                                      *)
LEMMA WorldAws ==
  ASSUME UNCHANGED world, report' = report
  PROVE  AwsShown' = AwsShown
<1>1. AwsExists' = AwsExists
  <2>1. \A op, X : {s \in X : Truth(op, s)' = "set"} = {s \in X : Truth(op, s) = "set"}
    BY WorldCalls
  <2>2. {u \in Globals \cup {Root} : Truth("ReportRow", u)' = "set" /\ Says("RootDates", u)' = "set"}
        = {u \in Globals \cup {Root} : Truth("ReportRow", u) = "set" /\ Says("RootDates", u) = "set"}
    BY WorldCalls
  <2>3. task' = task /\ home' = home
    BY WorldCalls
  <2> QED
    BY <2>1, <2>2, <2>3 DEF AwsExists
<1>2. \A type, s : AwsHidden(type, s)' <=> AwsHidden(type, s)
  <2>1. \A p, ops : EveryRegion(p, ops)' = EveryRegion(p, ops)
    BY WorldCalls DEF EveryRegion
  <2>2. \A type, s : HidingCalls(type, s)' = HidingCalls(type, s)
    BY <2>1 DEF HidingCalls
  <2>3. fails' = fails
    BY DEF world
  <2>4. Unnamed' <=> Unnamed
    BY WorldCalls DEF Unnamed, EndsTooSoon
  <2> QED
    BY <2>2, <2>3, <2>4, WorldCalls DEF AwsHidden, ThroughClients
<1> QED
  BY <1>1, <1>2 DEF AwsShown, ShownOf

(* Azure.                                                                  *)
LEMMA WorldAzure ==
  ASSUME UNCHANGED world
  PROVE  AzureShown' = AzureShown
<1>1. AzureExists' = AzureExists
  BY WorldCalls DEF AzureExists
<1>2. \A type, s : AzureHidden(type, s)' <=> AzureHidden(type, s)
  BY WorldCalls DEF AzureHidden, Unknown
<1> QED
  BY <1>1, <1>2 DEF AzureShown

(* GCP.                                                                    *)
LEMMA WorldGcp ==
  ASSUME UNCHANGED world
  PROVE  GcpShown' = GcpShown /\ (NilFields' <=> NilFields)
<1>1. \A N : Assets(N)' = Assets(N)
  BY WorldCalls DEF Assets
<1>2. \A s : Unlisted(s)' <=> Unlisted(s)
  BY WorldCalls DEF Unlisted
<1>3. GcpExists' = GcpExists
  BY <1>1, WorldCalls DEF GcpExists
<1>4. \A type, s : GcpHidden(type, s)' <=> GcpHidden(type, s)
  BY <1>1, <1>2, WorldCalls DEF GcpHidden
<1>5. ListAllAssetTypesByName(First)' = ListAllAssetTypesByName(First)
  <2>1. \A op, g : GetAllAssets(op, g)' <=> GetAllAssets(op, g)
    BY WorldCalls DEF GetAllAssets
  <2>2. \A n : \A r, p \in BOOLEAN : MergeAssetContentType(n, r, p)' = MergeAssetContentType(n, r, p)
    BY <1>1, WorldCalls DEF MergeAssetContentType
  <2>3. \A p : ExtendWithECS(p)' = ExtendWithECS(p)
    BY WorldCalls DEF ExtendWithECS, GetEcsGcpCloudData
  <2> DEFINE resources == GetAllAssets("ListResources", Group(First))
             policies == GetAllAssets("ListIamPolicies", Group(First))
             D == MergeAssetContentType(First, resources, policies)
             V(s) == {<<"Resource", s, IF resources THEN "set" ELSE "nil">>,
                      <<"IamPolicy", s, IF policies THEN Truth("IamPolicy", s) ELSE "unset">>}
                     \cup ExtendWithECS(s[1])
  <2>4. resources \in BOOLEAN /\ policies \in BOOLEAN
    BY DEF GetAllAssets
  <2>5. resources' = resources /\ policies' = policies
    BY WorldCalls DEF GetAllAssets
  <2>6. D' = D
    <3> HIDE DEF resources, policies
    <3>1. D' = MergeAssetContentType(First, resources, policies)'
      OBVIOUS
    <3> QED
      BY <2>2, <2>4, <2>5
  <2>7. \A s : V(s)' = V(s)
    BY <2>3, <2>5, WorldCalls
  <2>8. ListAllAssetTypesByName(First) = [s \in D |-> V(s)]
    BY DEF ListAllAssetTypesByName
  <2>9. ListAllAssetTypesByName(First)' = [s \in D' |-> V(s)']
    BY DEF ListAllAssetTypesByName
  <2> HIDE DEF D, V
  <2> QED
    BY <2>6, <2>7, <2>8, <2>9
<1>6. NilFields' <=> NilFields
  BY <1>5, WorldCalls DEF NilFields
<1> QED
  BY <1>3, <1>4, <1>6 DEF GcpShown

(* A node.                                                                 *)
LEMMA WorldNode ==
  ASSUME UNCHANGED world
  PROVE  NodeShown' = NodeShown /\ Ended' = Ended
<1>1. \A s : Required(s)' <=> Required(s)
  BY WorldCalls DEF Required
<1>2. NodeExists' = NodeExists
  BY <1>1, WorldCalls DEF NodeExists
<1>3. fails' = fails
  BY DEF world
<1>4. \A type, s : NodeHidden(type, s)' <=> NodeHidden(type, s)
  BY <1>3, WorldCalls DEF NodeHidden
<1>5. Ended' = Ended
  BY WorldCalls DEF Ended
<1> QED
  BY <1>2, <1>4, <1>5 DEF NodeShown

(* A construction.                                                         *)
LEMMA WorldBenchmark ==
  ASSUME UNCHANGED world
  PROVE  BenchmarkShown' = BenchmarkShown
<1>1. \A field : Has(field)' <=> Has(field)
  BY WorldCalls DEF Has
<1>2. OfBenchmark' = OfBenchmark
  BY <1>1, WorldCalls DEF OfBenchmark
<1>3. Needed' = Needed
  BY <1>1, WorldCalls DEF Needed
<1>4. BenchmarkHidden' <=> BenchmarkHidden
  BY <1>1, <1>3, WorldCalls DEF BenchmarkHidden
<1> QED
  BY <1>2, <1>4 DEF BenchmarkShown, BenchmarkExists

(* All of them.                                                            *)
LEMMA WorldShown ==
  ASSUME AskedInv, UNCHANGED world, report' = report
  PROVE  Shown' = Shown /\ (Interrupted' <=> Interrupted)
<1>1. task' = task
  BY WorldCalls
<1>2. Shown' = Shown
  <2>1. CASE task \in DOMAIN AwsCalls
    BY <1>1, <2>1, Tasks, WorldAws DEF Shown, AwsShown, ShownOf
  <2>2. CASE task \in DOMAIN AzureCalls
    BY <1>1, <2>2, Tasks, WorldAzure DEF Shown, AzureShown
  <2>3. CASE task \in DOMAIN GcpCalls
    BY <1>1, <2>3, Tasks, WorldGcp DEF Shown, GcpShown
  <2>4. CASE task \in DOMAIN NodeCalls
    BY <1>1, <2>4, Tasks, WorldNode DEF Shown, NodeShown
  <2>5. CASE task \in DOMAIN BenchmarkCalls
    BY <1>1, <2>5, Tasks, WorldBenchmark DEF Shown, BenchmarkShown
  <2>6. CASE task \in DOMAIN ScanCalls
    BY <1>1, <2>6, Tasks DEF Shown
  <2> QED
    BY <2>1, <2>2, <2>3, <2>4, <2>5, <2>6 DEF AskedInv, Fetchers
<1>3. Interrupted' <=> Interrupted
  BY <1>1, WorldGcp, WorldNode DEF Interrupted
<1> QED
  BY <1>2, <1>3

(* The report is read before anything is sent, and not again.              *)
SentInv == AskedInv /\ (state = "done" => ReportRead)

(* Reading the report ends before the Fetch.                               *)
LEMMA SentStep == SentInv /\ [Next]_vars => SentInv'
<1> SUFFICES ASSUME SentInv, [Next]_vars PROVE SentInv'
  OBVIOUS
<1>1. AskedInv'
  BY AskedStep DEF SentInv
<1>2. CASE ReadReport
  <2>1. ~ReportRead
    BY <1>2 DEF ReadReport, GetCredentialReport, FirstGet, GenerateReport, SecondGet, RetryGet, GiveUp, Get, ReportRead
  <2>2. state' = state /\ state # "done"
    BY <1>2, <2>1 DEF ReadReport, SentInv
  <2> QED
    BY <1>1, <2>2 DEF SentInv
<1>3. CASE Fetch
  BY <1>1, <1>3 DEF Fetch, SentInv, ReportRead, reportVars
<1>4. CASE UNCHANGED vars
  BY <1>1, <1>4 DEF vars, SentInv, ReportRead, reportVars
<1> QED
  BY <1>2, <1>3, <1>4 DEF Next

(* LossIsLocal, by its parts.                                              *)
LEMMA LossDef == LossIsLocal <=> (state = "done" => IsLocal(sent))
  BY DEF LossIsLocal, IsLocal, Found

(* The step that sends decides; no other touches what was sent.            *)
LEMMA LossStep == SentInv /\ LossIsLocal /\ [Next]_vars => LossIsLocal'
<1> SUFFICES ASSUME SentInv, LossIsLocal, [Next]_vars PROVE LossIsLocal'
  OBVIOUS
<1>1. UNCHANGED world
  BY DEF Next, ReadReport, Fetch, vars, world
<1>2. CASE ReadReport
  <2>1. ~ReportRead
    BY <1>2 DEF ReadReport, GetCredentialReport, FirstGet, GenerateReport, SecondGet, RetryGet, GiveUp, Get, ReportRead
  <2>2. state' # "done"
    BY <1>2, <2>1 DEF ReadReport, SentInv
  <2> QED
    BY <2>2 DEF LossIsLocal
<1>3. ASSUME report' = report, IsLocal(sent') PROVE LossIsLocal'
  BY <1>1, <1>3, WorldShown DEF SentInv, LossIsLocal, IsLocal, Found
<1>4. CASE Fetch
  BY <1>3, <1>4, FetchFound DEF Fetch, SentInv, reportVars
<1>5. CASE UNCHANGED vars
  <2>1. CASE state # "done"
    BY <1>5, <2>1 DEF vars, LossIsLocal
  <2>2. CASE state = "done"
    BY <1>3, <1>5, <2>2, LossDef DEF vars, reportVars
  <2> QED
    BY <2>1, <2>2
<1> QED
  BY <1>2, <1>4, <1>5 DEF Next

(* A cycle reports exactly what no failed call had to hide: a failure in   *)
(* one region, of one detail or of one listing does not spread, and        *)
(* nothing is made up.                                                     *)
THEOREM CloudLossIsLocal == Spec => []LossIsLocal
<1>1. Init => SentInv /\ LossIsLocal
  BY AskedInit DEF Init, SentInv, LossIsLocal
<1> QED
  BY <1>1, SentStep, LossStep, PTL DEF Spec

-----------------------------------------------------------------------------
(* What is sent of a type at a place is one resource.                      *)
Single(S) == \A a, b \in S : a.type = b.type /\ a.at = b.at => a = b
OneEach(S, type) == Single(S) /\ \A a \in S : a.type = type

(* Two answers without a common type.                                      *)
LEMMA SingleUnion ==
  ASSUME NEW A, NEW B, Single(A), Single(B), \A a \in A : \A b \in B : a.type # b.type
  PROVE  Single(A \cup B)
  BY DEF Single

(* Answer by answer: each is a set of R(s) for some function R of the      *)
(* place.                                                                  *)
LEMMA S3Single == OneEach(S3Fetch, "bucket")
<1> DEFINE c == NewMultiRegionClients("s3")
           R(s) == Resource("bucket", s, {<<"GetBucketEncryption", s, GetBucketEncryption(c, s)>>,
                                          <<"GetBucketPolicy", s, GetBucketPolicy(c, s)>>,
                                          <<"GetBucketVersioning", s, GetBucketVersioning(c, s)>>,
                                          <<"GetPublicAccessBlock", s, GetPublicAccessBlock(c, s)>>,
                                          <<"AccountPublicAccessBlock", Global, GetAccountPublicAccessBlock>>})
<1>1. \A s : R(s).type = "bucket" /\ R(s).at = s
  BY DEF Resource
<1>2. \A a \in S3Fetch : \E s : a = R(s)
  BY DEF S3Fetch, DescribeBuckets, Panics, Failed, Return
<1> HIDE DEF R
<1> QED
  BY <1>1, <1>2 DEF OneEach, Single

(* A listing per region.                                                   *)
LEMMA ListSingle ==
  ASSUME NEW type, NEW op, NEW c
  PROVE  OneEach(MultiRegionFetch([r \in c |-> ListRegion(type, op, r)]).found, type)
<1> DEFINE R(s) == Resource(type, s, {})
<1>1. \A s : R(s).type = type /\ R(s).at = s
  BY DEF Resource
<1>2. \A a \in MultiRegionFetch([r \in c |-> ListRegion(type, op, r)]).found : \E s : a = R(s)
  BY DEF MultiRegionFetch, ListRegion, Failed, Return
<1> HIDE DEF R
<1> QED
  BY <1>1, <1>2 DEF OneEach, Single

(* VPCs.                                                                   *)
LEMMA VpcSingle == \A c : OneEach(DescribeVPCs(c).found, "vpc")
<1> TAKE c
<1> DEFINE R(s) == Resource("vpc", s, {<<"DescribeFlowLogs", s, Says("DescribeFlowLogs", s)>>})
<1>1. \A s : R(s).type = "vpc" /\ R(s).at = s
  BY DEF Resource
<1>2. \A a \in DescribeVPCs(c).found : \E s : a = R(s)
  BY DEF DescribeVPCs, MultiRegionFetch, Failed, Return
<1> HIDE DEF R
<1> QED
  BY <1>1, <1>2 DEF OneEach, Single

(* EBS encryption.                                                         *)
LEMMA EbsSingle == \A c : OneEach(GetEbsEncryptionByDefault(c).found, "ebs")
<1> TAKE c
<1> DEFINE R(s) == Resource("ebs", s, {<<"EbsEncryption", s, Says("EbsEncryption", s)>>})
<1>1. \A s : R(s).type = "ebs" /\ R(s).at = s
  BY DEF Resource
<1>2. \A a \in GetEbsEncryptionByDefault(c).found : \E s : a = R(s)
  BY DEF GetEbsEncryptionByDefault, MultiRegionFetch, Failed, Return
<1> HIDE DEF R
<1> QED
  BY <1>1, <1>2 DEF OneEach, Single

(* Instances of RDS.                                                       *)
LEMMA RdsSingle == OneEach(RdsFetch, "db")
<1> DEFINE R(s) == Resource("db", s, GetDBInstanceSubnets(s))
<1>1. \A s : R(s).type = "db" /\ R(s).at = s
  BY DEF Resource
<1>2. \A a \in RdsFetch : \E s : a = R(s)
  BY DEF RdsFetch, DescribeDBInstances, MultiRegionFetch, Failed, Return
<1> HIDE DEF R
<1> QED
  BY <1>1, <1>2 DEF OneEach, Single

(* Keys.                                                                   *)
LEMMA KmsSingle == OneEach(KmsFetch, "key")
<1> DEFINE R(s) == Resource("key", s, {<<"KeyRotation", s, Says("KeyRotation", s)>>})
<1>1. \A s : R(s).type = "key" /\ R(s).at = s
  BY DEF Resource
<1>2. \A a \in KmsFetch : \E s : a = R(s)
  BY DEF KmsFetch, DescribeSymmetricKeys, MultiRegionFetch, Failed, Return
<1> HIDE DEF R
<1> QED
  BY <1>1, <1>2 DEF OneEach, Single

(* Users.                                                                  *)
LEMMA UsersSingle == \A ready : OneEach(GetUsers(ready).found, "user")
<1> TAKE ready
<1> DEFINE R(s) == Resource("user", s, GetMFADevices(s) \cup ListInlinePolicies(s)
                                       \cup {<<"AttachedPolicies", s, ListAttachedPolicies(s)>>})
<1>1. \A s : R(s).type = "user" /\ R(s).at = s
  BY DEF Resource
<1>2. \A a \in GetUsers(ready).found : \E s : a = R(s)
  BY DEF GetUsers, Failed, Return
<1> HIDE DEF R
<1> QED
  BY <1>1, <1>2 DEF OneEach, Single

(* Policies, where the support policy is made by another function.         *)
LEMMA PoliciesSingle == OneEach(GetPolicies.found, "policy")
<1> DEFINE T(s) == IF s = Support THEN {GetPolicyDocument(s), <<"PolicyRoles", s, Says("PolicyRoles", s)>>}
                   ELSE {GetPolicyDocument(s)}
           R(s) == Resource("policy", s, T(s))
<1>1. \A s : R(s).type = "policy" /\ R(s).at = s
  BY DEF Resource
<1>2. GetSupportPolicy = R(Support)
  BY DEF GetSupportPolicy
<1>3. \A s \in ListPolicies : Resource("policy", s, {GetPolicyDocument(s)}) = R(s)
  BY DEF ListPolicies
<1>4. \A a \in GetPolicies.found : \/ a = GetSupportPolicy
                                   \/ \E s \in ListPolicies : a = Resource("policy", s, {GetPolicyDocument(s)})
  BY DEF GetPolicies, Failed, Return
<1> HIDE DEF R
<1>5. \A a \in GetPolicies.found : \E s : a = R(s)
  BY <1>2, <1>3, <1>4
<1> QED
  BY <1>1, <1>5 DEF OneEach, Single

(* One resource of the account.                                            *)
LEMMA OneOnly ==
  ASSUME NEW S, NEW type, NEW told, \A a \in S : a = Resource(type, Global, told)
  PROVE  OneEach(S, type)
<1>1. Resource(type, Global, told).type = type
  BY DEF Resource
<1> QED
  BY <1>1 DEF OneEach, Single

(* Trails.                                                                 *)
LEMMA TrailsSingle == OneEach(LoggingDescribeTrails.found, "trail")
<1> DEFINE R(s) == Resource("trail", s, EnrichedTrail(s))
<1>1. \A s : R(s).type = "trail" /\ R(s).at = s
  BY DEF Resource
<1>2. \A a \in LoggingDescribeTrails.found : \E s : a = R(s)
  BY DEF LoggingDescribeTrails, DescribeTrails, Panics, Failed, Return
<1> HIDE DEF R
<1> QED
  BY <1>1, <1>2 DEF OneEach, Single

(* Security hubs.                                                          *)
LEMMA HubsSingle == OneEach(DescribeHubs.found, "hub")
<1> DEFINE R(s) == Resource("hub", s, {<<"DescribeHub", s, Blur(Says("DescribeHub", s))>>})
<1>1. \A s : R(s).type = "hub" /\ R(s).at = s
  BY DEF Resource
<1>2. \A a \in DescribeHubs.found : \E s : a = R(s)
  BY DEF DescribeHubs, MultiRegionFetch
<1> HIDE DEF R
<1> QED
  BY <1>1, <1>2 DEF OneEach, Single

(* Answers of two types.                                                   *)
LEMMA OneEachUnion ==
  ASSUME NEW A, NEW B, NEW t, NEW u, OneEach(A, t), OneEach(B, u), t # u
  PROVE  Single(A \cup B)
  BY DEF OneEach, Single

(* The four answers of the network fetcher.                                *)
LEMMA NetworkSingle == Single(NetworkFetch)
<1> DEFINE c == NewMultiRegionClients("ec2")
           A == DescribeNetworkAcl(c).found
           B == DescribeSecurityGroups(c).found
           C == DescribeVPCs(c).found
           D == GetEbsEncryptionByDefault(c).found
<1>1. OneEach(A, "nacl")
  BY ListSingle DEF DescribeNetworkAcl
<1>2. OneEach(B, "sg")
  BY ListSingle DEF DescribeSecurityGroups
<1>3. OneEach(C, "vpc")
  BY VpcSingle
<1>4. OneEach(D, "ebs")
  BY EbsSingle
<1>5. NetworkFetch = (A \cup B) \cup (C \cup D)
  BY DEF NetworkFetch
<1> HIDE DEF A, B, C, D
<1>6. Single(A \cup B) /\ \A a \in A \cup B : a.type \in {"nacl", "sg"}
  BY <1>1, <1>2, OneEachUnion DEF OneEach
<1>7. Single(C \cup D) /\ \A a \in C \cup D : a.type \in {"vpc", "ebs"}
  BY <1>3, <1>4, OneEachUnion DEF OneEach
<1> QED
  BY <1>5, <1>6, <1>7, SingleUnion

(* The five of IAM.                                                        *)
LEMMA IamSingle == Single(IamFetch)
<1> DEFINE A == GetPasswordPolicy.found
           B == ListServerCertificates.found
           C == GetAccessAnalyzers.found
           D == GetUsers(report = "ready").found
           E == GetPolicies.found
<1>1. OneEach(A, "pwd-policy")
  <2>1. \A a \in A : a = Resource("pwd-policy", Global, {})
    BY DEF GetPasswordPolicy, Failed, Return
  <2> HIDE DEF A
  <2> QED
    BY <2>1, OneOnly
<1>2. OneEach(B, "certificates")
  <2> DEFINE told == {<<"ServerCertificates", Global, Says("ServerCertificates", Global)>>}
  <2>1. \A a \in B : a = Resource("certificates", Global, told)
    BY DEF ListServerCertificates, Failed, Return
  <2> HIDE DEF B, told
  <2> QED
    BY <2>1, OneOnly
<1>3. OneEach(C, "analyzers")
  <2> DEFINE told == {<<"ListAnalyzers", Wide(r), Says("ListAnalyzers", Wide(r))>> : r \in NewMultiRegionClients("iam")}
  <2>1. C = {} \/ C = {Resource("analyzers", Global, told)}
    BY DEF GetAccessAnalyzers, Failed, Return
  <2> HIDE DEF C, told
  <2>2. \A a \in C : a = Resource("analyzers", Global, told)
    BY <2>1
  <2> QED
    BY <2>2, OneOnly
<1>4. OneEach(D, "user") /\ OneEach(E, "policy")
  BY UsersSingle, PoliciesSingle
<1>5. IamFetch = ((A \cup B) \cup (D \cup E)) \cup C
  BY DEF IamFetch
<1> HIDE DEF A, B, C, D, E
<1>6. Single(A \cup B) /\ \A a \in A \cup B : a.type \in {"pwd-policy", "certificates"}
  BY <1>1, <1>2, OneEachUnion DEF OneEach
<1>7. Single(D \cup E) /\ \A a \in D \cup E : a.type \in {"user", "policy"}
  BY <1>4, OneEachUnion DEF OneEach
<1>8. Single((A \cup B) \cup (D \cup E))
  BY <1>6, <1>7, SingleUnion
<1> QED
  BY <1>3, <1>5, <1>6, <1>7, <1>8, SingleUnion DEF OneEach

(* Trails and AWS Config.                                                  *)
LEMMA LoggingSingle == Single(LoggingFetch)
<1> DEFINE A == LoggingDescribeTrails.found
           none == LoggingDescribeTrails.end = "panic" \/ DescribeConfigRecorders.end = "err"
           told == DescribeConfigRecorders.found
           B == IF none THEN {} ELSE {Resource("config", Global, told)}
<1>1. LoggingFetch = A \cup B
  BY DEF LoggingFetch
<1>2. OneEach(A, "trail")
  BY TrailsSingle
<1>3. OneEach(B, "config")
  <2> HIDE DEF none, told
  <2>1. \A a \in B : a = Resource("config", Global, told)
    OBVIOUS
  <2> HIDE DEF B
  <2> QED
    BY <2>1, OneOnly
<1> HIDE DEF A, B
<1> QED
  BY <1>1, <1>2, <1>3, OneEachUnion

(* Monitoring and hubs.                                                    *)
LEMMA MonitoringSingle == Single(MonitoringFetch)
<1> DEFINE told == UNION {MonitoringItem(t) : t \in Things}
           A == AggregateResources.found
           B == DescribeHubs.found
<1>1. MonitoringFetch \subseteq A \cup B
  BY DEF MonitoringFetch
<1>2. OneEach(A, "monitoring")
  <2>1. A = {} \/ A = {Resource("monitoring", Global, told)}
    BY DEF AggregateResources, DescribeTrails, Panics, Failed, Return
  <2> HIDE DEF A, told
  <2>2. \A a \in A : a = Resource("monitoring", Global, told)
    BY <2>1
  <2> QED
    BY <2>2, OneOnly
<1>3. OneEach(B, "hub")
  BY HubsSingle
<1> HIDE DEF A, B
<1>4. Single(A \cup B)
  BY <1>2, <1>3, OneEachUnion
<1> QED
  BY <1>1, <1>4 DEF Single

(* Those of a cluster share their IDs anyway.                              *)
OfClusterTasks == {"ecr", "elb"}

(* Every AWS fetcher but those of a cluster, whose IDs are shared anyway.  *)
LEMMA AwsSingle == task \in DOMAIN AwsCalls \ OfClusterTasks => Single(AwsSends)
<1> SUFFICES ASSUME task \in DOMAIN AwsCalls \ OfClusterTasks PROVE Single(AwsSends)
  OBVIOUS
<1> QED
  BY S3Single, NetworkSingle, RdsSingle, KmsSingle, IamSingle, LoggingSingle, MonitoringSingle, Tasks
     DEF AwsSends, OneEach, OfClusterTasks

(* Every Azure fetcher.                                                    *)
LEMMA AzureSingle == task \in DOMAIN AzureCalls => Single(AzureSends)
<1>1. Single(AzureAssetsFetch)
  <2> DEFINE R(t, s) == Resource(t, s, Enrich(t, s) \cup CloudAccount(s[1]))
  <2>1. \A t, s : R(t, s).type = t /\ R(t, s).at = s
    BY DEF Resource
  <2>2. \A a \in AzureAssetsFetch : \E t, s : a = R(t, s)
    BY DEF AzureAssetsFetch
  <2> HIDE DEF R
  <2> QED
    BY <2>1, <2>2 DEF Single
<1>2. Single(AzureBatchFetch)
  <2> DEFINE R(t, p) == Resource(t, Wide(p),
                          {<<t, Wide(p), Blur(IF QueryFails("resources") THEN "nil" ELSE Truth(t, Wide(p)))>>}
                          \cup CloudAccount(p))
  <2>1. \A t, p : R(t, p).type = t /\ R(t, p).at = Wide(p)
    BY DEF Resource
  <2>2. AzureBatchFetch = {R(t, p) : t \in BatchTypes, p \in GetSubscriptions}
    BY DEF AzureBatchFetch
  <2>3. \A p, q : Wide(p) = Wide(q) => p = q
    BY DEF Wide
  <2> HIDE DEF R
  <2>4. \A a \in AzureBatchFetch : \E t, p : a = R(t, p)
    BY <2>2
  <2> QED
    BY <2>1, <2>3, <2>4 DEF Single
<1>3. Single(AzureInsightsBatchFetch)
  <2> DEFINE R(p) == Resource("diagnostic-settings", Wide(p),
                       {<<"DiagnosticSettings", Wide(p), Truth("DiagnosticSettings", Wide(p))>>} \cup CloudAccount(p))
  <2>1. \A p : R(p).at = Wide(p)
    BY DEF Resource
  <2>2. \A a \in AzureInsightsBatchFetch : \E p : a = R(p)
    BY DEF AzureInsightsBatchFetch
  <2>3. \A p, q : Wide(p) = Wide(q) => p = q
    BY DEF Wide
  <2> HIDE DEF R
  <2> QED
    BY <2>1, <2>2, <2>3 DEF Single
<1> QED
  BY <1>1, <1>2, <1>3, Tasks DEF AzureSends

(* Every GCP fetcher.                                                      *)
LEMMA GcpSingle == task \in DOMAIN GcpCalls => \A S \in GcpSends : Single(S)
<1>1. \A S \in GcpAssetsFetch : Single(S)
  <2> DEFINE networks == ListAllAssetTypesByName(First)
             compute == {Resource("asset", s, networks[s] \cup EnrichNetworkAssets(s)) : s \in DOMAIN networks}
             group(n) == {Resource("asset", s, ListAllAssetTypesByName(n)[s]) : s \in DOMAIN ListAllAssetTypesByName(n)}
             storage == UNION {group(n) : n \in Others}
             R(s) == Resource("asset", s, IF s[2] = First THEN networks[s] \cup EnrichNetworkAssets(s)
                                          ELSE ListAllAssetTypesByName(s[2])[s])
  <2>1. \A s : R(s).at = s
    BY DEF Resource
  <2>2. \A n : \A s \in DOMAIN ListAllAssetTypesByName(n) : s[2] = n
    BY ListingFound DEF ListedAssets, Assets
  <2>3. \A a \in compute : \E s : a = R(s)
    BY <2>2
  <2>4. ASSUME NEW n \in Others, NEW a \in group(n) PROVE \E s : a = R(s)
    <3>1. PICK s \in DOMAIN ListAllAssetTypesByName(n) : a = Resource("asset", s, ListAllAssetTypesByName(n)[s])
      BY <2>4
    <3>2. s[2] = n /\ n # First
      BY <2>2 DEF Others
    <3> QED
      BY <3>1, <3>2
  <2>5. \A a \in storage : \E s : a = R(s)
    <3> HIDE DEF group, R
    <3> QED
      BY <2>4
  <2>6. GcpAssetsFetch = IF NilFields THEN {{}, storage} ELSE {compute \cup storage}
    BY DEF GcpAssetsFetch
  <2> HIDE DEF R, compute, storage
  <2>7. \A S \in GcpAssetsFetch : S = {} \/ S = storage \/ S = compute \cup storage
    BY <2>6
  <2>8. \A S \in GcpAssetsFetch : \A a \in S : \E s : a = R(s)
    BY <2>3, <2>5, <2>7
  <2> QED
    BY <2>1, <2>8 DEF Single
<1>2. Single(ListByProject)
  <2> DEFINE listed == UNION {DOMAIN ListAllAssetTypesByName(n) : n \in Name}
             R(p) == Resource(task, Wide(p),
               {<<"Asset", s, IF s \in listed THEN "set" ELSE "unset">> : s \in Assets(Name) \cap (Within(p) \cup Globals)}
               \cup ExtendWithECS(p))
  <2>1. \A p : R(p).at = Wide(p)
    BY DEF Resource
  <2>2. \A a \in ListByProject : \E p : a = R(p)
    BY DEF ListByProject, GetAssetsByProject
  <2>3. \A p, q : Wide(p) = Wide(q) => p = q
    BY DEF Wide
  <2> HIDE DEF R
  <2> QED
    BY <2>1, <2>2, <2>3 DEF Single
<1>3. Single(ListProjectsAncestorsPolicies)
  <2> DEFINE R(p) == Resource(task, Wide(p), (UNION {GetAncestorsAssets(a) : a \in Globals}) \cup ExtendWithECS(p))
  <2>1. \A p : R(p).at = Wide(p)
    BY DEF Resource
  <2>2. \A a \in ListProjectsAncestorsPolicies : \E p : a = R(p)
    BY DEF ListProjectsAncestorsPolicies
  <2>3. \A p, q : Wide(p) = Wide(q) => p = q
    BY DEF Wide
  <2> HIDE DEF R
  <2> QED
    BY <2>1, <2>2, <2>3 DEF Single
<1> QED
  BY <1>1, <1>2, <1>3, Tasks
     DEF GcpSends, GcpMonitoringFetch, GcpLogSinkFetch, GcpServiceUsageFetch, GcpPoliciesFetch,
         ListMonitoringAssets, ListLoggingAssets, ListServiceUsageAssets

(* Files of a node.                                                        *)
LEMMA FileSingle == Single(FileSystemFetch)
<1> DEFINE R(s) == Resource("file", s, FromFileInfo(s))
<1>1. \A s : R(s).at = s
  BY DEF Resource
<1>2. \A a \in FileSystemFetch : \E s : a = R(s)
  BY DEF FileSystemFetch
<1> HIDE DEF R
<1> QED
  BY <1>1, <1>2 DEF Single

-----------------------------------------------------------------------------
(* IDs.                                                                    *)
IdsAgree(S) ==
  \A a, b \in S : \A x, y, p, q \in Account :
    Id(x, p, a) = Id(y, q, b) <=> SameId(x, p, a, y, q, b)

Placed(S, E) == \A a \in S : <<a.type, a.at>> \in E

(* Tuples are equal part by part, and never when of different lengths.     *)
LEMMA Tuples ==
  /\ \A a, b, c, d : <<a, b>> = <<c, d>> => a = c /\ b = d
  /\ \A a, b, c, d, e, f : <<a, b, c>> = <<d, e, f>> => a = d /\ b = e /\ c = f
  /\ \A a, b, c, d, e, f, g, h : <<a, b, c, d>> = <<e, f, g, h>> => a = e /\ b = f /\ c = g /\ d = h
  /\ \A a, b, c, d, e, f, g, h, i, j :
       <<a, b, c, d, e>> = <<f, g, h, i, j>> => a = f /\ b = g /\ c = h /\ d = i /\ e = j
  /\ \A a, b, c, d, e : <<a, b>> # <<c, d, e>>
  /\ \A a, b, c, d, e, f : <<a, b>> # <<c, d, e, f>>
  /\ \A a, b, c, d, e, f, g : <<a, b, c>> # <<d, e, f, g>>
  /\ \A a, b, c, d, e, f, g, h : <<a, b, c>> # <<d, e, f, g, h>>
<1>1. \A a, b, c, d : <<a, b>> = <<c, d>> => a = c /\ b = d
  OBVIOUS
<1>2. \A a, b, c, d, e, f : <<a, b, c>> = <<d, e, f>> => a = d /\ b = e /\ c = f
  OBVIOUS
<1>3. \A a, b, c, d, e, f, g, h : <<a, b, c, d>> = <<e, f, g, h>> => a = e /\ b = f /\ c = g /\ d = h
  OBVIOUS
<1>4. \A a, b, c, d, e, f, g, h, i, j :
        <<a, b, c, d, e>> = <<f, g, h, i, j>> => a = f /\ b = g /\ c = h /\ d = i /\ e = j
  OBVIOUS
<1>5. \A a, b, c, d, e : <<a, b>> # <<c, d, e>>
  OBVIOUS
<1>6. \A a, b, c, d, e, f : <<a, b>> # <<c, d, e, f>>
  OBVIOUS
<1>7. \A a, b, c, d, e, f, g : <<a, b, c>> # <<d, e, f, g>>
  OBVIOUS
<1>8. \A a, b, c, d, e, f, g, h : <<a, b, c>> # <<d, e, f, g, h>>
  OBVIOUS
<1> QED
  BY <1>1, <1>2, <1>3, <1>4, <1>5, <1>6, <1>7, <1>8

(* What the ID of each type is made of.                                    *)
LEMMA AwsIdOf ==
  ASSUME task \in DOMAIN AwsCalls, NEW a, NEW x, NEW p
  PROVE  /\ a.type = "bucket" => Id(x, p, a) = <<"arn:aws:s3", <<x, a.at>>>>
         /\ a.type = "nacl" => Id(x, p, a) = <<"arn:aws:ec2", a.at[1], x, "network-acl", a.at[2]>>
         /\ a.type = "sg" => Id(x, p, a) = <<"arn:aws:ec2", a.at[1], x, "security-group", a.at[2]>>
         /\ a.type = "vpc" => Id(x, p, a) = <<"arn:aws:ec2", a.at[1], x, "vpc", a.at[2]>>
         /\ a.type = "ebs" => Id(x, p, a) = <<"ebs-encryption-by-default", x, a.at[1]>>
         /\ a.type = "hub" => \/ Id(x, p, a) = <<"arn", a.type, x, a.at>>
                              \/ Id(x, p, a) = <<"securityhub", a.at[1], x>>
         /\ a.type = "policy" => Id(x, p, a) = IF OwnedByAws(a) THEN <<"arn:aws:iam::aws", "policy", a.at>>
                                               ELSE <<"arn", a.type, x, a.at>>
         /\ a.type = "config" => Id(x, p, a) = <<"configservice", p>>
         /\ a.type = "monitoring" => Id(x, p, a) = <<"cloudtrail", p>>
         /\ a.type \in {"pwd-policy", "certificates", "analyzers"} => Id(x, p, a) = <<p, a.type>>
         /\ a.type \in {"db", "key", "user", "trail"} => Id(x, p, a) = <<"arn", a.type, x, a.at>>
         /\ a.type \in {"repo", "elb"} => Id(x, p, a) = <<x>>
<1>1. a.type \notin {"repo", "elb"} => Id(x, p, a) = AwsId(x, p, a)
  BY Tasks DEF Id, OfCluster
<1>2. a.type \in {"repo", "elb"} => Id(x, p, a) = <<x>>
  BY Tasks DEF Id, OfCluster, GetIdInCluster
<1>3. CASE a.type = "bucket"
  BY <1>1, <1>3 DEF AwsId, BucketArn
<1>4. CASE a.type \in {"nacl", "sg", "vpc"}
  BY <1>1, <1>4 DEF AwsId, NaclArn, SecurityGroupArn, VpcArn
<1>5. CASE a.type \in {"ebs", "hub"}
  BY <1>1, <1>5 DEF AwsId, EbsName, HubArn, Arn
<1>6. CASE a.type = "policy"
  BY <1>1, <1>6 DEF AwsId, PolicyArn, Arn
<1>7. CASE a.type \in {"config", "monitoring"}
  BY <1>1, <1>7 DEF AwsId, ConfigId, MonitoringId
<1>8. CASE a.type \in {"pwd-policy", "certificates", "analyzers"}
  BY <1>1, <1>8 DEF AwsId, IamName
<1>9. CASE a.type \in {"db", "key", "user", "trail"}
  BY <1>1, <1>9 DEF AwsId, Arn
<1>10. CASE a.type \in {"repo", "elb"}
  BY <1>2, <1>10
<1> QED
  BY <1>3, <1>4, <1>5, <1>6, <1>7, <1>8, <1>9, <1>10

(* The cases of SameId.                                                    *)
LEMMA AreSame ==
  ASSUME NEW a, NEW b, NEW x, NEW y, NEW p, NEW q
  PROVE  /\ a = b /\ a.type \in ByPointer /\ p = q => SameId(x, p, a, y, q, b)
         /\ a = b /\ OwnedByAws(a) => SameId(x, p, a, y, q, b)
         /\ a = b /\ x = y /\ a.type \notin ByPointer => SameId(x, p, a, y, q, b)
         /\ x = y /\ SharedInPlace(a, b) /\ a.type \notin ByPointer \cup {"policy"} => SameId(x, p, a, y, q, b)
  BY DEF SameId, ByPointer, OwnedByAws, SharedInPlace

(* Resources that share their ID do: it is made of what they share.        *)
LEMMA SameIds ==
  ASSUME NEW a, NEW b, NEW x, NEW y, NEW p, NEW q, SameId(x, p, a, y, q, b),
         task \in DOMAIN AwsCalls \cup DOMAIN AzureCalls \cup DOMAIN GcpCalls \cup DOMAIN NodeCalls,
         a.type \in ByPointer \cup OfCluster \cup {"policy"} => task \in DOMAIN AwsCalls,
         a.type \in OfCluster => b.type \in OfCluster,
         a.type \in {"process", "file"} => b.type = a.type /\ task \in DOMAIN NodeCalls
  PROVE  Id(x, p, a) = Id(y, q, b)
<1>1. CASE a.type \in ByPointer
  <2>1. ~OwnedByAws(a)
    BY <1>1 DEF OwnedByAws, ByPointer
  <2>2. a = b /\ p = q
    BY <1>1, <2>1 DEF SameId
  <2>3. CASE a.type \in {"config", "monitoring"}
    BY <1>1, <2>2, <2>3, AwsIdOf DEF ByPointer
  <2>4. CASE a.type \in {"pwd-policy", "certificates", "analyzers"}
    BY <1>1, <2>2, <2>4, AwsIdOf DEF ByPointer
  <2> QED
    BY <1>1, <2>3, <2>4 DEF ByPointer
<1>2. CASE OwnedByAws(a) /\ a.type \notin ByPointer
  <2>1. a = b /\ a.type = "policy"
    BY <1>2 DEF SameId, OwnedByAws
  <2> QED
    BY <1>2, <2>1, AwsIdOf
<1>3. CASE a.type \notin ByPointer /\ ~OwnedByAws(a)
  <2>1. x = y /\ SharedInPlace(a, b)
    BY <1>3 DEF SameId
  <2>2. CASE a.type \in OfCluster
    <3>1. Id(x, p, a) = GetIdInCluster(x, a) /\ Id(y, q, b) = GetIdInCluster(y, b)
      BY <2>2, Tasks DEF Id
    <3>2. GetIdInCluster(x, a) = <<x>> /\ GetIdInCluster(y, b) = <<y>>
      BY <2>2 DEF GetIdInCluster, OfCluster
    <3> QED
      BY <2>1, <3>1, <3>2
  <2>3. CASE a.type \in {"process", "file"}
    <3>1. a.type \notin OfCluster /\ b.type = a.type /\ task \in DOMAIN NodeCalls
      BY <2>3 DEF OfCluster
    <3>2. Id(x, p, a) = GetIdInCluster(x, a) /\ Id(y, q, b) = GetIdInCluster(y, b)
      BY <3>1, Tasks DEF Id
    <3>3. CASE a.type = "process"
      <4>1. ProcessId(a.at) = ProcessId(b.at)
        BY <2>1, <3>1, <3>3 DEF SharedInPlace
      <4>2. GetIdInCluster(x, a) = <<x, ProcessId(a.at)>> /\ GetIdInCluster(y, b) = <<y, ProcessId(b.at)>>
        BY <3>1, <3>3 DEF GetIdInCluster
      <4> QED
        BY <2>1, <3>2, <4>1, <4>2
    <3>4. CASE a.type = "file"
      <4>1. Path[a.at] = Path[b.at]
        BY <2>1, <3>1, <3>4 DEF SharedInPlace
      <4>2. GetIdInCluster(x, a) = <<x, Path[a.at]>> /\ GetIdInCluster(y, b) = <<y, Path[b.at]>>
        BY <3>1, <3>4 DEF GetIdInCluster
      <4> QED
        BY <2>1, <3>2, <4>1, <4>2
    <3> QED
      BY <2>3, <3>3, <3>4
  <2>4. CASE a.type \notin OfCluster \cup {"process", "file"}
    <3>1. a = b
      BY <2>1, <2>4 DEF SharedInPlace
    <3>2. AwsId(x, p, a) = AwsId(x, q, a)
      BY <1>3 DEF AwsId, ByPointer
    <3>3. CASE task \in DOMAIN AwsCalls
      BY <2>1, <2>4, <3>1, <3>2, <3>3, Tasks DEF Id
    <3>4. CASE task \in DOMAIN AzureCalls
      BY <2>1, <2>4, <3>1, <3>4, Tasks DEF Id
    <3>5. CASE task \in DOMAIN GcpCalls
      BY <2>1, <2>4, <3>1, <3>5, Tasks DEF Id
    <3>6. CASE task \in DOMAIN NodeCalls
      BY <2>1, <3>1, <3>6, Tasks DEF Id
    <3> QED
      BY <3>3, <3>4, <3>5, <3>6
  <2> QED
    BY <2>2, <2>3, <2>4
<1> QED
  BY <1>1, <1>2, <1>3

(* Pairs of a place and a name, and what there is of each.                 *)
LEMMA Subjects ==
  /\ \A s, t \in Things : s[1] = t[1] /\ s[2] = t[2] => s = t
  /\ \A s, t \in Wides : s[1] = t[1] => s = t
<1>1. \A s \in Things : s = <<s[1], s[2]>>
  BY DEF Things
<1>2. \A s \in Wides : s = Wide(s[1])
  BY Regions
<1> QED
  BY <1>1, <1>2

(* Which types a task sends.                                               *)
LEMMA AwsKinds ==
  ASSUME NEW a, <<a.type, a.at>> \in AwsExists
  PROVE  /\ task = "s3" => a.type = "bucket"
         /\ task = "network" => \/ a.type \in {"nacl", "sg", "vpc"} /\ a.at \in Things
                                \/ a.type = "ebs" /\ a.at \in Wides
         /\ task = "rds" => a.type = "db"
         /\ task = "kms" => a.type = "key"
         /\ task = "iam" => \/ a.type \in {"pwd-policy", "certificates", "analyzers"} /\ a.at = Global
                            \/ a.type \in {"user", "policy"}
         /\ task = "logging" => (a.type = "config" /\ a.at = Global) \/ a.type = "trail"
         /\ task = "monitoring" => \/ a.type = "monitoring" /\ a.at = Global
                                   \/ a.type = "hub" /\ a.at \in Wides
         /\ task = "ecr" => a.type = "repo"
         /\ task = "elb" => a.type = "elb"
<1>1. task = "s3" => a.type = "bucket"
  BY DEF AwsExists
<1>2. task = "network" => \/ a.type \in {"nacl", "sg", "vpc"} /\ a.at \in Things
                          \/ a.type = "ebs" /\ a.at \in Wides
  BY DEF AwsExists
<1>3. (task = "rds" => a.type = "db") /\ (task = "kms" => a.type = "key")
  BY DEF AwsExists
<1>4. task = "iam" => \/ a.type \in {"pwd-policy", "certificates", "analyzers"} /\ a.at = Global
                      \/ a.type \in {"user", "policy"}
  BY DEF AwsExists
<1>5. task = "logging" => (a.type = "config" /\ a.at = Global) \/ a.type = "trail"
  BY DEF AwsExists
<1>6. task = "monitoring" => \/ a.type = "monitoring" /\ a.at = Global
                             \/ a.type = "hub" /\ a.at \in Wides
  BY DEF AwsExists
<1>7. (task = "ecr" => a.type = "repo") /\ (task = "elb" => a.type = "elb")
  BY DEF AwsExists
<1> QED
  BY <1>1, <1>2, <1>3, <1>4, <1>5, <1>6, <1>7

(* Equal IDs have equal parts; what the parts leave open is the type and   *)
(* the place, which Single turns into the resource.                        *)
LEMMA AwsIds ==
  ASSUME task \in DOMAIN AwsCalls, NEW S, Placed(S, AwsExists), task \notin OfClusterTasks => Single(S)
  PROVE  IdsAgree(S)
<1>s. ASSUME NEW a \in S, NEW b \in S, NEW x \in Account, NEW y \in Account, NEW p \in Account, NEW q \in Account,
             SameId(x, p, a, y, q, b)
      PROVE  Id(x, p, a) = Id(y, q, b)
  <2>1. <<a.type, a.at>> \in AwsExists /\ <<b.type, b.at>> \in AwsExists
    BY DEF Placed
  <2>2. a.type \in OfCluster => b.type \in OfCluster
    <3>1. task \in OfClusterTasks => b.type \in OfCluster
      BY <2>1, AwsKinds DEF OfCluster, OfClusterTasks
    <3>2. task \notin OfClusterTasks => a.type \notin OfCluster
      BY <2>1, AwsKinds, Tasks DEF OfCluster, OfClusterTasks
    <3> QED
      BY <3>1, <3>2
  <2>3. a.type \notin {"process", "file"}
    BY <2>1, AwsKinds, Tasks
  <2> QED
    BY <1>s, <2>2, <2>3, SameIds
<1> SUFFICES ASSUME NEW a \in S, NEW b \in S, NEW x \in Account, NEW y \in Account, NEW p \in Account, NEW q \in Account,
                    Id(x, p, a) = Id(y, q, b)
             PROVE  SameId(x, p, a, y, q, b)
  BY <1>s DEF IdsAgree
<1>1. <<a.type, a.at>> \in AwsExists /\ <<b.type, b.at>> \in AwsExists
  BY DEF Placed
<1>2. CASE task \in {"s3", "rds", "kms"}
  <2>1. a.type = b.type /\ a.type \in {"bucket", "db", "key"} /\ b.type \in {"bucket", "db", "key"}
    BY <1>1, <1>2, AwsKinds
  <2>2. CASE a.type = "bucket"
    <3> DEFINE s == <<x, a.at>>
               t == <<y, b.at>>
    <3>1. Id(x, p, a) = <<"arn:aws:s3", s>>
      BY <2>2, AwsIdOf
    <3>2. Id(y, q, b) = <<"arn:aws:s3", t>>
      BY <2>1, <2>2, AwsIdOf
    <3>3. s = t
      <4>1. <<"arn:aws:s3", s>> = <<"arn:aws:s3", t>>
        BY <3>1, <3>2
      <4> HIDE DEF s, t
      <4> QED
        BY <4>1, Tuples
    <3>4. x = y /\ a.at = b.at
      BY <3>3, Tuples
    <3>5. a = b
      BY <1>2, <2>1, <3>4 DEF Single, OfClusterTasks
    <3> QED
      BY <2>1, <3>4, <3>5, AreSame DEF ByPointer
  <2>3. CASE a.type # "bucket"
    <3>1. <<"arn", a.type, x, a.at>> = <<"arn", b.type, y, b.at>>
      BY <2>1, <2>3, AwsIdOf
    <3>2. x = y /\ a.at = b.at
      BY <3>1, Tuples
    <3>3. a = b
      BY <1>2, <2>1, <3>2 DEF Single, OfClusterTasks
    <3> QED
      BY <2>1, <3>2, <3>3, AreSame DEF ByPointer
  <2> QED
    BY <2>2, <2>3
<1>3. CASE task = "network"
  <2> DEFINE kind(t) == CASE t = "nacl" -> "network-acl" [] t = "sg" -> "security-group" [] t = "vpc" -> "vpc"
             own == {"nacl", "sg", "vpc"}
  <2>1. /\ (a.type \in own /\ a.at \in Things) \/ (a.type = "ebs" /\ a.at \in Wides)
        /\ (b.type \in own /\ b.at \in Things) \/ (b.type = "ebs" /\ b.at \in Wides)
    BY <1>1, <1>3, AwsKinds
  <2>2. /\ a.type \in own => Id(x, p, a) = <<"arn:aws:ec2", a.at[1], x, kind(a.type), a.at[2]>>
        /\ b.type \in own => Id(y, q, b) = <<"arn:aws:ec2", b.at[1], y, kind(b.type), b.at[2]>>
        /\ a.type = "ebs" => Id(x, p, a) = <<"ebs-encryption-by-default", x, a.at[1]>>
        /\ b.type = "ebs" => Id(y, q, b) = <<"ebs-encryption-by-default", y, b.at[1]>>
    BY AwsIdOf
  <2>3. \A t, u \in own : kind(t) = kind(u) => t = u
    OBVIOUS
  <2> HIDE DEF kind
  <2>4. CASE a.type \in own /\ b.type \in own
    <3>1. x = y /\ a.at[1] = b.at[1] /\ a.at[2] = b.at[2] /\ kind(a.type) = kind(b.type)
      BY <2>2, <2>4, Tuples
    <3>2. a.at \in Things /\ b.at \in Things
      BY <2>1, <2>4
    <3>3. a = b
      BY <1>3, <2>3, <2>4, <3>1, <3>2, Subjects DEF Single, OfClusterTasks
    <3> QED
      BY <2>4, <3>1, <3>3, AreSame DEF ByPointer
  <2>5. CASE a.type = "ebs" /\ b.type = "ebs"
    <3>1. x = y /\ a.at[1] = b.at[1]
      BY <2>2, <2>5, Tuples
    <3>2. a.at = b.at
      BY <2>1, <2>5, <3>1, Subjects
    <3>3. a = b
      BY <1>3, <2>5, <3>1, <3>2 DEF Single, OfClusterTasks
    <3> QED
      BY <2>5, <3>1, <3>3, AreSame DEF ByPointer
  <2>6. CASE (a.type \in own /\ b.type = "ebs") \/ (a.type = "ebs" /\ b.type \in own)
    BY <2>2, <2>6, Tuples
  <2> QED
    BY <2>1, <2>4, <2>5, <2>6
<1>4. CASE task = "iam"
  <2> DEFINE named == {"pwd-policy", "certificates", "analyzers"}
  <2>1. /\ (a.type \in named /\ a.at = Global) \/ a.type \in {"user", "policy"}
        /\ (b.type \in named /\ b.at = Global) \/ b.type \in {"user", "policy"}
    BY <1>1, <1>4, AwsKinds
  <2>2. \A t, s \in {"user", "policy"} : t \notin named
    OBVIOUS
  <2> DEFINE aws(c) == OwnedByAws(c)
  <2>3. /\ a.type \in named => Id(x, p, a) = <<p, a.type>>
        /\ b.type \in named => Id(y, q, b) = <<q, b.type>>
        /\ a.type \in {"user", "policy"} => IF aws(a) THEN Id(x, p, a) = <<"arn:aws:iam::aws", "policy", a.at>>
                                            ELSE Id(x, p, a) = <<"arn", a.type, x, a.at>>
        /\ b.type \in {"user", "policy"} => IF aws(b) THEN Id(y, q, b) = <<"arn:aws:iam::aws", "policy", b.at>>
                                            ELSE Id(y, q, b) = <<"arn", b.type, y, b.at>>
    BY AwsIdOf DEF OwnedByAws
  <2>4. CASE a.type \in named /\ b.type \in named
    <3>1. p = q /\ a.type = b.type
      BY <2>3, <2>4, Tuples
    <3>2. a = b
      BY <1>4, <2>1, <2>2, <2>4, <3>1 DEF Single, OfClusterTasks
    <3> QED
      BY <2>4, <3>1, <3>2, AreSame DEF ByPointer
  <2>5. CASE a.type \in {"user", "policy"} /\ b.type \in {"user", "policy"}
    <3>1. CASE aws(a) /\ aws(b)
      <4>1. a.at = b.at
        BY <2>3, <2>5, <3>1, Tuples
      <4>2. a = b
        BY <1>4, <3>1, <4>1 DEF Single, OfClusterTasks, OwnedByAws
      <4> QED
        BY <3>1, <4>2, AreSame
    <3>2. CASE ~aws(a) /\ ~aws(b)
      <4>1. x = y /\ a.type = b.type /\ a.at = b.at
        BY <2>3, <2>5, <3>2, Tuples
      <4>2. a = b
        BY <1>4, <4>1 DEF Single, OfClusterTasks
      <4> QED
        BY <2>5, <4>1, <4>2, AreSame DEF ByPointer
    <3>3. CASE aws(a) /\ ~aws(b)
      BY <2>3, <2>5, <3>3, Tuples
    <3>4. CASE ~aws(a) /\ aws(b)
      BY <2>3, <2>5, <3>4, Tuples
    <3> QED
      BY <3>1, <3>2, <3>3, <3>4
  <2>6. CASE (a.type \in named /\ b.type \in {"user", "policy"}) \/ (a.type \in {"user", "policy"} /\ b.type \in named)
    BY <2>3, <2>6, Tuples
  <2> QED
    BY <2>1, <2>4, <2>5, <2>6
<1>5. CASE task = "logging"
  <2>1. /\ (a.type = "config" /\ a.at = Global) \/ a.type = "trail"
        /\ (b.type = "config" /\ b.at = Global) \/ b.type = "trail"
    BY <1>1, <1>5, AwsKinds
  <2>2. /\ a.type = "config" => Id(x, p, a) = <<"configservice", p>>
        /\ b.type = "config" => Id(y, q, b) = <<"configservice", q>>
        /\ a.type = "trail" => Id(x, p, a) = <<"arn", a.type, x, a.at>>
        /\ b.type = "trail" => Id(y, q, b) = <<"arn", b.type, y, b.at>>
    BY AwsIdOf
  <2>3. CASE a.type = "config" /\ b.type = "config"
    <3>1. p = q
      BY <2>2, <2>3, Tuples
    <3>2. a = b
      BY <1>5, <2>1, <2>3 DEF Single, OfClusterTasks
    <3> QED
      BY <2>3, <3>1, <3>2, AreSame DEF ByPointer
  <2>4. CASE a.type = "trail" /\ b.type = "trail"
    <3>1. x = y /\ a.at = b.at
      BY <2>2, <2>4, Tuples
    <3>2. a = b
      BY <1>5, <2>4, <3>1 DEF Single, OfClusterTasks
    <3> QED
      BY <2>4, <3>1, <3>2, AreSame DEF ByPointer
  <2>5. CASE (a.type = "config" /\ b.type = "trail") \/ (a.type = "trail" /\ b.type = "config")
    BY <2>2, <2>5, Tuples
  <2> QED
    BY <2>1, <2>3, <2>4, <2>5
<1>6. CASE task = "monitoring"
  <2>1. /\ (a.type = "monitoring" /\ a.at = Global) \/ (a.type = "hub" /\ a.at \in Wides)
        /\ (b.type = "monitoring" /\ b.at = Global) \/ (b.type = "hub" /\ b.at \in Wides)
    BY <1>1, <1>6, AwsKinds
  <2>2. /\ a.type = "monitoring" => Id(x, p, a) = <<"cloudtrail", p>>
        /\ b.type = "monitoring" => Id(y, q, b) = <<"cloudtrail", q>>
        /\ a.type = "hub" => \/ Id(x, p, a) = <<"arn", a.type, x, a.at>>
                             \/ Id(x, p, a) = <<"securityhub", a.at[1], x>>
        /\ b.type = "hub" => \/ Id(y, q, b) = <<"arn", b.type, y, b.at>>
                             \/ Id(y, q, b) = <<"securityhub", b.at[1], y>>
    BY AwsIdOf
  <2>3. CASE a.type = "monitoring" /\ b.type = "monitoring"
    <3>1. p = q
      BY <2>2, <2>3, Tuples
    <3>2. a = b
      BY <1>6, <2>1, <2>3 DEF Single, OfClusterTasks
    <3> QED
      BY <2>3, <3>1, <3>2, AreSame DEF ByPointer
  <2>4. CASE a.type = "hub" /\ b.type = "hub"
    <3>1. x = y /\ (a.at = b.at \/ a.at[1] = b.at[1])
      BY <2>2, <2>4, Tuples
    <3>2. a.at = b.at
      BY <2>1, <2>4, <3>1, Subjects
    <3>3. a = b
      BY <1>6, <2>4, <3>1, <3>2 DEF Single, OfClusterTasks
    <3> QED
      BY <2>4, <3>1, <3>3, AreSame DEF ByPointer
  <2>5. CASE (a.type = "monitoring" /\ b.type = "hub") \/ (a.type = "hub" /\ b.type = "monitoring")
    BY <2>2, <2>5, Tuples
  <2> QED
    BY <2>1, <2>3, <2>4, <2>5
<1>7. CASE task \in {"ecr", "elb"}
  <2>1. a.type \in {"repo", "elb"} /\ b.type \in {"repo", "elb"}
    BY <1>1, <1>7, AwsKinds
  <2>2. <<x>> = <<y>>
    BY <2>1, AwsIdOf
  <2>3. x = y
    BY <2>2
  <2> QED
    BY <2>1, <2>3, AreSame DEF SharedInPlace, OfCluster, ByPointer
<1> QED
  BY <1>2, <1>3, <1>4, <1>5, <1>6, <1>7, Tasks

(* Where nothing is shared, IDs agree as soon as equal ones are of one     *)
(* resource of one account.                                                *)
Plain(a) == a.type \notin ByPointer \cup OfCluster \cup {"policy", "process", "file"}

LEMMA PlainIds ==
  ASSUME task \in DOMAIN AzureCalls \cup DOMAIN GcpCalls, NEW S, \A a \in S : Plain(a),
         \A a, b \in S : \A x, y, p, q \in Account : Id(x, p, a) = Id(y, q, b) => x = y /\ a = b
  PROVE  IdsAgree(S)
<1> SUFFICES ASSUME NEW a \in S, NEW b \in S, NEW x \in Account, NEW y \in Account, NEW p \in Account, NEW q \in Account
             PROVE  Id(x, p, a) = Id(y, q, b) <=> SameId(x, p, a, y, q, b)
  BY DEF IdsAgree
<1>1. Id(x, p, a) = Id(y, q, b) => SameId(x, p, a, y, q, b)
  BY AreSame DEF Plain
<1>2. SameId(x, p, a, y, q, b) => Id(x, p, a) = Id(y, q, b)
  BY SameIds DEF Plain
<1> QED
  BY <1>1, <1>2 DEF SameId

(* Azure: the asset's own ID, or subtype and subscription.                 *)
LEMMA AzureIds ==
  ASSUME task \in DOMAIN AzureCalls, NEW S, Placed(S, AzureExists), Single(S)
  PROVE  IdsAgree(S)
<1>p. \A a \in S : Plain(a)
  <2> SUFFICES ASSUME NEW a \in S PROVE Plain(a)
    OBVIOUS
  <2>1. <<a.type, a.at>> \in AzureExists
    BY DEF Placed
  <2>2. a.type \in AssetTypes \cup BatchTypes \cup {"diagnostic-settings"}
    BY <2>1, Tasks DEF AzureExists
  <2> QED
    BY <2>2 DEF BatchTypes, AssetTypes, Plain, ByPointer, OfCluster
<1> SUFFICES ASSUME NEW a \in S, NEW b \in S, NEW x \in Account, NEW y \in Account, NEW p \in Account, NEW q \in Account,
                    Id(x, p, a) = Id(y, q, b)
             PROVE  x = y /\ a = b
  BY <1>p, PlainIds
<1>1. <<a.type, a.at>> \in AzureExists /\ <<b.type, b.at>> \in AzureExists
  BY DEF Placed
<1>2. /\ (a.type \in AssetTypes /\ a.at \in Things) \/ (a.type \in BatchTypes \cup {"diagnostic-settings"} /\ a.at \in Wides)
      /\ (b.type \in AssetTypes /\ b.at \in Things) \/ (b.type \in BatchTypes \cup {"diagnostic-settings"} /\ b.at \in Wides)
  BY <1>1, Tasks DEF AzureExists
<1>3. \A t \in BatchTypes \cup {"diagnostic-settings"} : t \notin AssetTypes
  BY DEF BatchTypes, AssetTypes
<1>4. \A c : c.type \in AssetTypes \cup BatchTypes \cup {"diagnostic-settings"} => c.type \notin OfCluster
  BY DEF BatchTypes, AssetTypes, OfCluster
<1>5. \A c, z, w : c.type \notin OfCluster => Id(z, w, c) = AzureId(z, c)
  BY Tasks DEF Id
<1>6. Id(x, p, a) = AzureId(x, a) /\ Id(y, q, b) = AzureId(y, b)
  BY <1>2, <1>4, <1>5
<1>7. AzureId(x, a) = AzureId(y, b)
  BY <1>6
<1>8. CASE a.type \in AssetTypes /\ b.type \in AssetTypes
  <2>1. <<"/subscriptions", x, a.at, a.type>> = <<"/subscriptions", y, b.at, b.type>>
    BY <1>7, <1>8 DEF AzureId
  <2> QED
    BY <2>1, Tuples DEF Single
<1>9. CASE a.type \notin AssetTypes /\ b.type \notin AssetTypes
  <2>1. <<a.type, x, a.at[1]>> = <<b.type, y, b.at[1]>>
    BY <1>7, <1>9 DEF AzureId
  <2>2. a.type = b.type /\ x = y /\ a.at[1] = b.at[1]
    BY <2>1, Tuples
  <2>3. a.at = b.at
    BY <1>2, <1>9, <2>2, Subjects
  <2> QED
    BY <2>2, <2>3 DEF Single
<1>10. CASE \/ a.type \in AssetTypes /\ b.type \notin AssetTypes
            \/ a.type \notin AssetTypes /\ b.type \in AssetTypes
  BY <1>7, <1>10, Tuples DEF AzureId
<1> QED
  BY <1>8, <1>9, <1>10

(* GCP: the asset's name, or subtype and project.                          *)
LEMMA GcpIds ==
  ASSUME task \in DOMAIN GcpCalls, NEW S, Placed(S, GcpExists), Single(S)
  PROVE  IdsAgree(S)
<1>p. \A a \in S : Plain(a)
  <2> SUFFICES ASSUME NEW a \in S PROVE Plain(a)
    OBVIOUS
  <2>1. <<a.type, a.at>> \in GcpExists
    BY DEF Placed
  <2>2. a.type \in {"asset", task}
    BY <2>1, Tasks DEF GcpExists
  <2> QED
    BY <2>2, Tasks DEF Plain, ByPointer, OfCluster
<1> SUFFICES ASSUME NEW a \in S, NEW b \in S, NEW x \in Account, NEW y \in Account, NEW p \in Account, NEW q \in Account,
                    Id(x, p, a) = Id(y, q, b)
             PROVE  x = y /\ a = b
  BY <1>p, PlainIds
<1>1. <<a.type, a.at>> \in GcpExists /\ <<b.type, b.at>> \in GcpExists
  BY DEF Placed
<1>2. /\ task = "gcp_assets" => a.type = "asset" /\ b.type = "asset"
      /\ task # "gcp_assets" => a.type = task /\ b.type = task /\ a.at \in Wides /\ b.at \in Wides
  <2>1. \A s \in Things : Wide(s[1]) \in Wides
    BY Regions DEF Wides
  <2> QED
    BY <1>1, <2>1, Tasks DEF GcpExists
<1>3. \A c, z, w : c.type \notin OfCluster => Id(z, w, c) = GcpId(z, c)
  BY Tasks DEF Id
<1>4. a.type \notin OfCluster /\ b.type \notin OfCluster /\ task # "asset"
  BY <1>2, Tasks DEF OfCluster
<1>5. GcpId(x, a) = GcpId(y, b)
  BY <1>3, <1>4
<1>6. CASE task = "gcp_assets"
  <2>1. <<"//", x, a.at>> = <<"//", y, b.at>>
    BY <1>2, <1>5, <1>6 DEF GcpId
  <2> QED
    BY <1>2, <1>6, <2>1, Tuples DEF Single
<1>7. CASE task # "gcp_assets"
  <2>1. <<a.type, x, a.at[1]>> = <<b.type, y, b.at[1]>>
    BY <1>2, <1>4, <1>5, <1>7 DEF GcpId, ProjectAssetId
  <2>2. x = y /\ a.at[1] = b.at[1]
    BY <2>1, Tuples
  <2>3. a.at = b.at
    BY <1>2, <1>7, <2>2, Subjects
  <2> QED
    BY <1>2, <1>7, <2>2, <2>3 DEF Single
<1> QED
  BY <1>6, <1>7

(* Node: an ID made of the cluster's and what names the process or file.   *)
LEMMA NodeIds ==
  ASSUME task \in DOMAIN NodeCalls, NEW S, Placed(S, NodeExists), task = "file" => Single(S)
  PROVE  IdsAgree(S)
<1>s. \A a \in S : a.type = task /\ (task = "file" => a.at \in Things)
  BY Tasks DEF Placed, NodeExists
<1>t. ASSUME NEW a \in S, NEW b \in S, NEW x \in Account, NEW y \in Account, NEW p \in Account, NEW q \in Account,
             SameId(x, p, a, y, q, b)
      PROVE  Id(x, p, a) = Id(y, q, b)
  BY <1>s, <1>t, SameIds, Tasks DEF ByPointer, OfCluster
<1> SUFFICES ASSUME NEW a \in S, NEW b \in S, NEW x \in Account, NEW y \in Account, NEW p \in Account, NEW q \in Account,
                    Id(x, p, a) = Id(y, q, b)
             PROVE  SameId(x, p, a, y, q, b)
  BY <1>t DEF IdsAgree
<1>1. <<a.type, a.at>> \in NodeExists /\ <<b.type, b.at>> \in NodeExists
  BY DEF Placed
<1>2. a.type = task /\ b.type = task
  BY <1>1, Tasks DEF NodeExists
<1>3. GetIdInCluster(x, a) = GetIdInCluster(y, b)
  BY Tasks DEF Id
<1>4. CASE task = "process"
  <2>1. <<x, ProcessId(a.at)>> = <<y, ProcessId(b.at)>>
    BY <1>2, <1>3, <1>4 DEF GetIdInCluster
  <2>2. x = y /\ ProcessId(a.at) = ProcessId(b.at)
    BY <2>1, Tuples
  <2> QED
    BY <1>2, <1>4, <2>2, AreSame DEF SharedInPlace, ByPointer
<1>5. CASE task = "file"
  <2>1. <<x, Path[a.at]>> = <<y, Path[b.at]>>
    BY <1>2, <1>3, <1>5 DEF GetIdInCluster
  <2>2. x = y /\ Path[a.at] = Path[b.at]
    BY <2>1, Tuples
  <2>3. a.at[1] = b.at[1] => a = b
    BY <1>s, <1>2, <1>5, <2>2, PathAssumption DEF Single
  <2> QED
    BY <1>2, <1>5, <2>2, <2>3, AreSame DEF SharedInPlace, ByPointer
<1> QED
  BY <1>4, <1>5, Tasks

(* Whatever is fetched has IDs that agree.                                 *)
LEMMA FetchIds ==
  ASSUME AskedInv, Fetch, task \notin DOMAIN BenchmarkCalls \cup {"scan"}
  PROVE  IdsAgree(sent')
<1>1. Found(sent') \subseteq Shown
  BY FetchFound DEF IsLocal
<1>2. \A a \in sent' : <<a.type, a.at>> \in Shown
  BY <1>1 DEF Found
<1>3. CASE task \in DOMAIN AwsCalls
  <2>1. Shown \subseteq AwsExists /\ sent' = AwsSends
    BY <1>3, Tasks DEF Shown, Fetch
  <2>2. Placed(sent', AwsExists)
    BY <1>2, <2>1 DEF Placed
  <2>3. task \notin OfClusterTasks => Single(sent')
    BY <1>3, <2>1, AwsSingle
  <2> QED
    BY <1>3, <2>2, <2>3, AwsIds
<1>4. CASE task \in DOMAIN AzureCalls
  <2>1. Shown \subseteq AzureExists /\ sent' = AzureSends
    BY <1>4, Tasks DEF Shown, Fetch
  <2>2. Placed(sent', AzureExists)
    BY <1>2, <2>1 DEF Placed
  <2> QED
    BY <1>4, <2>1, <2>2, AzureSingle, AzureIds
<1>5. CASE task \in DOMAIN GcpCalls
  <2>1. Shown \subseteq GcpExists /\ sent' \in GcpSends
    BY <1>5, Tasks DEF Shown, Fetch
  <2>2. Placed(sent', GcpExists)
    BY <1>2, <2>1 DEF Placed
  <2> QED
    BY <1>5, <2>1, <2>2, GcpSingle, GcpIds
<1>6. CASE task \in DOMAIN NodeCalls
  <2>1. Shown \subseteq NodeExists /\ sent' \in NodeSends
    BY <1>6, Tasks DEF Shown, Fetch
  <2>2. Placed(sent', NodeExists)
    BY <1>2, <2>1 DEF Placed
  <2>3. task = "file" => Single(sent')
    BY <2>1, FileSingle DEF NodeSends
  <2> QED
    BY <1>6, <2>2, <2>3, NodeIds
<1> QED
  BY <1>3, <1>4, <1>5, <1>6, Tasks DEF AskedInv, Fetchers

(* UniqueIds, by its parts.                                                *)
LEMMA IdsDef == UniqueIds <=> (task \notin DOMAIN BenchmarkCalls \cup {"scan"} => IdsAgree(sent))
  BY DEF UniqueIds, IdsAgree

(* IDs depend on the world alone.                                          *)
LEMMA WorldIds ==
  ASSUME UNCHANGED world, task \notin DOMAIN BenchmarkCalls \cup {"scan"} => IdsAgree(sent')
  PROVE  UniqueIds'
<1>1. task' = task
  BY WorldCalls
<1>2. \A x, p, a : Id(x, p, a)' = Id(x, p, a)
  BY <1>1 DEF Id
<1> QED
  BY <1>1, <1>2 DEF UniqueIds, IdsAgree

(* Two resources, of one account or of two, share their ID exactly when    *)
(* SameId says so.                                                         *)
THEOREM CloudUniqueIds == Spec => []UniqueIds
<1>1. Init => AskedInv /\ UniqueIds
  BY AskedInit DEF Init, UniqueIds
<1>2. ASSUME AskedInv, UniqueIds, [Next]_vars PROVE UniqueIds'
  <2>1. UNCHANGED world
    BY <1>2 DEF Next, ReadReport, Fetch, vars, world
  <2>2. CASE Fetch
    BY <1>2, <2>1, <2>2, FetchIds, WorldIds
  <2>3. CASE UNCHANGED sent
    BY <1>2, <2>1, <2>3, IdsDef, WorldIds
  <2> QED
    BY <1>2, <2>2, <2>3 DEF Next, ReadReport, vars
<1> QED
  BY <1>1, <1>2, AskedStep, PTL DEF Spec
=============================================================================
