----------------------------- MODULE ScanReport -----------------------------
(* What the event of a vulnerability says (vulnerability/events_creator.go)*)
(* of its severity: sources rate it, with vectors and scores of CVSS 2 and *)
(* 3, and the event shows one score and one version.                       *)
EXTENDS CloudCalls

CONSTANTS Source, NVD

ASSUME SourceAssumption == NVD \in Source /\ Whole \notin Source

VARIABLES vul,    \* DetectedVulnerability
          shown   \* Vulnerability of the event

scanVars == <<vul, shown>>

Rating == {"V3Vector", "V3Score", "V2Vector", "V2Score"}

(* Which fields each source has; a score of zero is none.                  *)
Vulnerabilities ==
  UNION {[CVSS : [S -> SUBSET Rating], DataSource : Source \cup {Whole}] : S \in SUBSET Source}

NoValue == <<>>
NothingShown == [base |-> NoValue, version |-> "", reference |-> ""]
NoScan == vul = [CVSS |-> <<>>, DataSource |-> Whole] /\ shown = NothingShown

-----------------------------------------------------------------------------
Sources == DOMAIN vul.CVSS

(* Of the data source if it rates, else of NVD if that does, else of any:  *)
(* whichever source a range over the map happens to visit first.           *)
GetCVSSValue(field) ==
  LET Value(s) == IF field \in vul.CVSS[s] THEN <<s, field>> ELSE NoValue
  IN CASE Sources = {} -> {NoValue}
       [] vul.DataSource \in Sources -> {Value(vul.DataSource)}
       [] vul.DataSource \notin Sources /\ NVD \in Sources -> {Value(NVD)}
       [] OTHER -> {Value(s) : s \in Sources}

(* The mutant prefers the older vector. *)
GetCVSSVectorOldFirst ==
  (GetCVSSValue("V2Vector") \ {NoValue})
  \cup IF NoValue \in GetCVSSValue("V2Vector") THEN GetCVSSValue("V3Vector") ELSE {}

(* The fall back to the second version picks a source of its own.          *)
GetCVSSVector ==
  (GetCVSSValue("V3Vector") \ {NoValue})
  \cup IF NoValue \in GetCVSSValue("V3Vector") THEN GetCVSSValue("V2Vector") ELSE {}

GetCVSSScore ==
  (GetCVSSValue("V3Score") \ {NoValue})
  \cup IF NoValue \in GetCVSSValue("V3Score") THEN GetCVSSValue("V2Score") ELSE {}

(* Only a vector of the third version names its version.                   *)
GetCVSSVersion ==
  {IF v = NoValue THEN "" ELSE IF v[2] = "V3Vector" THEN "3" ELSE "2.0" : v \in GetCVSSVector}

GetReference == IF NVD \in Sources THEN NVD ELSE "PrimaryURL"

(* The event is sent with whatever its enrichers could add.                *)
GenerateEvent ==
  /\ \E base \in GetCVSSScore, version \in GetCVSSVersion :
       shown' = [base |-> base, version |-> version, reference |-> GetReference]
  /\ UNCHANGED vul

ScanOps == {"EnrichCloud", "EnrichCommon"}
ScanSends == {Resource("vulnerability", Global, {<<op, Global, Says(op, Global)>> : op \in ScanOps})}

-----------------------------------------------------------------------------
ScanCalls == [scan |-> Call(ScanOps, {Global})]
=============================================================================
