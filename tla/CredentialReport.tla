-------------------------- MODULE CredentialReport --------------------------
(* How iam/user.go reads IAM's credential report: AWS makes it on demand,  *)
(* and it is asked for again until it is there.                            *)
EXTENDS Naturals

CONSTANT MaxRetries   \* maxRetries of iam/user.go

ASSUME RetryAssumption == MaxRetries \in Nat

VARIABLES report,  \* where getCredentialReport is
          gets, retries,
          last     \* the last answer to GetCredentialReport

reportVars == <<report, gets, retries, last>>

NoReport == report = "none" /\ gets = 0 /\ retries = 0 /\ last = "none"
AskForReport == report = "first" /\ gets = 0 /\ retries = 0 /\ last = "none"

(* Answers to GetCredentialReport: the report, or one that does not parse; *)
(* "down" for ServiceFailure; "absent" for ReportNotPresent and            *)
(* ReportExpired; "busy" for ReportInProgress and NoSuchEntity; any other  *)
(* error.                                                                  *)
Answer == {"ok", "garbled", "down", "absent", "busy", "other"}
Answered == {"ok", "garbled"}

Get(from, Next(_)) ==
  /\ report = from
  /\ \E a \in Answer : last' = a /\ report' = Next(a)
  /\ gets' = gets + 1

FirstGet ==
  /\ Get("first", LAMBDA a : CASE a = "ok" -> "ready" [] a \in {"garbled", "down"} -> "failed"
                               [] a = "absent" -> "generate" [] OTHER -> "second")
  /\ UNCHANGED retries

GenerateReport ==
  /\ report = "generate"
  /\ report' \in {"second", "failed"}
  /\ UNCHANGED <<gets, retries, last>>

SecondGet ==
  /\ Get("second", LAMBDA a : CASE a = "ok" -> "ready" [] a = "busy" -> "retry" [] OTHER -> "failed")
  /\ UNCHANGED retries

Again(a) == CASE a = "ok" -> "ready" [] a = "garbled" -> "failed" [] OTHER -> "retry"

(* Mutant: the loop does not count. *)
RetryGetUnbounded ==
  /\ Get("retry", Again)
  /\ retries' = IF retries <= MaxRetries THEN retries + 1 ELSE retries

(* Whatever the error, the loop goes on: its condition looks at the second *)
(* answer only.                                                            *)
RetryGet ==
  /\ retries < MaxRetries
  /\ Get("retry", Again)
  /\ retries' = IF last' \in Answered THEN retries ELSE retries + 1

GiveUp ==
  /\ report = "retry" /\ retries >= MaxRetries
  /\ report' = "failed"
  /\ UNCHANGED <<gets, retries, last>>

GetCredentialReport == FirstGet \/ GenerateReport \/ SecondGet \/ RetryGet \/ GiveUp
ReportRead == report \in {"none", "ready", "failed"}
=============================================================================
