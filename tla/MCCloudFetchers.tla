--------------------------- MODULE MCCloudFetchers ---------------------------
(* Two places, of which one has AWS's default region; two names, of which  *)
(* one is that of a policy of AWS.  Two of the four processes have the     *)
(* same digits in PID and start time together, and two of the four files   *)
(* are one.                                                                *)
EXTENDS CloudFetchers
MCPlace == {"us-east-1", "eu-west-1"}
MCName == {"a", "b"}
MCSource == {"nvd", "ghsa", "redhat"}
MCAwsManaged == {"b"}
MCAccount == {"1", "2"}
MCPid == [s \in Things |-> IF s[1] = "eu-west-1" THEN <<2>> ELSE IF s[2] = "a" THEN <<1>> ELSE <<1, 2>>]
MCPath == [s \in Things |-> IF s[2] = "a" THEN "pki/ca.crt" ELSE s[1]]
MCStartTime == [s \in Things |-> IF s[2] = "a" THEN <<2, 3>> ELSE <<3>>]
=============================================================================
