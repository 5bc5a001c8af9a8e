---------------------------- MODULE NodeFetchers ----------------------------
(* The fetchers that read a node of a Kubernetes cluster: its processes    *)
(* and its files (fetching/fetchers/k8s).  A place is the name of a        *)
(* program, or a pattern of the fetcher; a name is one of its processes,   *)
(* or a file that matches it.  The calls are reads of the disk.            *)
EXTENDS CloudCalls, Naturals, Sequences

CONSTANTS Pid, StartTime,  \* of each process, as strings of digits
          Path             \* of each file; patterns may overlap

ASSUME DigitsAssumption == Pid \in [Things -> Seq(0..9)] /\ StartTime \in [Things -> Seq(0..9)]

(* A pattern lists a file once.                                            *)
ASSUME PathAssumption == \A s, t \in Things : s[1] = t[1] /\ Path[s] = Path[t] => s = t

(* No file, an unreadable one and one that does not parse look the same.   *)
GetProcessConfigurationFile(s) == {<<"ConfigFile", s, Blur(Says("ConfigFile", s))>>}

FetchProcessData(s) == Resource("process", s, GetProcessConfigurationFile(s))

(* The processes are read in the order of the directory.  One that ended   *)
(* after it was listed, required or not, ends the fetch: those before it   *)
(* are sent.                                                               *)
Ended == {s \in Things : Fails("ReadStat", s)}
Required(s) == Truth("Required", Wide(s[1])) = "set"
ReadOf(S) == {FetchProcessData(s) : s \in {s \in S : Required(s) /\ ~Fails("ReadCmdLine", s)}}

ProcessesFetch ==
  IF Fails("ListFS", Global) THEN {{}}
  ELSE IF Ended = {} THEN {ReadOf(Things)}
  ELSE {ReadOf(before) : before \in SUBSET (Things \ Ended)}

(* A pattern with "**" walks its directories: one that cannot be read      *)
(* leaves the pattern without matches.                                     *)
Glob(p) == IF Truth("DoubleStar", Wide(p)) = "set" /\ Fails("Walk", Wide(p)) THEN {} ELSE Within(p)

(* An owner that is not found is an owner without a name.                  *)
GetUserNameFromID(s) == Blur(Says("Owner", s))
GetGroupNameFromID(s) == Blur(Says("Group", s))
FromFileInfo(s) == {<<"Owner", s, GetUserNameFromID(s)>>, <<"Group", s, GetGroupNameFromID(s)>>}

FileSystemFetch ==
  {Resource("file", s, FromFileInfo(s)) : s \in {s \in UNION {Glob(p) : p \in Place} : ~Fails("Stat", s)}}

NodeSends == CASE task = "process" -> ProcessesFetch [] task = "file" -> {FileSystemFetch}

-----------------------------------------------------------------------------
(* idProvider.getIdInCluster, on node x: what the fetcher calls the        *)
(* resource, after cluster and node.  In a cluster, what is of the cloud   *)
(* goes by the cluster's ID, all of it.                                    *)
ProcessId(s) == Pid[s] \o StartTime[s]
GetIdInCluster(x, a) ==
  CASE a.type = "process" -> <<x, ProcessId(a.at)>>
    [] a.type = "file" -> <<x, Path[a.at]>>
    [] a.type \in {"repo", "elb"} -> <<x>>

-----------------------------------------------------------------------------
NodeCalls ==
  [process |-> Call({"ListFS"}, {Global}) \cup Call({"Required"}, Wides)
      \cup Call({"ReadStat", "ReadCmdLine", "ConfigFile"}, Things),
   file |-> Call({"DoubleStar", "Walk"}, Wides) \cup Call({"Stat", "Owner", "Group"}, Things)]

NodeExists ==
  CASE task = "process" -> {"process"} \X {s \in Things : Required(s)}
    [] task = "file" -> {"file"} \X Things

NodeHidden(type, s) ==
  CASE type = "process" -> {<<"ListFS", Global>>, <<"ReadStat", s>>, <<"ReadCmdLine", s>>} \cap fails # {}
    [] type = "file" -> \/ Fails("Stat", s)
                        \/ Fails("Walk", Wide(s[1])) /\ Truth("DoubleStar", Wide(s[1])) = "set"
=============================================================================
