----------------------------- MODULE KubeFetcher -----------------------------
(* resources/fetching/fetchers/k8s/kube_fetcher: the first Fetch starts a  *)
(* watcher for each kind of resource, under a sync.Once that is replaced   *)
(* after an error; each Fetch reports what the watchers of the list hold.  *)
(* Fetches overlap, as the manager abandons one that is late and starts    *)
(* the next.  The watcher of kind k started under Once n is <<n, k>>.      *)
EXTENDS Naturals

CONSTANTS Kinds,   \* how many vanillaClusterResources there are
          MaxCalls \* bound on the calls of Fetch

ASSUME KubeAssumption == Kinds \in Nat /\ MaxCalls \in Nat

VARIABLES
  pc,       \* where each call is
  lock,     \* f.watcherLock
  once,     \* every Once: "new", "running" or "done"
  mine,     \* the Once a call called Do of
  watchers, \* f.watchers
  live,     \* the watchers that run
  failed,   \* ghost: the Onces under which initWatchers failed
  overlaps, \* ghost: call -> the calls that were in progress during it
  reported, \* the kinds a call has reported
  crashed

vars == <<pc, lock, once, mine, watchers, live, failed, overlaps, reported, crashed>>

Call == 1..MaxCalls
Onces == 0..MaxCalls
Kind == 1..Kinds
Watcher == Onces \X Kind
Over == {"none", "failed", "done"}

Init ==
  /\ pc = [c \in Call |-> "none"]
  /\ lock = 0 /\ once = [n \in Onces |-> "new"] /\ mine = [c \in Call |-> 0]
  /\ watchers = {} /\ live = {} /\ failed = {}
  /\ overlaps = [c \in Call |-> {}] /\ reported = [c \in Call |-> {}]
  /\ crashed = FALSE

At(f, x, v) == [f EXCEPT ![x] = v]
Goto(c, from, to) == pc[c] = from /\ pc' = At(pc, c, to)

-----------------------------------------------------------------------------
Fetch(c) ==
  /\ \A d \in 1..(c - 1) : pc[d] # "none"
  /\ Goto(c, "none", "do")
  /\ mine' = At(mine, c, lock)
  /\ overlaps' = [d \in Call |-> IF d = c THEN {e \in Call : pc[e] \notin Over}
                                 ELSE IF pc[d] \notin Over THEN overlaps[d] \cup {c} ELSE overlaps[d]]
  /\ UNCHANGED <<lock, once, watchers, live, failed, reported, crashed>>

(* initWatchers starts with an empty list.                                 *)
Do(c) ==
  /\ once[mine[c]] = "new"
  /\ Goto(c, "do", "init")
  /\ once' = At(once, mine[c], "running")
  /\ watchers' = {}
  /\ UNCHANGED <<lock, mine, live, failed, overlaps, reported, crashed>>

(* Do returns, after waiting, to whoever did not run initWatchers: its err *)
(* is nil, be the watchers there or not.                                   *)
DoReturns(c) ==
  /\ once[mine[c]] = "done"
  /\ Goto(c, "do", "collect")
  /\ UNCHANGED <<lock, once, mine, watchers, live, failed, overlaps, reported, crashed>>

(* Watchers are started in the order of vanillaClusterResources.           *)
Started(c) == {k \in Kind : <<mine[c], k>> \in watchers}

InitWatcher(c) ==
  /\ Goto(c, "init", "init")
  /\ \E k \in Kind \ Started(c) :
       /\ \A j \in 1..(k - 1) : j \in Started(c)
       /\ watchers' = watchers \cup {<<mine[c], k>>}
       /\ live' = live \cup {<<mine[c], k>>}
  /\ UNCHANGED <<lock, once, mine, failed, overlaps, reported, crashed>>

(* NewWatcher or Start fails: those started before stay as they are.       *)
InitFails(c) ==
  /\ Goto(c, "init", "reset") /\ Started(c) # Kind
  /\ once' = At(once, mine[c], "done")
  /\ failed' = failed \cup {mine[c]}
  /\ UNCHANGED <<lock, mine, watchers, live, overlaps, reported, crashed>>

(* Mutant: the Once is replaced though there was no error. *)
InitEndsReset(c) ==
  /\ Goto(c, "init", "collect") /\ Started(c) = Kind
  /\ once' = At(once, mine[c], "done") /\ lock' = mine[c] + 1
  /\ UNCHANGED <<mine, watchers, live, failed, overlaps, reported, crashed>>

InitEnds(c) ==
  /\ Goto(c, "init", "collect") /\ Started(c) = Kind
  /\ once' = At(once, mine[c], "done")
  /\ UNCHANGED <<lock, mine, watchers, live, failed, overlaps, reported, crashed>>

(* Mutant: the Once is not replaced. *)
ResetForgotten(c) ==
  /\ Goto(c, "reset", "failed")
  /\ UNCHANGED <<lock, once, mine, watchers, live, failed, overlaps, reported, crashed>>

Reset(c) ==
  /\ Goto(c, "reset", "failed")
  /\ lock' = lock + 1
  /\ UNCHANGED <<once, mine, watchers, live, failed, overlaps, reported, crashed>>

(* getKubeData, with the list as it is now.                                *)
GetKubeData(c) ==
  /\ Goto(c, "collect", "done")
  /\ reported' = At(reported, c, {w[2] : w \in watchers})
  /\ UNCHANGED <<lock, once, mine, watchers, live, failed, overlaps, crashed>>

(* The list is read while another call writes it: a slice of new length    *)
(* and old array ends the program.                                         *)
TornList(c, d) ==
  /\ pc[c] = "collect" /\ pc[d] = "init"
  /\ crashed' = TRUE
  /\ UNCHANGED <<pc, lock, once, mine, watchers, live, failed, overlaps, reported>>

Stop ==
  /\ live' = live \ watchers
  /\ UNCHANGED <<pc, lock, once, mine, watchers, failed, overlaps, reported, crashed>>

-----------------------------------------------------------------------------
Step(c) ==
  \/ Fetch(c) \/ Do(c) \/ DoReturns(c) \/ InitWatcher(c) \/ InitFails(c) \/ InitEnds(c)
  \/ Reset(c) \/ GetKubeData(c) \/ \E d \in Call : TornList(c, d)

Next == ~crashed /\ (Stop \/ \E c \in Call : Step(c))

Spec == Init /\ [][Next]_vars

-----------------------------------------------------------------------------
TypeOK ==
  /\ pc \in [Call -> Over \cup {"do", "init", "reset", "collect"}]
  /\ lock \in Onces /\ once \in [Onces -> {"new", "running", "done"}]
  /\ mine \in [Call -> Onces]
  /\ watchers \subseteq Watcher /\ live \subseteq Watcher /\ failed \subseteq Onces
  /\ overlaps \in [Call -> SUBSET Call] /\ reported \in [Call -> SUBSET Kind]
  /\ crashed \in BOOLEAN

(* A Fetch that returns without error has reported every kind, unless it   *)
(* overlapped one whose watchers failed.                                   *)
CompleteOrOverlapped ==
  \A c \in Call :
    pc[c] = "done" /\ reported[c] # Kind =>
      \E d \in overlaps[c] : pc[d] \in {"reset", "failed"}

(* However Fetches overlap, fail and are retried, a kind is not watched    *)
(* twice, but for the leftovers of initWatchers that failed, which nobody  *)
(* stops.                                                                  *)
WatchedOnce ==
  \A v, w \in live : v[2] = w[2] /\ v # w => v[1] \in failed \/ w[1] \in failed
=============================================================================
