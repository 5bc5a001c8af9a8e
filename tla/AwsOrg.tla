------------------------------- MODULE AwsOrg -------------------------------
(* The registry of an AWS organization: every iteration of the manager     *)
(* lists the organization's accounts (providers/awslib/account_provider),  *)
(* brings the cache of their fetchers up to date                           *)
(* (fetching/preset/aws_org_preset) and installs the result                *)
(* (registry.Update, flavors/benchmark/aws_org).  Iterations may overlap.  *)
(* The fetchers of account a made in update i are <<i, a>>; a forwarder    *)
(* stamps what they send with the identity of a, which the go statement    *)
(* hands to it by value.                                                   *)
EXTENDS Naturals, FiniteSets

CONSTANTS Account, None,
          MaxIter,    \* bound on the updates
          MaxAtOnce,  \* bound on the updates that overlap
          MaxChanges, \* bound on the changes to the organization
          MaxFlight   \* bound on the resources on their way at one time

ASSUME OrgAssumption ==
  /\ {MaxIter, MaxAtOnce, MaxChanges, MaxFlight} \subseteq Nat
  /\ None \notin Account \cup (Nat \X Account)

VARIABLES
  active,    \* accounts of the organization that are active now
  changes,
  pc,        \* where each update is
  local,     \* the local variables of each, see Locals
  account,   \* the loop variable of each, which outlives it: the fetchers'
             \* identity points to it
  cache, reg,
  truth,     \* ghost: least, most and alone of the update installed last
  fetch,     \* whether a Fetch has a resource to send
  forwarder, \* the goroutine of each: "none", "idle", "busy" or "gone"
  hand,      \* the account in the ID of the resource it is to send to rootCh
  cancelled, crashed

orgVars == <<active, changes>>
updVars == <<pc, local, account>>
sendVars == <<fetch, forwarder, hand>>
endVars == <<cancelled, crashed>>
vars == <<orgVars, updVars, cache, reg, truth, sendVars, endVars>>

Iter == 1..MaxIter
Fetchers == Iter \X Account
MapOf(S) == [Account -> S \cup {None}]
Empty == [a \in Account |-> None]
MapPhase == {"loop", "store", "sweep", "install"}
Ended == {"none", "failed", "done"}

Ghost == [least : SUBSET Account,  \* accounts active all through the listing
          most : SUBSET Account,   \* accounts active at some time of it
          alone : BOOLEAN]         \* no other update was in the cache meanwhile
Locals == [todo : SUBSET Account,   \* accounts not read yet
           listed : SUBSET Account, \* accounts in the listing
           stale : SUBSET Account,  \* those with FALSE in seen
           fm : MapOf(Fetchers),    \* the map to return
           ghost : Ghost]
Fresh == [todo |-> Account, listed |-> {}, stale |-> {}, fm |-> Empty,
          ghost |-> [least |-> {}, most |-> {}, alone |-> TRUE]]

Init ==
  /\ active \in SUBSET Account /\ changes = 0
  /\ pc = [i \in Iter |-> "none"]
  /\ local = [i \in Iter |-> Fresh]
  /\ account = [i \in Iter |-> None]
  /\ cache = Empty /\ reg = Empty
  /\ truth = Fresh.ghost
  /\ fetch = [g \in Fetchers |-> FALSE]
  /\ forwarder = [g \in Fetchers |-> "none"] /\ hand = [g \in Fetchers |-> None]
  /\ cancelled = FALSE /\ crashed = FALSE

At(f, x, v) == [f EXCEPT ![x] = v]
Goto(i, from, to) == pc[i] = from /\ pc' = At(pc, i, to)

-----------------------------------------------------------------------------
(* The organization: an account is opened or closed.                       *)
Open(a) ==
  /\ a \notin active /\ active' = active \cup {a}
  /\ changes < MaxChanges /\ changes' = changes + 1
  /\ local' = [i \in Iter |-> IF pc[i] = "list" THEN [local[i] EXCEPT !.ghost.most = @ \cup {a}]
                              ELSE local[i]]
  /\ UNCHANGED <<pc, account, cache, reg, truth, sendVars, endVars>>

Close(a) ==
  /\ a \in active /\ active' = active \ {a}
  /\ changes < MaxChanges /\ changes' = changes + 1
  /\ local' = [i \in Iter |-> IF pc[i] = "list" THEN [local[i] EXCEPT !.ghost.least = @ \ {a}]
                              ELSE local[i]]
  /\ UNCHANGED <<pc, account, cache, reg, truth, sendVars, endVars>>

-----------------------------------------------------------------------------
(* listAccounts: the accounts one by one, in any order.                    *)
StartUpdate(i) ==
  /\ \A j \in 1..(i - 1) : pc[j] # "none"
  /\ Cardinality({j \in Iter : pc[j] \notin Ended}) < MaxAtOnce
  /\ Goto(i, "none", "list")
  /\ local' = [local EXCEPT ![i].ghost.least = active, ![i].ghost.most = active]
  /\ UNCHANGED <<orgVars, account, cache, reg, truth, sendVars, endVars>>

(* The error ends the update; what is registered stays.                    *)
ListFails(i) ==
  /\ Goto(i, "list", "failed")
  /\ local' = At(local, i, Fresh)
  /\ UNCHANGED <<orgVars, account, cache, reg, truth, sendVars, endVars>>

(* Mutant: an account whose unit cannot be read is left out. *)
ListedIfUnitKnown(i, a) == {local[i].listed, local[i].listed \cup ({a} \cap active)}

(* An active account is listed, be its organizational unit known or not.   *)
Listed(i, a) == {local[i].listed \cup ({a} \cap active)}

LookUp(i, a) ==
  /\ Goto(i, "list", "list") /\ a \in local[i].todo
  /\ \E S \in Listed(i, a) : local' = [local EXCEPT ![i].todo = @ \ {a}, ![i].listed = S]
  /\ UNCHANGED <<orgVars, account, cache, reg, truth, sendVars, endVars>>

ListEnds(i) ==
  /\ Goto(i, "list", "seen") /\ local[i].todo = {}
  /\ UNCHANGED <<orgVars, local, account, cache, reg, truth, sendVars, endVars>>

-----------------------------------------------------------------------------
(* newCisAwsOrganizationFetchers.  cache is a plain map, shared by the     *)
(* updates without a lock.                                                 *)
InMap(i) == pc[i] \in MapPhase
Seen(i) ==
  /\ Goto(i, "seen", "loop")
  /\ local' = [j \in Iter |->
       IF j = i THEN [local[i] EXCEPT !.stale = {a \in Account : cache[a] # None},
                                      !.ghost.alone = \A k \in Iter : ~InMap(k)]
       ELSE IF InMap(j) THEN [local[j] EXCEPT !.ghost.alone = FALSE]
       ELSE local[j]]
  /\ UNCHANGED <<orgVars, account, cache, reg, truth, sendVars, endVars>>

Missing(i, a) == a \in local[i].listed /\ local[i].fm[a] = None

(* Mutant: a reused entry is not marked as seen. *)
ReuseUnseen(i, a) ==
  /\ Goto(i, "loop", "loop")
  /\ Missing(i, a) /\ cache[a] # None
  /\ account' = At(account, i, a)
  /\ local' = [local EXCEPT ![i].fm[a] = cache[a]]
  /\ UNCHANGED <<orgVars, cache, reg, truth, sendVars, endVars>>

Reuse(i, a) ==
  /\ Goto(i, "loop", "loop")
  /\ Missing(i, a) /\ cache[a] # None
  /\ account' = At(account, i, a)
  /\ local' = [local EXCEPT ![i].fm[a] = cache[a], ![i].stale = @ \ {a}]
  /\ UNCHANGED <<orgVars, cache, reg, truth, sendVars, endVars>>

(* Mutant: fetchers are made whether or not there are some. *)
MakeAgain(i, a) ==
  /\ Goto(i, "loop", "store")
  /\ Missing(i, a)
  /\ account' = At(account, i, a)
  /\ forwarder' = At(forwarder, <<i, a>>, "idle")
  /\ UNCHANGED <<orgVars, local, cache, reg, truth, fetch, hand, endVars>>

(* The forwarder is started, then the factory makes the fetchers, asking   *)
(* AWS for the regions.                                                    *)
Make(i, a) ==
  /\ Goto(i, "loop", "store")
  /\ Missing(i, a) /\ cache[a] = None
  /\ account' = At(account, i, a)
  /\ forwarder' = At(forwarder, <<i, a>>, "idle")
  /\ UNCHANGED <<orgVars, local, cache, reg, truth, fetch, hand, endVars>>

Store(i) ==
  /\ Goto(i, "store", "loop")
  /\ local' = [local EXCEPT ![i].fm[account[i]] = <<i, account[i]>>]
  /\ cache' = At(cache, account[i], <<i, account[i]>>)
  /\ UNCHANGED <<orgVars, account, reg, truth, sendVars, endVars>>

LoopEnds(i) ==
  /\ Goto(i, "loop", "sweep")
  /\ \A a \in Account : ~Missing(i, a)
  /\ UNCHANGED <<orgVars, local, account, cache, reg, truth, sendVars, endVars>>

WithoutStale(i) == [a \in Account |-> IF a \in local[i].stale THEN None ELSE cache[a]]

(* Mutant: the forwarders of accounts that left are ended as well. *)
SweepEnds(i) ==
  /\ Goto(i, "sweep", "install")
  /\ cache' = WithoutStale(i)
  /\ forwarder' = [g \in Fetchers |-> IF g[2] \in local[i].stale /\ cache[g[2]] = g THEN "gone"
                                      ELSE forwarder[g]]
  /\ UNCHANGED <<orgVars, local, account, reg, truth, fetch, hand, endVars>>

(* Accounts that left are forgotten; their forwarders stay.                *)
Sweep(i) ==
  /\ Goto(i, "sweep", "install")
  /\ cache' = WithoutStale(i)
  /\ UNCHANGED <<orgVars, local, account, reg, truth, sendVars, endVars>>

(* registry.Update *)
Install(i) ==
  /\ Goto(i, "install", "done")
  /\ reg' = local[i].fm /\ truth' = local[i].ghost
  /\ local' = At(local, i, Fresh)
  /\ UNCHANGED <<orgVars, account, cache, sendVars, endVars>>

(* Go ends the program when it sees a map written while it is in use.      *)
Writes(i) == pc[i] = "store" \/ (pc[i] = "sweep" /\ local[i].stale # {})
Uses(i) == pc[i] \in {"seen", "loop"} \/ Writes(i)
MapRace(i, j) ==
  /\ i # j /\ Writes(i) /\ Uses(j)
  /\ crashed' = TRUE
  /\ UNCHANGED <<orgVars, updVars, cache, reg, truth, sendVars, cancelled>>

-----------------------------------------------------------------------------
(* A registered fetcher has found something; its Fetch goes on although    *)
(* an update unregisters it.                                               *)
InFlight == {g \in Fetchers : fetch[g] \/ hand[g] # None}
Find(g) ==
  /\ reg[g[2]] = g /\ ~fetch[g] /\ Cardinality(InFlight) < MaxFlight
  /\ fetch' = At(fetch, g, TRUE)
  /\ UNCHANGED <<orgVars, updVars, cache, reg, truth, forwarder, hand, endVars>>

(* ctx of the Fetch is done, by its deadline or by Stop.                   *)
GiveUp(g) ==
  /\ fetch[g] /\ fetch' = At(fetch, g, FALSE)
  /\ UNCHANGED <<orgVars, updVars, cache, reg, truth, forwarder, hand, endVars>>

(* The account that the fetchers' pointer to their identity leads to: IDs  *)
(* without an ARN are made from it.                                        *)
PointedTo(g) == account[g[1]]

Take(g) ==
  /\ fetch[g] /\ forwarder[g] = "idle"
  /\ fetch' = At(fetch, g, FALSE) /\ forwarder' = At(forwarder, g, "busy")
  /\ hand' = At(hand, g, PointedTo(g))
  /\ UNCHANGED <<orgVars, updVars, cache, reg, truth, endVars>>

(* rootCh <- wrappedResourceInfo *)
Forward(g) ==
  /\ forwarder[g] = "busy"
  /\ forwarder' = At(forwarder, g, "idle") /\ hand' = At(hand, g, None)
  /\ UNCHANGED <<orgVars, updVars, cache, reg, truth, fetch, endVars>>

Leave(g) ==
  /\ cancelled /\ forwarder[g] \in {"idle", "busy"}
  /\ forwarder' = At(forwarder, g, "gone") /\ hand' = At(hand, g, None)
  /\ UNCHANGED <<orgVars, updVars, cache, reg, truth, fetch, endVars>>

Stop ==
  /\ ~cancelled /\ cancelled' = TRUE
  /\ UNCHANGED <<orgVars, updVars, cache, reg, truth, sendVars, crashed>>

-----------------------------------------------------------------------------
UpdateStep(i) ==
  \/ StartUpdate(i) \/ ListFails(i) \/ ListEnds(i) \/ Seen(i) \/ Store(i)
  \/ LoopEnds(i) \/ Sweep(i) \/ Install(i)
  \/ \E a \in Account : LookUp(i, a) \/ Reuse(i, a) \/ Make(i, a)
  \/ \E j \in Iter : MapRace(i, j)

SendStep(g) == Find(g) \/ GiveUp(g) \/ Take(g) \/ Forward(g) \/ Leave(g)

Next ==
  /\ ~crashed
  /\ \/ \E a \in Account : Open(a) \/ Close(a)
     \/ \E i \in Iter : UpdateStep(i)
     \/ \E g \in Fetchers : SendStep(g)
     \/ Stop

Spec == Init /\ [][Next]_vars

-----------------------------------------------------------------------------
TypeOK ==
  /\ active \subseteq Account /\ changes \in 0..MaxChanges
  /\ pc \in [Iter -> MapPhase \cup Ended \cup {"list", "seen"}]
  /\ local \in [Iter -> Locals]
  /\ account \in [Iter -> Account \cup {None}]
  /\ cache \in MapOf(Fetchers) /\ reg \in MapOf(Fetchers)
  /\ truth \in Ghost
  /\ fetch \in [Fetchers -> BOOLEAN]
  /\ forwarder \in [Fetchers -> {"none", "idle", "busy", "gone"}]
  /\ hand \in [Fetchers -> Account \cup {None}]
  /\ cancelled \in BOOLEAN /\ crashed \in BOOLEAN

(* Whoever has found something has a forwarder to give it to, though its   *)
(* account may have left, unless the context is done.                      *)
Forwarded ==
  \A g \in Fetchers : fetch[g] => forwarder[g] # "none" /\ (forwarder[g] = "gone" => cancelled)

(* What is registered is one listing of the organization, whatever failed  *)
(* since: with every account that was active all through it, although its  *)
(* unit could not be read, and with none that never was.                   *)
RegistryIsListing ==
  LET registered == {a \in Account : reg[a] # None}
  IN truth.least \subseteq registered /\ registered \subseteq truth.most

(* After an update that had the cache to itself, the cache is what is      *)
(* registered: those of an account that left are forgotten, even after     *)
(* updates that overlapped.                                                *)
CacheIsRegistry ==
  truth.alone /\ (\A i \in Iter : ~InMap(i)) => cache = reg

(* What the cache is for: an account that stays keeps its fetchers, with   *)
(* what they remember of it, from one update that had the cache to itself  *)
(* to the next, whatever else failed or overlapped before and between.     *)
KeepsFetchers ==
  [][truth.alone /\ truth'.alone =>
       \A a \in Account : reg[a] # None /\ reg'[a] # None => reg'[a] = reg[a]]_vars

(* "resource unique identifier" (tests/README.md): resources of different  *)
(* accounts have different IDs.                                            *)
IdsDiffer ==
  \A g, h \in Fetchers :
    hand[g] # None /\ hand[h] # None /\ g[2] # h[2] => hand[g] # hand[h]
=============================================================================
