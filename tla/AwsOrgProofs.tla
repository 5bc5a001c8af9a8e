----------------------------- MODULE AwsOrgProofs -----------------------------
(* The promises of the organization's registry, for any accounts and any   *)
(* number of updates, overlapping or not.                                  *)
EXTENDS AwsOrg, TLAPS

Listing(i) == pc[i] = "list"
After(i) == pc[i] \in MapPhase \cup {"seen"}

(* What an update has listed lies between least and most, but for the      *)
(* accounts it has not read yet.                                           *)
ListInv ==
  /\ \A i \in Iter : pc[i] = "none" => local[i] = Fresh
  /\ \A i \in Iter : Listing(i) =>
       /\ local[i].ghost.least \subseteq active /\ active \subseteq local[i].ghost.most
       /\ local[i].ghost.least \subseteq local[i].listed \cup local[i].todo
  /\ \A i \in Iter : After(i) => local[i].ghost.least \subseteq local[i].listed
  /\ \A i \in Iter : Listing(i) \/ After(i) => local[i].listed \subseteq local[i].ghost.most

(* The map to return has listed accounts only, in the end all of them.     *)
FmInv ==
  /\ \A i \in Iter : pc[i] \in {"list", "seen"} => local[i].fm = Empty
  /\ \A i \in Iter : After(i) => \A a \in Account : local[i].fm[a] # None => a \in local[i].listed
  /\ \A i \in Iter : pc[i] = "store" => account[i] \in local[i].listed
  /\ \A i \in Iter : pc[i] \in {"sweep", "install"} => \A a \in local[i].listed : local[i].fm[a] # None

(* Two updates in the cache know of each other.                            *)
AloneInv ==
  \A i, j \in Iter : InMap(i) /\ local[i].ghost.alone /\ i # j => ~InMap(j)

(* An update that has the cache to itself keeps the map to return a part   *)
(* of it; the rest is stale.                                               *)
Part(i) ==
  \A a \in Account : /\ local[i].fm[a] # None => cache[a] = local[i].fm[a] /\ a \notin local[i].stale
                     /\ local[i].fm[a] = None => (a \in local[i].stale <=> cache[a] # None)
SoleInv ==
  \A i \in Iter : local[i].ghost.alone =>
    /\ pc[i] \in {"loop", "store", "sweep"} => Part(i)
    /\ pc[i] = "store" => cache[account[i]] = None
    /\ pc[i] = "install" => cache = local[i].fm

(* Every map is of fetchers whose forwarder was started, by an update whose *)
(* loop variable is set since.                                             *)
Served(f) == \A a \in Account : f[a] # None => forwarder[f[a]] # "none"
MadeInv ==
  /\ Served(cache) /\ Served(reg) /\ \A i \in Iter : Served(local[i].fm)
  /\ \A i \in Iter : pc[i] = "store" => account[i] # None /\ forwarder[<<i, account[i]>>] # "none"
  /\ \A g \in Fetchers : forwarder[g] # "none" => account[g[1]] # None
  /\ \A g \in Fetchers : forwarder[g] = "gone" => cancelled

UpdInv == ListInv /\ FmInv /\ AloneInv /\ SoleInv /\ RegistryIsListing /\ CacheIsRegistry
SendInv == MadeInv /\ Forwarded
OrgInv == TypeOK /\ UpdInv /\ SendInv

-----------------------------------------------------------------------------
LEMMA NoneFacts ==
  /\ \A a \in Account : a # None
  /\ \A g \in Fetchers : g # None
  /\ Empty \in MapOf(Fetchers)
  /\ Fresh \in Locals
<1>1. \A g \in Fetchers : g \in Nat \X Account
  BY OrgAssumption DEF Iter, Fetchers
<1>2. Empty \in MapOf(Fetchers)
  BY DEF Empty, MapOf
<1> QED
  BY <1>1, <1>2, OrgAssumption DEF Fresh, Locals, Ghost

LEMMA OrgInit == Init => OrgInv
<1> SUFFICES ASSUME Init PROVE OrgInv
  OBVIOUS
<1>1. TypeOK
  <2>1. Fresh.ghost \in Ghost
    BY NoneFacts DEF Locals
  <2>2. changes \in 0..MaxChanges
    BY OrgAssumption DEF Init
  <2>3. /\ pc \in [Iter -> MapPhase \cup Ended \cup {"list", "seen"}]
        /\ forwarder \in [Fetchers -> {"none", "idle", "busy", "gone"}]
    BY DEF Init, Ended
  <2>4. local \in [Iter -> Locals] /\ cache \in MapOf(Fetchers) /\ reg \in MapOf(Fetchers)
    BY NoneFacts DEF Init
  <2> QED
    BY <2>1, <2>2, <2>3, <2>4 DEF Init, TypeOK
<1>2. UpdInv
  BY DEF Init, UpdInv, ListInv, FmInv, AloneInv, SoleInv, RegistryIsListing, CacheIsRegistry, Fresh,
         Empty, InMap, MapPhase, Listing, After, Part
<1>3. SendInv
  BY DEF Init, SendInv, MadeInv, Served, Forwarded, Fresh, Empty
<1> QED
  BY <1>1, <1>2, <1>3 DEF OrgInv

-----------------------------------------------------------------------------
(* Steps that leave the updates alone.                                     *)
LEMMA UpdStutter ==
  ASSUME UpdInv, UNCHANGED <<active, pc, local, account, cache, reg, truth>>
  PROVE  UpdInv'
  BY DEF UpdInv, ListInv, FmInv, AloneInv, SoleInv, RegistryIsListing, CacheIsRegistry, InMap,
         Listing, After, Part

LEMMA SendStutter ==
  ASSUME SendInv, UNCHANGED <<pc, local, account, cache, reg, fetch, forwarder, hand, cancelled>>
  PROVE  SendInv'
  BY DEF SendInv, MadeInv, Served, Forwarded

(* Steps of the senders: no forwarder disappears.                          *)
LEMMA SendSteps ==
  ASSUME TypeOK, SendInv, UNCHANGED <<pc, local, account, cache, reg>>,
         \A g \in Fetchers : forwarder'[g] = "none" <=> forwarder[g] = "none",
         \A g \in Fetchers : forwarder'[g] = "gone" => cancelled',
         Forwarded'
  PROVE  SendInv'
<1>1. \A f \in MapOf(Fetchers) : Served(f) => Served(f)'
  BY DEF Served, MapOf
<1>2. Served(cache)' /\ Served(reg)' /\ \A i \in Iter : Served(local[i].fm)'
  BY DEF Served, SendInv, MadeInv, TypeOK, MapOf, Locals
<1>3. \A i \in Iter : pc[i] = "store" => <<i, account[i]>> \in Fetchers
  BY DEF SendInv, MadeInv, TypeOK, Fetchers
<1> QED
  BY <1>2, <1>3 DEF SendInv, MadeInv

LEMMA OrgSend ==
  ASSUME OrgInv, NEW g \in Fetchers, SendStep(g)
  PROVE  OrgInv'
<1> USE DEF SendStep
<1>t. TypeOK
  BY DEF OrgInv
<1>u. UNCHANGED <<active, changes, pc, local, account, cache, reg, truth, cancelled, crashed>>
  BY DEF Find, GiveUp, Take, Forward, Leave, orgVars, updVars, sendVars, endVars
<1>1. UpdInv'
  BY <1>u, UpdStutter DEF OrgInv
<1>g. g[1] \in Iter /\ g[2] \in Account
  BY DEF Fetchers
<1>2. CASE Find(g)
  <2>1. /\ fetch' \in [Fetchers -> BOOLEAN]
        /\ \A h \in Fetchers \ {g} : fetch'[h] = fetch[h]
        /\ UNCHANGED <<forwarder, hand>>
    BY <1>2, <1>t DEF Find, At, TypeOK, orgVars, updVars, endVars
  <2>2. forwarder[g] # "none"
    BY <1>2, <1>g, NoneFacts DEF Find, OrgInv, SendInv, MadeInv, Served
  <2>3. TypeOK'
    BY <2>1, <1>t, <1>u DEF TypeOK
  <2>4. Forwarded'
    BY <2>1, <2>2, <1>u DEF OrgInv, SendInv, MadeInv, Forwarded
  <2>f. \A h \in Fetchers : /\ forwarder'[h] = "none" <=> forwarder[h] = "none"
                            /\ forwarder'[h] = "gone" => cancelled'
    BY <2>1, <1>u DEF OrgInv, SendInv, MadeInv
  <2>s. SendInv'
    BY <2>4, <2>f, <1>t, <1>u, SendSteps DEF OrgInv
  <2> QED
    BY <2>3, <2>s, <1>1 DEF OrgInv
<1>3. CASE GiveUp(g)
  <2>1. /\ fetch' \in [Fetchers -> BOOLEAN] /\ fetch'[g] = FALSE
        /\ \A h \in Fetchers \ {g} : fetch'[h] = fetch[h]
        /\ UNCHANGED <<forwarder, hand>>
    BY <1>3, <1>t DEF GiveUp, At, TypeOK, orgVars, updVars, endVars
  <2>2. TypeOK'
    BY <2>1, <1>t, <1>u DEF TypeOK
  <2>3. Forwarded'
    BY <2>1, <1>u DEF OrgInv, SendInv, Forwarded
  <2>f. \A h \in Fetchers : /\ forwarder'[h] = "none" <=> forwarder[h] = "none"
                            /\ forwarder'[h] = "gone" => cancelled'
    BY <2>1, <1>u DEF OrgInv, SendInv, MadeInv
  <2>s. SendInv'
    BY <2>3, <2>f, <1>t, <1>u, SendSteps DEF OrgInv
  <2> QED
    BY <2>2, <2>s, <1>1 DEF OrgInv
<1>4. CASE Take(g)
  <2>a. account[g[1]] \in Account
    BY <1>4, <1>t, <1>g DEF Take, OrgInv, SendInv, MadeInv, TypeOK
  <2>1. /\ fetch' \in [Fetchers -> BOOLEAN] /\ fetch'[g] = FALSE
        /\ \A h \in Fetchers \ {g} : fetch'[h] = fetch[h]
    BY <1>4, <1>t DEF Take, At, TypeOK
  <2>2. /\ forwarder' \in [Fetchers -> {"none", "idle", "busy", "gone"}]
        /\ forwarder[g] = "idle" /\ forwarder'[g] = "busy"
        /\ \A h \in Fetchers \ {g} : forwarder'[h] = forwarder[h]
    BY <1>4, <1>t DEF Take, At, TypeOK
  <2>3. /\ hand' \in [Fetchers -> Account \cup {None}]
        /\ \A h \in Fetchers \ {g} : hand'[h] = hand[h]
    BY <1>4, <1>t, <1>g, <2>a DEF Take, At, TypeOK, PointedTo
  <2>4. TypeOK'
    BY <2>1, <2>2, <2>3, <1>t, <1>u DEF TypeOK
  <2>5. Forwarded'
    BY <2>1, <2>2, <1>u DEF OrgInv, SendInv, Forwarded
  <2>f. \A h \in Fetchers : /\ forwarder'[h] = "none" <=> forwarder[h] = "none"
                            /\ forwarder'[h] = "gone" => cancelled'
    BY <2>2, <1>u DEF OrgInv, SendInv, MadeInv
  <2>s. SendInv'
    BY <2>5, <2>f, <1>t, <1>u, SendSteps DEF OrgInv
  <2> QED
    BY <2>4, <2>s, <1>1 DEF OrgInv
<1>5. CASE Forward(g) \/ Leave(g)
  <2>1. /\ forwarder' \in [Fetchers -> {"none", "idle", "busy", "gone"}]
        /\ forwarder[g] # "none" /\ forwarder'[g] # "none"
        /\ forwarder'[g] = "gone" => cancelled
        /\ \A h \in Fetchers \ {g} : forwarder'[h] = forwarder[h]
    BY <1>5, <1>t DEF Forward, Leave, At, TypeOK
  <2>2. /\ hand' \in [Fetchers -> Account \cup {None}]
        /\ hand'[g] = None /\ \A h \in Fetchers \ {g} : hand'[h] = hand[h]
    BY <1>5, <1>t DEF Forward, Leave, At, TypeOK
  <2>3. fetch' = fetch
    BY <1>5 DEF Forward, Leave
  <2>4. TypeOK'
    BY <2>1, <2>2, <2>3, <1>t, <1>u DEF TypeOK
  <2>5. Forwarded'
    BY <2>1, <2>2, <2>3, <1>u DEF OrgInv, SendInv, Forwarded
  <2>f. \A h \in Fetchers : /\ forwarder'[h] = "none" <=> forwarder[h] = "none"
                            /\ forwarder'[h] = "gone" => cancelled'
    BY <2>1, <1>u DEF OrgInv, SendInv, MadeInv
  <2>s. SendInv'
    BY <2>5, <2>f, <1>t, <1>u, SendSteps DEF OrgInv
  <2> QED
    BY <2>4, <2>s, <1>1 DEF OrgInv
<1> QED
  BY <1>2, <1>3, <1>4, <1>5

LEMMA OrgStop ==
  ASSUME OrgInv, Stop
  PROVE  OrgInv'
<1>1. /\ cancelled' = TRUE
      /\ UNCHANGED <<active, changes, pc, local, account, cache, reg, truth, fetch, forwarder, hand, crashed>>
  BY DEF Stop, orgVars, updVars, sendVars
<1>2. TypeOK'
  BY <1>1 DEF OrgInv, TypeOK
<1>3. UpdInv'
  BY <1>1, UpdStutter DEF OrgInv
<1>4. SendInv'
  BY <1>1 DEF OrgInv, SendInv, MadeInv, Served, Forwarded
<1> QED
  BY <1>2, <1>3, <1>4 DEF OrgInv

(* Accounts that open or close only move the ghosts of who is listing.     *)
LEMMA OrgChange ==
  ASSUME OrgInv, NEW a \in Account, Open(a) \/ Close(a)
  PROVE  OrgInv'
<1>t. TypeOK
  BY DEF OrgInv
<1>u. UNCHANGED <<pc, account, cache, reg, truth, fetch, forwarder, hand, cancelled, crashed>>
  BY DEF Open, Close, sendVars, endVars
<1>1. ASSUME NEW i \in Iter
      PROVE  /\ local'[i] \in Locals
             /\ local'[i].todo = local[i].todo /\ local'[i].listed = local[i].listed
             /\ local'[i].stale = local[i].stale /\ local'[i].fm = local[i].fm
             /\ local'[i].ghost.alone = local[i].ghost.alone
             /\ ~Listing(i) => local'[i] = local[i]
             /\ Open(a) => local'[i].ghost.least = local[i].ghost.least
             /\ Open(a) /\ Listing(i) => local'[i].ghost.most = local[i].ghost.most \cup {a}
             /\ Close(a) => local'[i].ghost.most = local[i].ghost.most
             /\ Close(a) /\ Listing(i) => local'[i].ghost.least = local[i].ghost.least \ {a}
  <2>1. local[i] \in Locals
    BY <1>t DEF TypeOK
  <2>2. CASE ~Listing(i)
    BY <2>1, <2>2 DEF Open, Close, Listing
  <2>3. CASE Listing(i) /\ Open(a)
    <3>1. local'[i] = [local[i] EXCEPT !.ghost.most = @ \cup {a}]
      BY <2>3 DEF Open, Listing
    <3>2. a \notin active
      BY <2>3 DEF Open
    <3> QED
      BY <3>1, <3>2, <2>1, <2>3 DEF Locals, Ghost, Close
  <2>4. CASE Listing(i) /\ Close(a)
    <3>1. local'[i] = [local[i] EXCEPT !.ghost.least = @ \ {a}]
      BY <2>4 DEF Close, Listing
    <3>2. a \in active
      BY <2>4 DEF Close
    <3> QED
      BY <3>1, <3>2, <2>1, <2>4 DEF Locals, Ghost, Open
  <2> QED
    BY <2>2, <2>3, <2>4
<1>2. local' \in [Iter -> Locals]
  <2>1. DOMAIN local' = Iter /\ local' = [i \in Iter |-> local'[i]]
    BY DEF Open, Close
  <2> QED
    BY <2>1, <1>1
<1>3. /\ active' \subseteq Account /\ changes' \in 0..MaxChanges
      /\ Open(a) => active' = active \cup {a}
      /\ Close(a) => active' = active \ {a}
  BY <1>t, OrgAssumption DEF Open, Close, TypeOK
<1>4. TypeOK'
  BY <1>2, <1>3, <1>t, <1>u DEF TypeOK
<1>5. ListInv'
  <2>1. ASSUME NEW i \in Iter, pc[i] = "none"
        PROVE  local'[i] = Fresh
    BY <2>1, <1>1 DEF OrgInv, UpdInv, ListInv, Listing
  <2>2. ASSUME NEW i \in Iter, Listing(i)
        PROVE  /\ local'[i].ghost.least \subseteq active' /\ active' \subseteq local'[i].ghost.most
               /\ local'[i].ghost.least \subseteq local'[i].listed \cup local'[i].todo
               /\ local'[i].listed \subseteq local'[i].ghost.most
    BY <2>2, <1>1, <1>3 DEF OrgInv, UpdInv, ListInv
  <2>3. ASSUME NEW i \in Iter, After(i)
        PROVE  /\ local'[i].ghost.least \subseteq local'[i].listed
               /\ local'[i].listed \subseteq local'[i].ghost.most
    <3>1. ~Listing(i)
      BY <2>3 DEF Listing, After, MapPhase
    <3> QED
      BY <3>1, <2>3, <1>1 DEF OrgInv, UpdInv, ListInv
  <2> QED
    BY <2>1, <2>2, <2>3, <1>u DEF ListInv, Listing, After
<1>6. FmInv' /\ AloneInv'
  BY <1>1, <1>u DEF OrgInv, UpdInv, FmInv, AloneInv, After, InMap
<1>7. SoleInv' /\ RegistryIsListing' /\ CacheIsRegistry'
  BY <1>1, <1>u DEF OrgInv, UpdInv, SoleInv, Part, RegistryIsListing, CacheIsRegistry, InMap
<1>8. SendInv'
  BY <1>1, <1>u DEF OrgInv, SendInv, MadeInv, Served, Forwarded
<1> QED
  BY <1>4, <1>5, <1>6, <1>7, <1>8 DEF OrgInv, UpdInv

-----------------------------------------------------------------------------
LEMMA OrgStart ==
  ASSUME OrgInv, NEW i \in Iter, StartUpdate(i)
  PROVE  OrgInv'
<1>t. TypeOK
  BY DEF OrgInv
<1>u. UNCHANGED <<active, changes, account, cache, reg, truth, fetch, forwarder, hand, cancelled, crashed>>
  BY DEF StartUpdate, orgVars, sendVars, endVars
<1>0. pc[i] = "none" /\ local[i] = Fresh /\ local[i] \in Locals /\ active \subseteq Account
  BY <1>t DEF StartUpdate, Goto, OrgInv, UpdInv, ListInv, TypeOK
<1>1. /\ pc' \in [Iter -> MapPhase \cup Ended \cup {"list", "seen"}]
      /\ pc'[i] = "list" /\ \A j \in Iter \ {i} : pc'[j] = pc[j]
  BY <1>t DEF StartUpdate, Goto, At, TypeOK
<1>2. /\ local' \in [Iter -> Locals] /\ \A j \in Iter \ {i} : local'[j] = local[j]
      /\ local'[i].todo = local[i].todo /\ local'[i].listed = local[i].listed
      /\ local'[i].fm = local[i].fm
      /\ local'[i].ghost.least = active /\ local'[i].ghost.most = active
  BY <1>t, <1>0 DEF StartUpdate, TypeOK, Locals, Ghost
<1>3. local'[i].todo = Account /\ local'[i].listed = {} /\ local'[i].fm = Empty
  BY <1>2, <1>0 DEF Fresh
<1>4. TypeOK'
  BY <1>1, <1>2, <1>t, <1>u DEF TypeOK
<1>5. ListInv'
  BY <1>0, <1>1, <1>2, <1>3, <1>u DEF OrgInv, UpdInv, ListInv, Listing, After, MapPhase
<1>6. FmInv'
  BY <1>1, <1>2, <1>3, <1>u DEF OrgInv, UpdInv, FmInv, After, MapPhase
<1>7. AloneInv' /\ SoleInv'
  BY <1>1, <1>2, <1>u DEF OrgInv, UpdInv, AloneInv, SoleInv, Part, InMap, MapPhase
<1>8. RegistryIsListing' /\ CacheIsRegistry'
  BY <1>0, <1>1, <1>u DEF OrgInv, UpdInv, RegistryIsListing, CacheIsRegistry, InMap, MapPhase
<1>9. SendInv'
  BY <1>1, <1>2, <1>3, <1>u DEF OrgInv, SendInv, MadeInv, Served, Forwarded, Empty
<1> QED
  BY <1>4, <1>5, <1>6, <1>7, <1>8, <1>9 DEF OrgInv, UpdInv

LEMMA OrgListFails ==
  ASSUME OrgInv, NEW i \in Iter, ListFails(i)
  PROVE  OrgInv'
<1>t. TypeOK
  BY DEF OrgInv
<1>u. UNCHANGED <<active, changes, account, cache, reg, truth, fetch, forwarder, hand, cancelled, crashed>>
  BY DEF ListFails, orgVars, sendVars, endVars
<1>1. /\ pc[i] = "list" /\ pc' \in [Iter -> MapPhase \cup Ended \cup {"list", "seen"}]
      /\ pc'[i] = "failed" /\ \A j \in Iter \ {i} : pc'[j] = pc[j]
  BY <1>t DEF ListFails, Goto, At, TypeOK, Ended
<1>2. /\ local' \in [Iter -> Locals] /\ local'[i] = Fresh
      /\ \A j \in Iter \ {i} : local'[j] = local[j]
  BY <1>t, NoneFacts DEF ListFails, At, TypeOK
<1>4. TypeOK'
  BY <1>1, <1>2, <1>t, <1>u DEF TypeOK
<1>5. ListInv'
  BY <1>1, <1>2, <1>u DEF OrgInv, UpdInv, ListInv, Listing, After, MapPhase
<1>6. FmInv'
  BY <1>1, <1>2, <1>u DEF OrgInv, UpdInv, FmInv, After, MapPhase
<1>7. AloneInv' /\ SoleInv'
  BY <1>1, <1>2, <1>u DEF OrgInv, UpdInv, AloneInv, SoleInv, Part, InMap, MapPhase
<1>8. RegistryIsListing' /\ CacheIsRegistry'
  BY <1>1, <1>u DEF OrgInv, UpdInv, RegistryIsListing, CacheIsRegistry, InMap, MapPhase
<1>9. SendInv'
  BY <1>1, <1>2, <1>u DEF OrgInv, SendInv, MadeInv, Served, Forwarded, Fresh, Empty
<1> QED
  BY <1>4, <1>5, <1>6, <1>7, <1>8, <1>9 DEF OrgInv, UpdInv

LEMMA OrgLookUp ==
  ASSUME OrgInv, NEW i \in Iter, NEW a \in Account, LookUp(i, a)
  PROVE  OrgInv'
<1>t. TypeOK
  BY DEF OrgInv
<1>u. UNCHANGED <<active, changes, account, cache, reg, truth, fetch, forwarder, hand, cancelled, crashed>>
  BY DEF LookUp, orgVars, sendVars, endVars
<1>1. pc[i] = "list" /\ pc' = pc
  BY <1>t DEF LookUp, Goto, At, TypeOK
<1>0. local[i] \in Locals /\ active \subseteq Account
  BY <1>t DEF TypeOK
<1>2. /\ local' = [local EXCEPT ![i].todo = @ \ {a}, ![i].listed = local[i].listed \cup ({a} \cap active)]
  BY DEF LookUp, Listed
<1>3. /\ local' \in [Iter -> Locals] /\ \A j \in Iter \ {i} : local'[j] = local[j]
      /\ local'[i].todo = local[i].todo \ {a}
      /\ local'[i].listed = local[i].listed \cup ({a} \cap active)
      /\ local'[i].ghost = local[i].ghost /\ local'[i].fm = local[i].fm
  BY <1>0, <1>2, <1>t DEF TypeOK, Locals
<1>4. TypeOK'
  BY <1>1, <1>3, <1>t, <1>u DEF TypeOK
<1>5. ListInv'
  <2>1. /\ local'[i].ghost.least \subseteq local'[i].listed \cup local'[i].todo
        /\ local'[i].listed \subseteq local'[i].ghost.most
    BY <1>0, <1>1, <1>3 DEF OrgInv, UpdInv, ListInv, Listing
  <2> QED
    BY <2>1, <1>1, <1>3, <1>u DEF OrgInv, UpdInv, ListInv, Listing, After, MapPhase
<1>6. FmInv'
  BY <1>1, <1>3, <1>u DEF OrgInv, UpdInv, FmInv, After, MapPhase
<1>7. AloneInv' /\ SoleInv'
  BY <1>1, <1>3, <1>u DEF OrgInv, UpdInv, AloneInv, SoleInv, Part, InMap, MapPhase
<1>8. RegistryIsListing' /\ CacheIsRegistry'
  BY <1>1, <1>u DEF OrgInv, UpdInv, RegistryIsListing, CacheIsRegistry, InMap, MapPhase
<1>9. SendInv'
  BY <1>1, <1>3, <1>u DEF OrgInv, SendInv, MadeInv, Served, Forwarded
<1> QED
  BY <1>4, <1>5, <1>6, <1>7, <1>8, <1>9 DEF OrgInv, UpdInv

LEMMA OrgListEnds ==
  ASSUME OrgInv, NEW i \in Iter, ListEnds(i)
  PROVE  OrgInv'
<1>t. TypeOK
  BY DEF OrgInv
<1>u. UNCHANGED <<active, changes, local, account, cache, reg, truth, fetch, forwarder, hand, cancelled, crashed>>
  BY DEF ListEnds, orgVars, sendVars, endVars
<1>1. /\ pc[i] = "list" /\ pc' \in [Iter -> MapPhase \cup Ended \cup {"list", "seen"}]
      /\ pc'[i] = "seen" /\ \A j \in Iter \ {i} : pc'[j] = pc[j]
  BY <1>t DEF ListEnds, Goto, At, TypeOK
<1>2. local[i].todo = {}
  BY DEF ListEnds
<1>4. TypeOK'
  BY <1>1, <1>t, <1>u DEF TypeOK
<1>5. ListInv'
  BY <1>1, <1>2, <1>u DEF OrgInv, UpdInv, ListInv, Listing, After, MapPhase
<1>6. FmInv'
  BY <1>1, <1>u DEF OrgInv, UpdInv, FmInv, After, MapPhase, Empty
<1>7. AloneInv' /\ SoleInv'
  BY <1>1, <1>u DEF OrgInv, UpdInv, AloneInv, SoleInv, Part, InMap, MapPhase
<1>8. RegistryIsListing' /\ CacheIsRegistry'
  BY <1>1, <1>u DEF OrgInv, UpdInv, RegistryIsListing, CacheIsRegistry, InMap, MapPhase
<1>9. SendInv'
  BY <1>1, <1>u DEF OrgInv, SendInv, MadeInv, Served, Forwarded
<1> QED
  BY <1>4, <1>5, <1>6, <1>7, <1>8, <1>9 DEF OrgInv, UpdInv

-----------------------------------------------------------------------------
LEMMA OrgSeen ==
  ASSUME OrgInv, NEW i \in Iter, Seen(i)
  PROVE  OrgInv'
<1>t. TypeOK
  BY DEF OrgInv
<1>u. UNCHANGED <<active, changes, account, cache, reg, truth, fetch, forwarder, hand, cancelled, crashed>>
  BY DEF Seen, orgVars, sendVars, endVars
<1>1. /\ pc[i] = "seen" /\ pc' \in [Iter -> MapPhase \cup Ended \cup {"list", "seen"}]
      /\ pc'[i] = "loop" /\ \A j \in Iter \ {i} : pc'[j] = pc[j]
  BY <1>t DEF Seen, Goto, At, TypeOK, MapPhase
<1>2. ASSUME NEW j \in Iter
      PROVE  /\ local'[j] \in Locals
             /\ local'[j].todo = local[j].todo /\ local'[j].listed = local[j].listed
             /\ local'[j].fm = local[j].fm
             /\ local'[j].ghost.least = local[j].ghost.least
             /\ local'[j].ghost.most = local[j].ghost.most
             /\ j = i => /\ local'[j].stale = {a \in Account : cache[a] # None}
                         /\ local'[j].ghost.alone <=> \A k \in Iter : ~InMap(k)
             /\ j # i /\ InMap(j) => ~local'[j].ghost.alone
             /\ j # i => local'[j].stale = local[j].stale
             /\ j # i /\ ~InMap(j) => local'[j] = local[j]
             /\ j # i /\ local'[j].ghost.alone => local[j].ghost.alone
  <2>1. local[j] \in Locals /\ local[i] \in Locals
    BY <1>t DEF TypeOK
  <2>2. CASE j = i
    <3>1. local'[i] = [local[i] EXCEPT !.stale = {a \in Account : cache[a] # None},
                                       !.ghost.alone = \A k \in Iter : ~InMap(k)]
      BY DEF Seen
    <3>2. CASE \A k \in Iter : ~InMap(k)
      <4>1. local'[i] = [local[i] EXCEPT !.stale = {a \in Account : cache[a] # None}, !.ghost.alone = TRUE]
        BY <3>1, <3>2
      <4>2. local'[i].ghost = [local[i].ghost EXCEPT !.alone = TRUE]
        BY <4>1, <2>1 DEF Locals
      <4>3. local'[i].ghost \in Ghost /\ local'[i].ghost.alone = TRUE
        BY <4>2, <2>1 DEF Locals, Ghost
      <4>4. /\ local'[i].ghost.least = local[i].ghost.least
            /\ local'[i].ghost.most = local[i].ghost.most
        BY <4>2, <2>1 DEF Locals, Ghost
      <4>5. /\ local'[i].todo = local[i].todo /\ local'[i].listed = local[i].listed
            /\ local'[i].fm = local[i].fm /\ local'[i].stale = {a \in Account : cache[a] # None}
        BY <4>1, <2>1 DEF Locals
      <4>7. local'[i] \in Locals
        <5>1. local'[i] = [local[i] EXCEPT !.stale = local'[i].stale, !.ghost = local'[i].ghost]
          BY <4>1, <4>2, <4>5, <2>1 DEF Locals
        <5>2. local'[i].stale \subseteq Account
          BY <4>5
        <5> QED
          BY <5>1, <5>2, <4>3, <2>1 DEF Locals
      <4>6. local'[i].ghost.alone <=> \A k \in Iter : ~InMap(k)
        BY <4>3, <3>2
      <4> QED
        BY <4>4, <4>5, <4>6, <4>7, <2>2
    <3>3. CASE ~\A k \in Iter : ~InMap(k)
      <4>1. local'[i] = [local[i] EXCEPT !.stale = {a \in Account : cache[a] # None}, !.ghost.alone = FALSE]
        BY <3>1, <3>3
      <4>2. local'[i].ghost = [local[i].ghost EXCEPT !.alone = FALSE]
        BY <4>1, <2>1 DEF Locals
      <4>3. local'[i].ghost \in Ghost /\ local'[i].ghost.alone = FALSE
        BY <4>2, <2>1 DEF Locals, Ghost
      <4>4. /\ local'[i].ghost.least = local[i].ghost.least
            /\ local'[i].ghost.most = local[i].ghost.most
        BY <4>2, <2>1 DEF Locals, Ghost
      <4>5. /\ local'[i].todo = local[i].todo /\ local'[i].listed = local[i].listed
            /\ local'[i].fm = local[i].fm /\ local'[i].stale = {a \in Account : cache[a] # None}
        BY <4>1, <2>1 DEF Locals
      <4>7. local'[i] \in Locals
        <5>1. local'[i] = [local[i] EXCEPT !.stale = local'[i].stale, !.ghost = local'[i].ghost]
          BY <4>1, <4>2, <4>5, <2>1 DEF Locals
        <5>2. local'[i].stale \subseteq Account
          BY <4>5
        <5> QED
          BY <5>1, <5>2, <4>3, <2>1 DEF Locals
      <4>6. local'[i].ghost.alone <=> \A k \in Iter : ~InMap(k)
        BY <4>3, <3>3
      <4> QED
        BY <4>4, <4>5, <4>6, <4>7, <2>2
    <3> QED
      BY <3>2, <3>3
  <2>3. CASE j # i /\ InMap(j)
    <3>1. local'[j] = [local[j] EXCEPT !.ghost.alone = FALSE]
      BY <2>3 DEF Seen
    <3>2. local'[j].ghost = [local[j].ghost EXCEPT !.alone = FALSE]
      BY <3>1, <2>1 DEF Locals
    <3>3. /\ local'[j].ghost \in Ghost /\ local'[j].ghost.alone = FALSE
          /\ local'[j].ghost.least = local[j].ghost.least
          /\ local'[j].ghost.most = local[j].ghost.most
      BY <3>2, <2>1 DEF Locals, Ghost
    <3>4. /\ local'[j].todo = local[j].todo /\ local'[j].listed = local[j].listed
          /\ local'[j].fm = local[j].fm /\ local'[j].stale = local[j].stale
          /\ local'[j] \in Locals
      BY <3>1, <3>2, <3>3, <2>1 DEF Locals
    <3> QED
      BY <3>3, <3>4, <2>3
  <2>4. CASE j # i /\ ~InMap(j)
    BY <2>1, <2>4 DEF Seen
  <2> QED
    BY <2>2, <2>3, <2>4
<1>3. local' \in [Iter -> Locals]
  <2>1. local' = [j \in Iter |-> local'[j]]
    BY DEF Seen
  <2> QED
    BY <2>1, <1>2
<1>4. TypeOK'
  BY <1>1, <1>3, <1>t, <1>u DEF TypeOK
<1>5. ListInv'
  <2>1. \A j \in Iter : pc'[j] = "none" => local'[j] = Fresh
    BY <1>1, <1>2 DEF OrgInv, UpdInv, ListInv, InMap, MapPhase
  <2> QED
    BY <2>1, <1>1, <1>2, <1>u DEF OrgInv, UpdInv, ListInv, Listing, After, MapPhase
<1>6. FmInv'
  BY <1>1, <1>2, <1>u DEF OrgInv, UpdInv, FmInv, After, MapPhase
<1>7. AloneInv'
  BY <1>1, <1>2 DEF OrgInv, UpdInv, AloneInv, InMap
<1>8. SoleInv'
  <2>1. local[i].fm = Empty
    BY <1>1 DEF OrgInv, UpdInv, FmInv
  <2>2. Part(i)'
    BY <2>1, <1>2, <1>u DEF Part, Empty
  <2>3. \A j \in Iter \ {i} : local'[j].ghost.alone => ~InMap(j)
    BY <1>2
  <2> QED
    BY <2>2, <2>3, <1>1 DEF SoleInv, InMap, MapPhase
<1>9. RegistryIsListing' /\ CacheIsRegistry'
  BY <1>1, <1>u DEF OrgInv, UpdInv, RegistryIsListing, CacheIsRegistry, InMap, MapPhase
<1>10. SendInv'
  BY <1>1, <1>2, <1>u DEF OrgInv, SendInv, MadeInv, Served, Forwarded
<1> QED
  BY <1>4, <1>5, <1>6, <1>7, <1>8, <1>9, <1>10 DEF OrgInv, UpdInv

LEMMA OrgReuse ==
  ASSUME OrgInv, NEW i \in Iter, NEW a \in Account, Reuse(i, a)
  PROVE  OrgInv'
<1>t. TypeOK
  BY DEF OrgInv
<1>u. UNCHANGED <<active, changes, cache, reg, truth, fetch, forwarder, hand, cancelled, crashed>>
  BY DEF Reuse, orgVars, sendVars, endVars
<1>1. pc[i] = "loop" /\ pc' = pc
  BY <1>t DEF Reuse, Goto, At, TypeOK
<1>0. /\ local[i] \in Locals /\ cache[a] # None /\ cache[a] \in Fetchers
      /\ a \in local[i].listed /\ local[i].fm[a] = None /\ local[i].fm \in MapOf(Fetchers)
  BY <1>t DEF Reuse, Missing, TypeOK, MapOf, Locals
<1>2. /\ account' \in [Iter -> Account \cup {None}] /\ account'[i] = a
      /\ \A j \in Iter \ {i} : account'[j] = account[j]
  BY <1>t DEF Reuse, At, TypeOK
<1>3. \A j \in Iter \ {i} : local'[j] = local[j]
  BY <1>t DEF Reuse, TypeOK
<1>e. /\ local'[i] = [local[i] EXCEPT !.fm[a] = cache[a], !.stale = @ \ {a}]
      /\ local' = [j \in Iter |-> local'[j]]
  BY <1>t DEF Reuse, TypeOK
<1>4. /\ local'[i].todo = local[i].todo /\ local'[i].listed = local[i].listed
      /\ local'[i].ghost = local[i].ghost /\ local'[i].stale = local[i].stale \ {a}
      /\ local'[i].fm = [local[i].fm EXCEPT ![a] = cache[a]]
      /\ local'[i] \in Locals
  <2>1. [local[i].fm EXCEPT ![a] = cache[a]] \in MapOf(Fetchers)
    BY <1>0 DEF MapOf
  <2>2. local'[i] = [local[i] EXCEPT !.fm = [local[i].fm EXCEPT ![a] = cache[a]], !.stale = @ \ {a}]
    BY <1>0, <1>e DEF Locals
  <2> QED
    BY <1>0, <2>1, <2>2 DEF Locals
<1>5. /\ local'[i].fm[a] = cache[a]
      /\ \A b \in Account \ {a} : local'[i].fm[b] = local[i].fm[b]
  BY <1>0, <1>4 DEF MapOf
<1>6. TypeOK'
  <2>1. local' \in [Iter -> Locals]
    BY <1>3, <1>4, <1>e, <1>t DEF TypeOK
  <2> QED
    BY <2>1, <1>1, <1>2, <1>t, <1>u DEF TypeOK
<1>7. ListInv'
  BY <1>1, <1>3, <1>4, <1>u DEF OrgInv, UpdInv, ListInv, Listing, After, MapPhase
<1>8. FmInv'
  <2>1. \A b \in Account : local'[i].fm[b] # None => b \in local'[i].listed
    BY <1>0, <1>1, <1>4, <1>5 DEF OrgInv, UpdInv, FmInv, After, MapPhase
  <2> QED
    BY <2>1, <1>1, <1>2, <1>3 DEF OrgInv, UpdInv, FmInv, After, MapPhase
<1>9. AloneInv'
  BY <1>1, <1>3, <1>4 DEF OrgInv, UpdInv, AloneInv, InMap
<1>10. SoleInv'
  <2>1. local[i].ghost.alone => Part(i)'
    BY <1>0, <1>1, <1>4, <1>5, <1>u DEF OrgInv, UpdInv, SoleInv, Part
  <2>2. ASSUME NEW j \in Iter \ {i}, local'[j].ghost.alone
        PROVE  /\ pc'[j] \in {"loop", "store", "sweep"} => Part(j)'
               /\ pc'[j] = "store" => cache'[account'[j]] = None
               /\ pc'[j] = "install" => cache' = local'[j].fm
    BY <2>2, <1>1, <1>2, <1>3, <1>u DEF OrgInv, UpdInv, SoleInv, Part
  <2> QED
    BY <2>1, <2>2, <1>1, <1>4 DEF SoleInv
<1>11. RegistryIsListing' /\ CacheIsRegistry'
  BY <1>1, <1>u DEF OrgInv, UpdInv, RegistryIsListing, CacheIsRegistry, InMap, MapPhase
<1>12. SendInv'
  <2>1. Served(local[i].fm)'
    BY <1>0, <1>5, <1>u DEF OrgInv, SendInv, MadeInv, Served
  <2>2. a # None
    BY NoneFacts
  <2>a. Served(cache)' /\ Served(reg)' /\ \A j \in Iter : Served(local[j].fm)'
    BY <2>1, <1>3, <1>u DEF OrgInv, SendInv, MadeInv, Served
  <2>b. \A j \in Iter : pc'[j] = "store" => account'[j] # None /\ forwarder'[<<j, account'[j]>>] # "none"
    BY <1>1, <1>2, <1>u DEF OrgInv, SendInv, MadeInv
  <2>c. \A g \in Fetchers : forwarder'[g] # "none" => account'[g[1]] # None
    BY <2>2, <1>2, <1>u DEF OrgInv, SendInv, MadeInv, Fetchers
  <2>3. MadeInv'
    BY <2>a, <2>b, <2>c, <1>u DEF OrgInv, SendInv, MadeInv
  <2> QED
    BY <2>3, <1>u DEF OrgInv, SendInv, Forwarded
<1> QED
  BY <1>6, <1>7, <1>8, <1>9, <1>10, <1>11, <1>12 DEF OrgInv, UpdInv

LEMMA OrgMake ==
  ASSUME OrgInv, NEW i \in Iter, NEW a \in Account, Make(i, a)
  PROVE  OrgInv'
<1>t. TypeOK
  BY DEF OrgInv
<1>u. UNCHANGED <<active, changes, local, cache, reg, truth, fetch, hand, cancelled, crashed>>
  BY DEF Make, orgVars, endVars
<1>1. /\ pc[i] = "loop" /\ pc' \in [Iter -> MapPhase \cup Ended \cup {"list", "seen"}]
      /\ pc'[i] = "store" /\ \A j \in Iter \ {i} : pc'[j] = pc[j]
  BY <1>t DEF Make, Goto, At, TypeOK, MapPhase
<1>0. cache[a] = None /\ a \in local[i].listed /\ local[i].fm[a] = None /\ a # None
  BY NoneFacts DEF Make, Missing
<1>2. /\ account' \in [Iter -> Account \cup {None}] /\ account'[i] = a
      /\ \A j \in Iter \ {i} : account'[j] = account[j]
  BY <1>t DEF Make, At, TypeOK
<1>3. /\ forwarder' \in [Fetchers -> {"none", "idle", "busy", "gone"}]
      /\ forwarder'[<<i, a>>] = "idle"
      /\ \A g \in Fetchers \ {<<i, a>>} : forwarder'[g] = forwarder[g]
  BY <1>t DEF Make, At, TypeOK, Fetchers
<1>4. \A g \in Fetchers : forwarder[g] # "none" => forwarder'[g] # "none"
  BY <1>3
<1>5. TypeOK'
  BY <1>1, <1>2, <1>3, <1>t, <1>u DEF TypeOK
<1>6. ListInv'
  BY <1>1, <1>u DEF OrgInv, UpdInv, ListInv, Listing, After, MapPhase
<1>7. FmInv'
  BY <1>0, <1>1, <1>2, <1>u DEF OrgInv, UpdInv, FmInv, After, MapPhase
<1>8. AloneInv'
  BY <1>1, <1>u DEF OrgInv, UpdInv, AloneInv, InMap, MapPhase
<1>9. SoleInv'
  BY <1>0, <1>1, <1>2, <1>u DEF OrgInv, UpdInv, SoleInv, Part
<1>10. RegistryIsListing' /\ CacheIsRegistry'
  BY <1>1, <1>u DEF OrgInv, UpdInv, RegistryIsListing, CacheIsRegistry, InMap, MapPhase
<1>11. SendInv'
  <2>1. \A f \in MapOf(Fetchers) : Served(f) => Served(f)'
    BY <1>4 DEF Served, MapOf
  <2>2. Served(cache)' /\ Served(reg)' /\ \A j \in Iter : Served(local[j].fm)'
    BY <1>4, <1>t, <1>u DEF OrgInv, SendInv, MadeInv, Served, TypeOK, MapOf, Locals
  <2>3. ASSUME NEW j \in Iter, pc'[j] = "store"
        PROVE  account'[j] # None /\ forwarder'[<<j, account'[j]>>] # "none"
    <3>1. CASE j = i
      BY <3>1, <1>0, <1>2, <1>3
    <3>2. CASE j # i
      <4>1. account[j] # None /\ forwarder[<<j, account[j]>>] # "none" /\ account'[j] = account[j]
        BY <3>2, <2>3, <1>1, <1>2 DEF OrgInv, SendInv, MadeInv
      <4>2. <<j, account[j]>> \in Fetchers
        BY <4>1, <1>t DEF TypeOK, Fetchers
      <4> QED
        BY <4>1, <4>2, <1>4
    <3> QED
      BY <3>1, <3>2
  <2>4. ASSUME NEW g \in Fetchers, forwarder'[g] # "none"
        PROVE  account'[g[1]] # None
    <3>1. g[1] \in Iter
      BY DEF Fetchers
    <3>2. CASE g[1] = i
      BY <3>2, <1>0, <1>2
    <3>3. CASE g[1] # i
      <4>1. g # <<i, a>>
        BY <3>3
      <4> QED
        BY <4>1, <3>1, <3>3, <2>4, <1>2, <1>3 DEF OrgInv, SendInv, MadeInv
    <3> QED
      BY <3>2, <3>3
  <2>5. \A g \in Fetchers : forwarder'[g] = "gone" => forwarder[g] = "gone"
    BY <1>3
  <2>6. MadeInv'
    BY <2>2, <2>3, <2>4, <2>5, <1>u DEF OrgInv, SendInv, MadeInv
  <2>7. Forwarded'
    BY <1>4, <2>5, <1>u DEF OrgInv, SendInv, Forwarded
  <2> QED
    BY <2>6, <2>7 DEF SendInv
<1> QED
  BY <1>5, <1>6, <1>7, <1>8, <1>9, <1>10, <1>11 DEF OrgInv, UpdInv

LEMMA OrgStore ==
  ASSUME OrgInv, NEW i \in Iter, Store(i)
  PROVE  OrgInv'
<1> DEFINE a == account[i]
<1>t. TypeOK
  BY DEF OrgInv
<1>u. UNCHANGED <<active, changes, account, reg, truth, fetch, forwarder, hand, cancelled, crashed>>
  BY DEF Store, orgVars, sendVars, endVars
<1>1. /\ pc[i] = "store" /\ pc' \in [Iter -> MapPhase \cup Ended \cup {"list", "seen"}]
      /\ pc'[i] = "loop" /\ \A j \in Iter \ {i} : pc'[j] = pc[j]
  BY <1>t DEF Store, Goto, At, TypeOK, MapPhase
<1>0. /\ local[i] \in Locals /\ a \in Account /\ a \in local[i].listed
      /\ <<i, a>> \in Fetchers /\ forwarder[<<i, a>>] # "none"
      /\ local[i].fm \in MapOf(Fetchers)
  BY <1>t, <1>1 DEF OrgInv, UpdInv, FmInv, SendInv, MadeInv, TypeOK, Locals, Fetchers
<1>2. /\ cache' \in MapOf(Fetchers) /\ cache'[a] = <<i, a>>
      /\ \A b \in Account \ {a} : cache'[b] = cache[b]
  BY <1>t, <1>0 DEF Store, At, TypeOK, MapOf
<1>3. \A j \in Iter \ {i} : local'[j] = local[j]
  BY <1>t DEF Store, TypeOK
<1>e. /\ local'[i] = [local[i] EXCEPT !.fm[a] = <<i, a>>]
      /\ local' = [j \in Iter |-> local'[j]]
  BY <1>t DEF Store, TypeOK
<1>4. /\ local'[i].todo = local[i].todo /\ local'[i].listed = local[i].listed
      /\ local'[i].ghost = local[i].ghost /\ local'[i].stale = local[i].stale
      /\ local'[i].fm = [local[i].fm EXCEPT ![a] = <<i, a>>]
      /\ local'[i] \in Locals
  <2>1. [local[i].fm EXCEPT ![a] = <<i, a>>] \in MapOf(Fetchers)
    BY <1>0 DEF MapOf
  <2>2. local'[i] = [local[i] EXCEPT !.fm = [local[i].fm EXCEPT ![a] = <<i, a>>]]
    BY <1>0, <1>e DEF Locals
  <2> QED
    BY <1>0, <2>1, <2>2 DEF Locals
<1>5. /\ local'[i].fm[a] = <<i, a>>
      /\ \A b \in Account \ {a} : local'[i].fm[b] = local[i].fm[b]
  BY <1>0, <1>4 DEF MapOf
<1> HIDE DEF a
<1>6. TypeOK'
  <2>1. local' \in [Iter -> Locals]
    BY <1>3, <1>4, <1>e, <1>t DEF TypeOK
  <2> QED
    BY <2>1, <1>1, <1>2, <1>t, <1>u DEF TypeOK
<1>7. ListInv'
  BY <1>1, <1>3, <1>4, <1>u DEF OrgInv, UpdInv, ListInv, Listing, After, MapPhase
<1>8. FmInv'
  <2>1. \A b \in Account : local'[i].fm[b] # None => b \in local'[i].listed
    BY <1>0, <1>1, <1>4, <1>5 DEF OrgInv, UpdInv, FmInv, After, MapPhase
  <2> QED
    BY <2>1, <1>1, <1>3, <1>u DEF OrgInv, UpdInv, FmInv, After, MapPhase
<1>9. AloneInv'
  BY <1>1, <1>3, <1>4 DEF OrgInv, UpdInv, AloneInv, InMap, MapPhase
<1>10. SoleInv'
  <2>1. ASSUME local'[i].ghost.alone
        PROVE  Part(i)'
    <3>1. local[i].ghost.alone /\ Part(i) /\ cache[a] = None
      BY <2>1, <1>1, <1>4 DEF OrgInv, UpdInv, SoleInv, a
    <3>2. local[i].fm[a] = None /\ a \notin local[i].stale
      BY <3>1, <1>0, NoneFacts DEF Part
    <3> QED
      BY <3>1, <3>2, <1>0, <1>2, <1>4, <1>5, NoneFacts DEF Part
  <2>2. ASSUME NEW j \in Iter \ {i}, InMap(j)
        PROVE  ~local'[j].ghost.alone
    BY <2>2, <1>1, <1>3 DEF OrgInv, UpdInv, AloneInv, InMap, MapPhase
  <2> QED
    BY <2>1, <2>2, <1>1, <1>3 DEF SoleInv, InMap, MapPhase
<1>11. RegistryIsListing' /\ CacheIsRegistry'
  BY <1>1, <1>u DEF OrgInv, UpdInv, RegistryIsListing, CacheIsRegistry, InMap, MapPhase
<1>12. SendInv'
  <2>1. Served(cache)'
    BY <1>0, <1>2, <1>u DEF OrgInv, SendInv, MadeInv, Served
  <2>2. Served(local[i].fm)'
    BY <1>0, <1>5, <1>u DEF OrgInv, SendInv, MadeInv, Served
  <2>3. Served(reg)' /\ \A j \in Iter : Served(local[j].fm)'
    BY <2>2, <1>3, <1>u DEF OrgInv, SendInv, MadeInv, Served
  <2>4. MadeInv'
    BY <2>1, <2>3, <1>1, <1>u DEF OrgInv, SendInv, MadeInv
  <2> QED
    BY <2>4, <1>u DEF OrgInv, SendInv, Forwarded
<1> QED
  BY <1>6, <1>7, <1>8, <1>9, <1>10, <1>11, <1>12 DEF OrgInv, UpdInv

LEMMA OrgLoopEnds ==
  ASSUME OrgInv, NEW i \in Iter, LoopEnds(i)
  PROVE  OrgInv'
<1>t. TypeOK
  BY DEF OrgInv
<1>u. UNCHANGED <<active, changes, local, account, cache, reg, truth, fetch, forwarder, hand, cancelled, crashed>>
  BY DEF LoopEnds, orgVars, sendVars, endVars
<1>1. /\ pc[i] = "loop" /\ pc' \in [Iter -> MapPhase \cup Ended \cup {"list", "seen"}]
      /\ pc'[i] = "sweep" /\ \A j \in Iter \ {i} : pc'[j] = pc[j]
  BY <1>t DEF LoopEnds, Goto, At, TypeOK, MapPhase
<1>2. \A a \in local[i].listed : local[i].fm[a] # None
  BY <1>t DEF LoopEnds, Missing, TypeOK, Locals
<1>4. TypeOK'
  BY <1>1, <1>t, <1>u DEF TypeOK
<1>5. ListInv'
  BY <1>1, <1>u DEF OrgInv, UpdInv, ListInv, Listing, After, MapPhase
<1>6. FmInv'
  BY <1>1, <1>2, <1>u DEF OrgInv, UpdInv, FmInv, After, MapPhase
<1>7. AloneInv' /\ SoleInv'
  BY <1>1, <1>u DEF OrgInv, UpdInv, AloneInv, SoleInv, Part, InMap, MapPhase
<1>8. RegistryIsListing' /\ CacheIsRegistry'
  BY <1>1, <1>u DEF OrgInv, UpdInv, RegistryIsListing, CacheIsRegistry, InMap, MapPhase
<1>9. SendInv'
  BY <1>1, <1>u DEF OrgInv, SendInv, MadeInv, Served, Forwarded
<1> QED
  BY <1>4, <1>5, <1>6, <1>7, <1>8, <1>9 DEF OrgInv, UpdInv

LEMMA OrgSweep ==
  ASSUME OrgInv, NEW i \in Iter, Sweep(i)
  PROVE  OrgInv'
<1>t. TypeOK
  BY DEF OrgInv
<1>u. UNCHANGED <<active, changes, local, account, reg, truth, fetch, forwarder, hand, cancelled, crashed>>
  BY DEF Sweep, orgVars, sendVars, endVars
<1>1. /\ pc[i] = "sweep" /\ pc' \in [Iter -> MapPhase \cup Ended \cup {"list", "seen"}]
      /\ pc'[i] = "install" /\ \A j \in Iter \ {i} : pc'[j] = pc[j]
  BY <1>t DEF Sweep, Goto, At, TypeOK, MapPhase
<1>2. /\ cache' \in MapOf(Fetchers)
      /\ \A a \in Account : cache'[a] = IF a \in local[i].stale THEN None ELSE cache[a]
  BY <1>t DEF Sweep, WithoutStale, TypeOK, MapOf
<1>4. TypeOK'
  BY <1>1, <1>2, <1>t, <1>u DEF TypeOK
<1>5. ListInv'
  BY <1>1, <1>u DEF OrgInv, UpdInv, ListInv, Listing, After, MapPhase
<1>6. FmInv'
  BY <1>1, <1>u DEF OrgInv, UpdInv, FmInv, After, MapPhase
<1>7. AloneInv'
  BY <1>1, <1>u DEF OrgInv, UpdInv, AloneInv, InMap, MapPhase
<1>8. SoleInv'
  <2>1. ASSUME local[i].ghost.alone
        PROVE  cache' = local[i].fm
    <3>1. Part(i)
      BY <2>1, <1>1 DEF OrgInv, UpdInv, SoleInv
    <3>2. local[i].fm \in MapOf(Fetchers)
      BY <1>t DEF TypeOK, Locals
    <3>3. \A a \in Account : cache'[a] = local[i].fm[a]
      BY <3>1, <1>2 DEF Part
    <3> QED
      BY <3>2, <3>3, <1>2 DEF MapOf
  <2>2. ASSUME NEW j \in Iter \ {i}, InMap(j)
        PROVE  ~local[j].ghost.alone
    BY <2>2, <1>1 DEF OrgInv, UpdInv, AloneInv, InMap, MapPhase
  <2> QED
    BY <2>1, <2>2, <1>1, <1>u DEF SoleInv, InMap, MapPhase
<1>9. RegistryIsListing' /\ CacheIsRegistry'
  BY <1>1, <1>u DEF OrgInv, UpdInv, RegistryIsListing, CacheIsRegistry, InMap, MapPhase
<1>10. SendInv'
  <2>1. Served(cache)'
    BY <1>2, <1>u DEF OrgInv, SendInv, MadeInv, Served
  <2>2. MadeInv'
    BY <2>1, <1>1, <1>u DEF OrgInv, SendInv, MadeInv, Served
  <2> QED
    BY <2>2, <1>u DEF OrgInv, SendInv, Forwarded
<1> QED
  BY <1>4, <1>5, <1>6, <1>7, <1>8, <1>9, <1>10 DEF OrgInv, UpdInv

LEMMA OrgInstall ==
  ASSUME OrgInv, NEW i \in Iter, Install(i)
  PROVE  OrgInv'
<1>t. TypeOK
  BY DEF OrgInv
<1>u. UNCHANGED <<active, changes, account, cache, fetch, forwarder, hand, cancelled, crashed>>
  BY DEF Install, orgVars, sendVars, endVars
<1>1. /\ pc[i] = "install" /\ pc' \in [Iter -> MapPhase \cup Ended \cup {"list", "seen"}]
      /\ pc'[i] = "done" /\ \A j \in Iter \ {i} : pc'[j] = pc[j]
  BY <1>t DEF Install, Goto, At, TypeOK, Ended
<1>2. /\ local' \in [Iter -> Locals] /\ local'[i] = Fresh
      /\ \A j \in Iter \ {i} : local'[j] = local[j]
  BY <1>t, NoneFacts DEF Install, At, TypeOK
<1>3. /\ reg' = local[i].fm /\ truth' = local[i].ghost
      /\ local[i].fm \in MapOf(Fetchers) /\ local[i].ghost \in Ghost
      /\ local[i].listed \subseteq Account
  BY <1>t DEF Install, TypeOK, Locals
<1>4. TypeOK'
  BY <1>1, <1>2, <1>3, <1>t, <1>u DEF TypeOK
<1>5. ListInv'
  BY <1>1, <1>2, <1>u DEF OrgInv, UpdInv, ListInv, Listing, After, MapPhase
<1>6. FmInv'
  BY <1>1, <1>2, <1>u DEF OrgInv, UpdInv, FmInv, After, MapPhase
<1>7. AloneInv' /\ SoleInv'
  BY <1>1, <1>2, <1>u DEF OrgInv, UpdInv, AloneInv, SoleInv, Part, InMap, MapPhase
<1>8. RegistryIsListing'
  <2>1. \A a \in Account : reg'[a] # None <=> a \in local[i].listed
    BY <1>1, <1>3 DEF OrgInv, UpdInv, FmInv, After, MapPhase
  <2>2. truth'.least \subseteq local[i].listed /\ local[i].listed \subseteq truth'.most
    BY <1>1, <1>3 DEF OrgInv, UpdInv, ListInv, After, MapPhase
  <2> QED
    BY <2>1, <2>2, <1>3 DEF RegistryIsListing
<1>9. CacheIsRegistry'
  <2>1. local[i].ghost.alone => cache = local[i].fm
    BY <1>1 DEF OrgInv, UpdInv, SoleInv
  <2> QED
    BY <2>1, <1>3, <1>u DEF CacheIsRegistry
<1>10. SendInv'
  <2>1. Served(reg)'
    BY <1>3, <1>u DEF OrgInv, SendInv, MadeInv, Served
  <2>2. \A j \in Iter : Served(local[j].fm)'
    BY <1>2, <1>u DEF OrgInv, SendInv, MadeInv, Served, Fresh, Empty
  <2>3. MadeInv'
    BY <2>1, <2>2, <1>1, <1>u DEF OrgInv, SendInv, MadeInv, Served
  <2> QED
    BY <2>3, <1>u DEF OrgInv, SendInv, Forwarded
<1> QED
  BY <1>4, <1>5, <1>6, <1>7, <1>8, <1>9, <1>10 DEF OrgInv, UpdInv

-----------------------------------------------------------------------------
LEMMA OrgNext == OrgInv /\ [Next]_vars => OrgInv'
<1> SUFFICES ASSUME OrgInv, [Next]_vars PROVE OrgInv'
  OBVIOUS
<1>t. TypeOK
  BY DEF OrgInv
<1>1. CASE UNCHANGED vars
  <2>1. TypeOK'
    BY <1>1, <1>t DEF vars, orgVars, updVars, sendVars, endVars, TypeOK
  <2> QED
    BY <1>1, <2>1, UpdStutter, SendStutter DEF vars, orgVars, updVars, sendVars, endVars, OrgInv
<1>2. ASSUME NEW i \in Iter, NEW j \in Iter, MapRace(i, j)
      PROVE  OrgInv'
  <2>1. TypeOK'
    BY <1>2, <1>t DEF MapRace, orgVars, updVars, sendVars, TypeOK
  <2> QED
    BY <1>2, <2>1, UpdStutter, SendStutter DEF MapRace, orgVars, updVars, sendVars, OrgInv
<1>3. ASSUME NEW i \in Iter, UpdateStep(i)
      PROVE  OrgInv'
  BY <1>2, <1>3, OrgStart, OrgListFails, OrgLookUp, OrgListEnds, OrgSeen, OrgReuse, OrgMake, OrgStore,
     OrgLoopEnds, OrgSweep, OrgInstall DEF UpdateStep
<1> QED
  BY <1>1, <1>3, OrgSend, OrgStop, OrgChange DEF Next

(* The inductive invariant of the organization's registry.                 *)
THEOREM OrgInvariant == Spec => []OrgInv
  BY OrgInit, OrgNext, PTL DEF Spec

(* Type correctness.                                                       *)
THEOREM OrgTypeOK == Spec => []TypeOK
<1>1. OrgInv => TypeOK
  BY DEF OrgInv
<1> QED
  BY <1>1, OrgInvariant, PTL

(* Whoever has found something has a forwarder to give it to.              *)
THEOREM OrgForwarded == Spec => []Forwarded
<1>1. OrgInv => Forwarded
  BY DEF OrgInv, SendInv
<1> QED
  BY <1>1, OrgInvariant, PTL

(* What is registered is one listing of the organization.                  *)
THEOREM OrgRegistryIsListing == Spec => []RegistryIsListing
<1>1. OrgInv => RegistryIsListing
  BY DEF OrgInv, UpdInv
<1> QED
  BY <1>1, OrgInvariant, PTL

(* After an update that had the cache to itself, the cache is what is      *)
(* registered.                                                             *)
THEOREM OrgCacheIsRegistry == Spec => []CacheIsRegistry
<1>1. OrgInv => CacheIsRegistry
  BY DEF OrgInv, UpdInv
<1> QED
  BY <1>1, OrgInvariant, PTL

-----------------------------------------------------------------------------
(* What an update that has the cache to itself, after one that had it to   *)
(* itself, puts into its map is what is registered, and so is what it may  *)
(* still find in the cache.                                                *)
Keeps(i) ==
  \A a \in Account :
    /\ local[i].fm[a] # None /\ reg[a] # None => local[i].fm[a] = reg[a]
    /\ pc[i] \in {"loop", "store"} /\ local[i].fm[a] = None => cache[a] = reg[a]
KeepInv == \A i \in Iter : InMap(i) /\ local[i].ghost.alone /\ truth.alone => Keeps(i)

(* Steps that do nothing to such an update, its cache, or what is          *)
(* registered.                                                             *)
LEMMA KeepStutter ==
  ASSUME KeepInv, UNCHANGED <<reg, truth>>,
         \A i \in Iter : InMap(i)' /\ local'[i].ghost.alone =>
           /\ InMap(i) /\ local[i].ghost.alone /\ local'[i].fm = local[i].fm
           /\ pc'[i] \in {"loop", "store"} => pc[i] \in {"loop", "store"} /\ cache' = cache
  PROVE  KeepInv'
  BY DEF KeepInv, Keeps

LEMMA KeepChange ==
  ASSUME OrgInv, KeepInv, NEW a \in Account, Open(a) \/ Close(a)
  PROVE  KeepInv'
<1>1. UNCHANGED <<pc, cache, reg, truth>>
  BY DEF Open, Close
<1>2. ASSUME NEW i \in Iter, InMap(i)
      PROVE  local'[i] = local[i]
  BY <1>2 DEF Open, Close, InMap, MapPhase
<1> QED
  BY <1>1, <1>2, KeepStutter DEF InMap

(* An update that starts, fails, ends its listing or its loop, or sweeps.  *)
LEMMA KeepPlain ==
  ASSUME OrgInv, KeepInv, NEW i \in Iter,
         \/ StartUpdate(i) \/ ListFails(i) \/ ListEnds(i) \/ LoopEnds(i) \/ Sweep(i)
         \/ \E a \in Account : LookUp(i, a) \/ Make(i, a)
         \/ \E j \in Iter : MapRace(i, j)
  PROVE  KeepInv'
<1>t. TypeOK
  BY DEF OrgInv
<1>1. UNCHANGED <<reg, truth>>
  BY DEF StartUpdate, ListFails, ListEnds, LoopEnds, Sweep, LookUp, Make, MapRace
<1>2. \A j \in Iter \ {i} : pc'[j] = pc[j] /\ local'[j] = local[j]
  BY <1>t DEF TypeOK, StartUpdate, ListFails, ListEnds, LoopEnds, Sweep, LookUp, Make, MapRace, Goto, At, updVars
<1>3. pc'[i] \in MapPhase => pc[i] \in MapPhase /\ local'[i] = local[i]
  BY <1>t DEF TypeOK, StartUpdate, ListFails, ListEnds, LoopEnds, Sweep, LookUp, Make, MapRace, Goto, At,
         updVars, MapPhase
<1>4. pc'[i] \in {"loop", "store"} => pc[i] \in {"loop", "store"} /\ cache' = cache
  BY <1>t DEF TypeOK, StartUpdate, ListFails, ListEnds, LoopEnds, Sweep, LookUp, Make, MapRace, Goto, At, updVars
<1>5. cache' # cache => pc[i] = "sweep"
  BY DEF StartUpdate, ListFails, ListEnds, LoopEnds, Sweep, LookUp, Make, MapRace, Goto
<1>6. ASSUME NEW j \in Iter \ {i}, InMap(j), local[j].ghost.alone
      PROVE  cache' = cache
  BY <1>5, <1>6 DEF OrgInv, UpdInv, AloneInv, InMap, MapPhase
<1> QED
  BY <1>1, <1>2, <1>3, <1>4, <1>6, KeepStutter DEF InMap

(* An update that finds nobody in the cache finds what is registered.      *)
LEMMA KeepSeen ==
  ASSUME OrgInv, KeepInv, NEW i \in Iter, Seen(i)
  PROVE  KeepInv'
<1>t. TypeOK
  BY DEF OrgInv
<1>1. /\ pc[i] = "seen" /\ pc'[i] = "loop" /\ \A j \in Iter \ {i} : pc'[j] = pc[j]
      /\ UNCHANGED <<cache, reg, truth>>
  BY <1>t DEF Seen, Goto, At, TypeOK
<1>2. local[i] \in Locals /\ local[i].fm = Empty
  BY <1>1, <1>t DEF OrgInv, UpdInv, FmInv, TypeOK
<1>3. local'[i].fm = Empty /\ (local'[i].ghost.alone => \A k \in Iter : ~InMap(k))
  BY <1>2 DEF Seen, Locals, Ghost
<1>4. \A j \in Iter \ {i} : InMap(j) => ~local'[j].ghost.alone
  <2> SUFFICES ASSUME NEW j \in Iter \ {i}, InMap(j) PROVE ~local'[j].ghost.alone
    OBVIOUS
  <2>1. local'[j] = [local[j] EXCEPT !.ghost.alone = FALSE]
    BY DEF Seen
  <2> QED
    BY <2>1, <1>t DEF TypeOK, Locals, Ghost
<1>5. ASSUME local'[i].ghost.alone, truth.alone
      PROVE  Keeps(i)'
  <2>1. cache = reg
    BY <1>3, <1>5 DEF OrgInv, UpdInv, CacheIsRegistry
  <2> QED
    BY <2>1, <1>1, <1>3 DEF Keeps, Empty
<1> QED
  BY <1>1, <1>4, <1>5 DEF KeepInv, InMap

LEMMA KeepReuse ==
  ASSUME OrgInv, KeepInv, NEW i \in Iter, NEW a \in Account, Reuse(i, a)
  PROVE  KeepInv'
<1>t. TypeOK
  BY DEF OrgInv
<1>1. pc[i] = "loop" /\ pc' = pc /\ UNCHANGED <<cache, reg, truth>>
  BY <1>t DEF Reuse, Goto, At, TypeOK
<1>2. /\ \A j \in Iter \ {i} : local'[j] = local[j]
      /\ local[i].fm[a] = None
      /\ local'[i].ghost = local[i].ghost /\ local'[i].fm = [local[i].fm EXCEPT ![a] = cache[a]]
  BY <1>t DEF Reuse, Missing, TypeOK, Locals
<1>3. local'[i].fm[a] = cache[a] /\ \A b \in Account \ {a} : local'[i].fm[b] = local[i].fm[b]
  BY <1>2, <1>t DEF TypeOK, Locals, MapOf
<1>4. ASSUME local[i].ghost.alone, truth.alone
      PROVE  Keeps(i)'
  <2>1. Keeps(i)
    BY <1>1, <1>4 DEF KeepInv, InMap, MapPhase
  <2>2. cache[a] = reg[a]
    BY <2>1, <1>1, <1>2 DEF Keeps
  <2> QED
    BY <2>1, <2>2, <1>1, <1>3 DEF Keeps
<1>5. ASSUME NEW j \in Iter \ {i}, Keeps(j)
      PROVE  Keeps(j)'
  BY <1>1, <1>2, <1>5 DEF Keeps
<1>6. ASSUME NEW j \in Iter, InMap(j)', local'[j].ghost.alone, truth.alone
      PROVE  Keeps(j)'
  <2>1. CASE j = i
    BY <1>2, <1>4, <1>6, <2>1
  <2>2. CASE j # i
    BY <1>1, <1>2, <1>5, <1>6, <2>2 DEF KeepInv, InMap
  <2> QED
    BY <2>1, <2>2
<1> QED
  BY <1>1, <1>6 DEF KeepInv

(* What it makes, it makes for an account that is not registered.          *)
LEMMA KeepStore ==
  ASSUME OrgInv, KeepInv, NEW i \in Iter, Store(i)
  PROVE  KeepInv'
<1>t. TypeOK
  BY DEF OrgInv
<1> DEFINE a == account[i]
<1>1. /\ pc[i] = "store" /\ pc'[i] = "loop" /\ \A j \in Iter \ {i} : pc'[j] = pc[j]
      /\ UNCHANGED <<reg, truth>>
  BY <1>t DEF Store, Goto, At, TypeOK
<1>2. a \in Account
  BY <1>1, <1>t DEF OrgInv, UpdInv, FmInv, TypeOK, Locals
<1>3. cache' = [cache EXCEPT ![a] = <<i, a>>] /\ cache \in MapOf(Fetchers)
  BY <1>t DEF Store, At, TypeOK
<1>4. /\ \A j \in Iter \ {i} : local'[j] = local[j]
      /\ local'[i].ghost = local[i].ghost /\ local'[i].fm = [local[i].fm EXCEPT ![a] = <<i, a>>]
      /\ local[i].fm \in MapOf(Fetchers)
  BY <1>t DEF Store, TypeOK, Locals
<1>n. <<i, a>> # None
  BY <1>2, NoneFacts DEF Fetchers
<1>p. pc[i] = "store" /\ local[i].ghost.alone => Part(i) /\ cache[a] = None
  BY DEF OrgInv, UpdInv, SoleInv
<1> HIDE DEF a
<1>5. /\ local'[i].fm[a] = <<i, a>> /\ \A b \in Account \ {a} : local'[i].fm[b] = local[i].fm[b]
      /\ \A b \in Account \ {a} : cache'[b] = cache[b]
  BY <1>2, <1>3, <1>4 DEF MapOf
<1>6. ASSUME local[i].ghost.alone, truth.alone
      PROVE  Keeps(i)'
  <2>1. Keeps(i)
    BY <1>1, <1>6 DEF KeepInv, InMap, MapPhase
  <2>2. local[i].fm[a] = None
    BY <1>1, <1>2, <1>6, <1>p DEF Part
  <2>3. reg[a] = None
    BY <2>1, <2>2, <1>1, <1>2, <1>6, <1>p DEF Keeps
  <2> QED
    BY <2>1, <2>3, <1>1, <1>n, <1>5 DEF Keeps
<1>7. ASSUME NEW j \in Iter \ {i}, InMap(j)
      PROVE  ~local[j].ghost.alone
  BY <1>1, <1>7 DEF OrgInv, UpdInv, AloneInv, InMap, MapPhase
<1> QED
  BY <1>1, <1>4, <1>6, <1>7 DEF KeepInv, InMap

(* Nobody else is in the cache while such an update installs its map.      *)
LEMMA KeepInstall ==
  ASSUME OrgInv, KeepInv, NEW i \in Iter, Install(i)
  PROVE  KeepInv'
<1>t. TypeOK
  BY DEF OrgInv
<1>1. /\ pc[i] = "install" /\ pc'[i] = "done" /\ \A j \in Iter \ {i} : pc'[j] = pc[j]
      /\ \A j \in Iter \ {i} : local'[j] = local[j]
  BY <1>t DEF Install, Goto, At, TypeOK
<1>2. ASSUME NEW j \in Iter \ {i}, InMap(j)
      PROVE  ~local[j].ghost.alone
  BY <1>1, <1>2 DEF OrgInv, UpdInv, AloneInv, InMap, MapPhase
<1> QED
  BY <1>1, <1>2 DEF KeepInv, InMap, MapPhase

LEMMA KeepNext == OrgInv /\ KeepInv /\ [Next]_vars => KeepInv'
<1> SUFFICES ASSUME OrgInv, KeepInv, [Next]_vars PROVE KeepInv'
  OBVIOUS
<1>1. ASSUME UNCHANGED <<updVars, cache, reg, truth>>
      PROVE  KeepInv'
  BY <1>1 DEF updVars, KeepInv, Keeps, InMap
<1>2. CASE UNCHANGED vars
  BY <1>1, <1>2 DEF vars
<1>3. CASE Stop
  BY <1>1, <1>3 DEF Stop
<1>4. ASSUME NEW g \in Fetchers, SendStep(g)
      PROVE  KeepInv'
  BY <1>1, <1>4 DEF SendStep, Find, GiveUp, Take, Forward, Leave
<1>5. ASSUME NEW i \in Iter, UpdateStep(i)
      PROVE  KeepInv'
  BY <1>5, KeepPlain, KeepSeen, KeepReuse, KeepStore, KeepInstall DEF UpdateStep
<1> QED
  BY <1>2, <1>3, <1>4, <1>5, KeepChange DEF Next

(* Only the end of an update changes what is registered.                   *)
LEMMA KeepStep ==
  OrgInv /\ KeepInv /\ [Next]_vars =>
    (truth.alone /\ truth'.alone =>
       \A a \in Account : reg[a] # None /\ reg'[a] # None => reg'[a] = reg[a])
<1> SUFFICES ASSUME OrgInv, KeepInv, [Next]_vars, truth.alone, truth'.alone,
                    NEW a \in Account, reg[a] # None, reg'[a] # None
             PROVE  reg'[a] = reg[a]
  OBVIOUS
<1>1. CASE reg' = reg
  BY <1>1
<1>2. ASSUME NEW i \in Iter, Install(i)
      PROVE  reg'[a] = reg[a]
  <2>1. pc[i] = "install" /\ reg' = local[i].fm /\ truth' = local[i].ghost
    BY <1>2 DEF Install, Goto
  <2> QED
    BY <2>1 DEF KeepInv, Keeps, InMap, MapPhase
<1>3. ASSUME NEW b \in Account, Open(b) \/ Close(b) PROVE reg' = reg
  BY <1>3 DEF Open, Close
<1>4. ASSUME NEW g \in Fetchers, SendStep(g) PROVE reg' = reg
  BY <1>4 DEF SendStep, Find, GiveUp, Take, Forward, Leave
<1>5. ASSUME NEW i \in Iter, UpdateStep(i), ~Install(i) PROVE reg' = reg
  BY <1>5 DEF UpdateStep, StartUpdate, ListFails, ListEnds, Seen, Store, LoopEnds, Sweep, LookUp, Reuse, Make, MapRace
<1> QED
  BY <1>1, <1>2, <1>3, <1>4, <1>5 DEF Next, Stop, vars

(* From one update that had the cache to itself to the next, an account    *)
(* that stays keeps its fetchers.                                          *)
THEOREM OrgKeepsFetchers == Spec => KeepsFetchers
<1>1. Init => KeepInv
  BY DEF Init, KeepInv, InMap, MapPhase
<1>2. Spec => [](OrgInv /\ KeepInv)
  BY <1>1, OrgInit, OrgNext, KeepNext, PTL DEF Spec
<1> QED
  BY <1>2, KeepStep, PTL DEF Spec, KeepsFetchers
=============================================================================
