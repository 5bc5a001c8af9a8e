----------------------------- MODULE CycleCache -----------------------------
(***************************************************************************)
(* resources/fetching/cycle: Cache.GetValue, the double-checked cache the  *)
(* Azure providers share between fetchers.  A cached value is the cycle it *)
(* was fetched in, stored once per machine word of its type T (a map is    *)
(* one word, a slice three): the fast path reads it with no lock held.     *)
(***************************************************************************)
EXTENDS Integers

CONSTANTS Callers,    \* goroutines that call GetValue
          MaxCycle,   \* bound on cycle.Metadata.Sequence
          Words       \* machine words of T

ASSUME CacheAssumption == MaxCycle \in Nat /\ Words \in Nat \ {0}

VARIABLES
  lastCycle,     \* c.lastCycle.Sequence, -1 before the first success
  cachedValue,   \* c.cachedValue, word by word
  writer,        \* the caller that holds c.mu for writing, or Nobody
  pc,            \* where each caller is
  cycle,         \* the cycle each caller asked for
  word,          \* how many words the caller has read or written
  result,        \* what its GetValue returned or has read so far
  failed,        \* did fetch fail in its last call?
  seen,          \* history: the n such that a call has returned words >= n only
  floor          \* history: seen when the caller's last call began

vars == <<lastCycle, cachedValue, writer, pc, cycle, word, result, failed, seen, floor>>

Cycle == 0..MaxCycle
None == -1                    \* the zero value of T
Word == 1..Words
Whole(v) == [w \in Word |-> v]
Nobody == "nobody"

ASSUME NobodyAssumption == Nobody \notin Callers

Init ==
  /\ lastCycle = None /\ cachedValue = Whole(None) /\ writer = Nobody
  /\ pc = [c \in Callers |-> "idle"]
  /\ cycle = [c \in Callers |-> 0]
  /\ word = [c \in Callers |-> 0]
  /\ result = [c \in Callers |-> Whole(None)]
  /\ failed = [c \in Callers |-> FALSE]
  /\ seen = {} /\ floor = [c \in Callers |-> {}]

-----------------------------------------------------------------------------
(* needsUpdateLocked *)
NeedsUpdate(n) == lastCycle < 0 \/ lastCycle < n

Goto(c, at) == pc' = [pc EXCEPT ![c] = at]

(* GetValue of c returns v. *)
Return(c, v) ==
  /\ Goto(c, "done")
  /\ result' = [result EXCEPT ![c] = v]
  /\ seen' = seen \cup {n \in Cycle : \A w \in Word : v[w] >= n}

Call(c) ==
  /\ pc[c] \in {"idle", "done"}
  /\ Goto(c, "check")
  /\ \E n \in Cycle : cycle' = [cycle EXCEPT ![c] = n]
  /\ word' = [word EXCEPT ![c] = 0]
  /\ failed' = [failed EXCEPT ![c] = FALSE]
  /\ floor' = [floor EXCEPT ![c] = seen]
  /\ UNCHANGED <<lastCycle, cachedValue, writer, result, seen>>

(* needsUpdate: RLock, compare, RUnlock. *)
CheckShared(c) ==
  /\ pc[c] = "check" /\ writer = Nobody
  /\ Goto(c, IF NeedsUpdate(cycle[c]) THEN "lock" ELSE "read")
  /\ UNCHANGED <<lastCycle, cachedValue, writer, cycle, word, result, failed, seen, floor>>

(* return c.cachedValue with no lock: one word at a time. *)
ReadWord(c) ==
  LET w == word[c] + 1
      v == [result[c] EXCEPT ![w] = cachedValue[w]]
  IN /\ pc[c] = "read"
     /\ word' = [word EXCEPT ![c] = w]
     /\ IF w = Words
          THEN Return(c, v)
          ELSE result' = [result EXCEPT ![c] = v] /\ UNCHANGED <<pc, seen>>
     /\ UNCHANGED <<lastCycle, cachedValue, writer, cycle, failed, floor>>

(* c.mu.Lock() *)
Lock(c) ==
  /\ pc[c] = "lock" /\ writer = Nobody
  /\ writer' = c
  /\ Goto(c, "recheck")
  /\ UNCHANGED <<lastCycle, cachedValue, cycle, word, result, failed, seen, floor>>

(* Mutant: no second check. *)
NoRecheck(c) ==
  /\ pc[c] = "recheck"
  /\ Goto(c, "fetch")
  /\ UNCHANGED <<lastCycle, cachedValue, writer, cycle, word, result, failed, seen, floor>>

(* Mutant: lastCycle is set before the fetch result is stored. *)
LastCycleFirst(c) ==
  /\ pc[c] = "recheck"
  /\ IF NeedsUpdate(cycle[c])
       THEN Goto(c, "fetch") /\ lastCycle' = cycle[c] /\ UNCHANGED <<writer, result, seen>>
       ELSE writer' = Nobody /\ Return(c, cachedValue) /\ UNCHANGED lastCycle
  /\ UNCHANGED <<cachedValue, cycle, word, failed, floor>>

(* needsUpdateLocked under the write lock. *)
Recheck(c) ==
  /\ pc[c] = "recheck"
  /\ IF NeedsUpdate(cycle[c])
       THEN Goto(c, "fetch") /\ UNCHANGED <<writer, result, seen>>
       ELSE writer' = Nobody /\ Return(c, cachedValue)
  /\ UNCHANGED <<lastCycle, cachedValue, cycle, word, failed, floor>>

(* fetch succeeds. *)
FetchOK(c) ==
  /\ pc[c] = "fetch"
  /\ Goto(c, "write")
  /\ UNCHANGED <<lastCycle, cachedValue, writer, cycle, word, result, failed, seen, floor>>

(* Mutants: the lock is kept; the cycle is counted down; the zero value is *)
(* returned though an old one exists.                                      *)
FetchErrorKeepsLock(c) ==
  /\ pc[c] = "fetch"
  /\ failed' = [failed EXCEPT ![c] = TRUE]
  /\ Return(c, cachedValue)
  /\ UNCHANGED <<lastCycle, cachedValue, writer, cycle, word, floor>>

FetchErrorDropsValue(c) ==
  /\ pc[c] = "fetch"
  /\ failed' = [failed EXCEPT ![c] = TRUE]
  /\ writer' = Nobody
  /\ Return(c, Whole(None))
  /\ UNCHANGED <<lastCycle, cachedValue, cycle, word, floor>>

(* fetch fails: the old value is re-used if there is one; otherwise the    *)
(* error is returned, with fetch's (zero) result.                          *)
FetchError(c) ==
  /\ pc[c] = "fetch"
  /\ failed' = [failed EXCEPT ![c] = TRUE]
  /\ writer' = Nobody
  /\ Return(c, IF lastCycle < 0 THEN Whole(None) ELSE cachedValue)
  /\ UNCHANGED <<lastCycle, cachedValue, cycle, word, floor>>

(* c.cachedValue = result, one word at a time. *)
WriteWord(c) ==
  LET w == word[c] + 1
  IN /\ pc[c] = "write" /\ word[c] < Words
     /\ cachedValue' = [cachedValue EXCEPT ![w] = cycle[c]]
     /\ word' = [word EXCEPT ![c] = w]
     /\ UNCHANGED <<lastCycle, writer, pc, cycle, result, failed, seen, floor>>

(* c.lastCycle = cycle; unlock; return c.cachedValue. *)
FinishWrite(c) ==
  /\ pc[c] = "write" /\ word[c] = Words
  /\ lastCycle' = cycle[c]
  /\ writer' = Nobody
  /\ Return(c, cachedValue)
  /\ UNCHANGED <<cachedValue, cycle, word, failed, floor>>

-----------------------------------------------------------------------------
(* The steps of a call in progress. *)
Step(c) == \/ CheckShared(c) \/ ReadWord(c) \/ Lock(c) \/ Recheck(c)
           \/ FetchOK(c) \/ FetchError(c) \/ WriteWord(c) \/ FinishWrite(c)

Next == \E c \in Callers : Call(c) \/ Step(c)

Spec == Init /\ [][Next]_vars

(* sync.RWMutex starves nobody: a waiting writer blocks later readers.     *)
(* fetch returns, because its context is cancelled in the end.             *)
Fairness == \A c \in Callers : SF_vars(Step(c))
FairSpec == Spec /\ Fairness

-----------------------------------------------------------------------------
Held == {"recheck", "fetch", "write"}

TypeOK ==
  /\ lastCycle \in Cycle \cup {None}
  /\ cachedValue \in [Word -> Cycle \cup {None}]
  /\ writer \in Callers \cup {Nobody}
  /\ pc \in [Callers -> Held \cup {"idle", "done", "check", "read", "lock"}]
  /\ cycle \in [Callers -> Cycle]
  /\ word \in [Callers -> 0..Words]
  /\ result \in [Callers -> [Word -> Cycle \cup {None}]]
  /\ failed \in [Callers -> BOOLEAN]
  /\ seen \subseteq Cycle
  /\ floor \in [Callers -> SUBSET Cycle]

(* One caller at a time is past Lock: fetch is never called twice at once. *)
OneFetch == \A c, d \in Callers : pc[c] \in Held /\ pc[d] \in Held => c = d

(* Every word GetValue returns was fetched in the requested cycle or a     *)
(* later one, unless this very call tried to fetch and failed.             *)
Fresh ==
  \A c \in Callers :
    pc[c] = "done" /\ ~failed[c] => \A w \in Word : result[c][w] >= cycle[c]

(* If a call that had returned before c's call began returned nothing      *)
(* older than n, then c's call returns nothing older than n, even when its *)
(* own fetch fails.                                                        *)
MonotoneReads ==
  \A c \in Callers :
    pc[c] = "done" => \A n \in floor[c] : \A w \in Word : result[c][w] >= n

(* A successful fetch always moves the cache to a later cycle, so a cycle  *)
(* is fetched successfully once, and a late caller of an old cycle never   *)
(* replaces a newer value.                                                 *)
OncePerCycle ==
  [][\A c \in Callers : pc[c] = "write" /\ pc'[c] = "done" => lastCycle' > lastCycle]_vars

-----------------------------------------------------------------------------
(* The inductive invariant, part by part. *)

(* The write lock is held exactly between Lock and the return. *)
LockInv == \A c \in Callers : pc[c] \in Held <=> writer = c

(* A caller fetches only for a cycle later than the cached one. *)
FetchInv == \A c \in Callers : pc[c] \in {"fetch", "write"} => lastCycle < cycle[c]

(* No word is counted before a caller reads or writes. *)
WordInv ==
  /\ \A c \in Callers : pc[c] \in {"check", "lock", "recheck", "fetch"} => word[c] = 0
  /\ \A c \in Callers : pc[c] = "read" => word[c] < Words

(* The words stored so far are of the writer's cycle, the others of        *)
(* lastCycle.                                                              *)
StoredBy(c, w) == pc[c] = "write" /\ w <= word[c]
CachedInv ==
  \A w \in Word :
    /\ \A c \in Callers : StoredBy(c, w) => cachedValue[w] = cycle[c]
    /\ (\A c \in Callers : ~StoredBy(c, w)) => cachedValue[w] = lastCycle

(* What has been returned bounds what is cached from below. *)
SeenInv ==
  /\ \A n \in seen : \A w \in Word : cachedValue[w] >= n
  /\ \A c \in Callers : floor[c] \subseteq seen

(* A reader on the fast path has read words between what it asked for and  *)
(* what is cached now.                                                     *)
ReadInv ==
  \A c \in Callers :
    pc[c] = "read" =>
      /\ cycle[c] <= lastCycle
      /\ \A w \in 1..word[c] :
           /\ cycle[c] <= result[c][w] /\ result[c][w] <= cachedValue[w]
           /\ \A n \in floor[c] : result[c][w] >= n

(* All of it. *)
CInv == TypeOK /\ LockInv /\ FetchInv /\ WordInv /\ CachedInv /\ SeenInv /\ ReadInv
        /\ Fresh /\ MonotoneReads

-----------------------------------------------------------------------------
(* A call in progress returns, whatever the others do and however often    *)
(* fetch fails.                                                            *)
CallReturns == \A c \in Callers : pc[c] \notin {"idle", "done"} ~> pc[c] = "done"

(* What CallReturns rests on, beside fairness.  A caller in GetValue can   *)
(* take its next step, unless it needs a lock that somebody holds.         *)
InProgress(c) == pc[c] \notin {"idle", "done"}
CanStep(c) == InProgress(c) /\ (pc[c] \in {"check", "lock"} => writer = Nobody)

(* As long as calls are in progress one of them can go on: whoever holds   *)
(* c.mu is never waiting for it, on no path through GetValue.              *)
NeverStuck == (\E c \in Callers : InProgress(c)) => \E c \in Callers : CanStep(c)

(* How many steps a call has left, at most: RLock, Lock, the second check, *)
(* fetch, one for each word, and the return.                               *)
Place(at) == CASE at = "check" -> 5 [] at = "lock" -> 4 [] at = "recheck" -> 3
               [] at = "fetch" -> 2 [] OTHER -> 1
StepsLeft(c) == IF InProgress(c) THEN Place(pc[c]) + Words - word[c] ELSE 0

(* Each step of a call brings it nearer to its end, and no other caller    *)
(* throws it back: GetValue has no way to try again.                       *)
StepsRunOut ==
  [][\A c \in Callers : /\ Step(c) => StepsLeft(c)' < StepsLeft(c)
                        /\ InProgress(c) /\ ~Step(c) => StepsLeft(c)' = StepsLeft(c)]_vars

(* "Cache is a thread-safe generic struct": GetValue returns a value some  *)
(* fetch produced, never a mixture of two.                                 *)
NoTornRead ==
  \A c \in Callers : pc[c] = "done" => \A v, w \in Word : result[c][v] = result[c][w]
=============================================================================
