-------------------------- MODULE CycleCacheProofs --------------------------
(***************************************************************************)
(* CycleCache for every set of callers, number of cycles and width of T.   *)
(***************************************************************************)
EXTENDS CycleCache, TLAPS

USE CacheAssumption, NobodyAssumption DEF Cycle, None, Word

(* No lock is held, no call has been made: every part holds. *)
LEMMA InitInv == Init => CInv
  BY DEF Init, CInv, TypeOK, LockInv, FetchInv, WordInv, StoredBy, CachedInv, SeenInv,
         ReadInv, Fresh, MonotoneReads, Whole, Held

(* Type correctness is kept by every step. *)
LEMMA TypeStep == CInv /\ [Next]_vars => TypeOK'
<1> SUFFICES ASSUME CInv, [Next]_vars PROVE TypeOK'
  OBVIOUS
<1> USE DEF CInv, TypeOK
<1>1. CASE UNCHANGED vars
  BY <1>1 DEF vars
<1>2. ASSUME NEW c \in Callers, Call(c) PROVE TypeOK'
  BY <1>2 DEF Call, Goto
<1>3. ASSUME NEW c \in Callers, CheckShared(c) PROVE TypeOK'
  BY <1>3 DEF CheckShared, Goto
<1>4. ASSUME NEW c \in Callers, ReadWord(c) PROVE TypeOK'
  <2> DEFINE w == word[c] + 1
             v == [result[c] EXCEPT ![w] = cachedValue[w]]
  <2>1. w \in Word /\ v \in [Word -> Cycle \cup {None}]
    BY <1>4 DEF ReadWord, WordInv
  <2>2. result' = [result EXCEPT ![c] = v] /\ word' = [word EXCEPT ![c] = w]
    BY <1>4 DEF ReadWord, Return
  <2>3. result' \in [Callers -> [Word -> Cycle \cup {None}]]
    BY <2>1, <2>2
  <2>4. word' \in [Callers -> 0..Words]
    BY <2>1, <2>2
  <2>5. pc' \in [Callers -> Held \cup {"idle", "done", "check", "read", "lock"}]
    BY <1>4 DEF ReadWord, Return, Goto
  <2>6. seen' \subseteq Cycle
    BY <1>4 DEF ReadWord, Return
  <2> QED
    BY <1>4, <2>3, <2>4, <2>5, <2>6 DEF ReadWord
<1>5. ASSUME NEW c \in Callers, Lock(c) PROVE TypeOK'
  BY <1>5 DEF Lock, Goto, Held
<1>6. ASSUME NEW c \in Callers, Recheck(c) PROVE TypeOK'
  <2>0. UNCHANGED <<lastCycle, cachedValue, cycle, word, failed, floor>>
    BY <1>6 DEF Recheck
  <2>1. CASE NeedsUpdate(cycle[c])
    BY <1>6, <2>1, <2>0 DEF Recheck, Goto, Held
  <2>2. CASE ~NeedsUpdate(cycle[c])
    <3>1. /\ writer' = Nobody
          /\ pc' = [pc EXCEPT ![c] = "done"]
          /\ result' = [result EXCEPT ![c] = cachedValue]
          /\ seen' = seen \cup {n \in Cycle : \A w \in Word : cachedValue[w] >= n}
      BY <1>6, <2>2 DEF Recheck, Goto, Return
    <3>2. result' \in [Callers -> [Word -> Cycle \cup {None}]]
      BY <3>1
    <3>3. seen' \subseteq Cycle
      BY <3>1
    <3> QED
      BY <2>0, <3>1, <3>2, <3>3 DEF Held
  <2> QED
    BY <2>1, <2>2
<1>7. ASSUME NEW c \in Callers, FetchOK(c) PROVE TypeOK'
  BY <1>7 DEF FetchOK, Goto, Held
<1>8. ASSUME NEW c \in Callers, FetchError(c) PROVE TypeOK'
  BY <1>8 DEF FetchError, Goto, Return, Whole
<1>9. ASSUME NEW c \in Callers, WriteWord(c) PROVE TypeOK'
  BY <1>9 DEF WriteWord
<1>10. ASSUME NEW c \in Callers, FinishWrite(c) PROVE TypeOK'
  BY <1>10 DEF FinishWrite, Goto, Return
<1> QED
  BY <1>1, <1>2, <1>3, <1>4, <1>5, <1>6, <1>7, <1>8, <1>9, <1>10 DEF Next, Step

(* The lock, the fetch guard and the word counters are kept. *)
LEMMA LockStep == CInv /\ [Next]_vars => LockInv' /\ FetchInv' /\ WordInv'
<1> SUFFICES ASSUME CInv, [Next]_vars PROVE LockInv' /\ FetchInv' /\ WordInv'
  OBVIOUS
<1> USE DEF CInv, TypeOK, LockInv, FetchInv, WordInv, Held
<1>1. CASE UNCHANGED vars
  BY <1>1 DEF vars
<1>2. ASSUME NEW c \in Callers, Call(c) PROVE LockInv' /\ FetchInv' /\ WordInv'
  BY <1>2 DEF Call, Goto
<1>3. ASSUME NEW c \in Callers, CheckShared(c) PROVE LockInv' /\ FetchInv' /\ WordInv'
  BY <1>3 DEF CheckShared, Goto
<1>4. ASSUME NEW c \in Callers, ReadWord(c) PROVE LockInv' /\ FetchInv' /\ WordInv'
  BY <1>4 DEF ReadWord, Goto, Return
<1>5. ASSUME NEW c \in Callers, Lock(c) PROVE LockInv' /\ FetchInv' /\ WordInv'
  BY <1>5 DEF Lock, Goto
<1>6. ASSUME NEW c \in Callers, Recheck(c) PROVE LockInv' /\ FetchInv' /\ WordInv'
  BY <1>6 DEF Recheck, NeedsUpdate, Goto, Return
<1>7. ASSUME NEW c \in Callers, FetchOK(c) PROVE LockInv' /\ FetchInv' /\ WordInv'
  BY <1>7 DEF FetchOK, Goto
<1>8. ASSUME NEW c \in Callers, FetchError(c) PROVE LockInv' /\ FetchInv' /\ WordInv'
  BY <1>8 DEF FetchError, Goto, Return
<1>9. ASSUME NEW c \in Callers, WriteWord(c) PROVE LockInv' /\ FetchInv' /\ WordInv'
  BY <1>9 DEF WriteWord
<1>10. ASSUME NEW c \in Callers, FinishWrite(c) PROVE LockInv' /\ FetchInv' /\ WordInv'
  BY <1>10 DEF FinishWrite, Goto, Return
<1> QED
  BY <1>1, <1>2, <1>3, <1>4, <1>5, <1>6, <1>7, <1>8, <1>9, <1>10 DEF Next, Step
(* What is cached is of the writer's cycle or of lastCycle. *)
LEMMA CachedStep == CInv /\ [Next]_vars => CachedInv'
<1> SUFFICES ASSUME CInv, [Next]_vars PROVE CachedInv'
  OBVIOUS
<1> USE DEF CInv, TypeOK, CachedInv, StoredBy, LockInv, FetchInv, WordInv, Held
<1>1. CASE UNCHANGED vars
  BY <1>1 DEF vars
<1>2. ASSUME NEW c \in Callers, Call(c) PROVE CachedInv'
  BY <1>2 DEF Call, Goto
<1>3. ASSUME NEW c \in Callers, CheckShared(c) PROVE CachedInv'
  BY <1>3 DEF CheckShared, NeedsUpdate, Goto
<1>4. ASSUME NEW c \in Callers, ReadWord(c) PROVE CachedInv'
  BY <1>4 DEF ReadWord, Goto, Return
<1>5. ASSUME NEW c \in Callers, Lock(c) PROVE CachedInv'
  BY <1>5 DEF Lock, Goto
<1>6. ASSUME NEW c \in Callers, Recheck(c) PROVE CachedInv'
  BY <1>6 DEF Recheck, NeedsUpdate, Goto, Return
<1>7. ASSUME NEW c \in Callers, FetchOK(c) PROVE CachedInv'
  BY <1>7 DEF FetchOK, Goto
<1>8. ASSUME NEW c \in Callers, FetchError(c) PROVE CachedInv'
  BY <1>8 DEF FetchError, Goto, Return, Whole
<1>9. ASSUME NEW c \in Callers, WriteWord(c) PROVE CachedInv'
  BY <1>9 DEF WriteWord
<1>10. ASSUME NEW c \in Callers, FinishWrite(c) PROVE CachedInv'
  BY <1>10 DEF FinishWrite, Goto, Return
<1> QED
  BY <1>1, <1>2, <1>3, <1>4, <1>5, <1>6, <1>7, <1>8, <1>9, <1>10 DEF Next, Step

(* No cached word is older than lastCycle. *)
LEMMA CachedBound == CInv => \A w \in Word : cachedValue[w] >= lastCycle
<1> SUFFICES ASSUME CInv, NEW w \in Word PROVE cachedValue[w] >= lastCycle
  OBVIOUS
<1>1. CASE \E c \in Callers : StoredBy(c, w)
  <2>1. PICK c \in Callers : StoredBy(c, w)
    BY <1>1
  <2>2. cachedValue[w] = cycle[c] /\ lastCycle < cycle[c]
    BY <2>1 DEF CInv, CachedInv, StoredBy, FetchInv
  <2> QED
    BY <2>2 DEF CInv, TypeOK
<1>2. CASE \A c \in Callers : ~StoredBy(c, w)
  <2>1. cachedValue[w] = lastCycle /\ lastCycle \in Cycle \cup {None}
    BY <1>2 DEF CInv, TypeOK, CachedInv
  <2> QED
    BY <2>1
<1> QED
  BY <1>1, <1>2

(* The values ReadWord completes are between what the caller asked for and *)
(* what is cached.                                                         *)
LEMMA ReadWordBound ==
  ASSUME CInv, NEW c \in Callers, ReadWord(c)
  PROVE  \A u \in 1..(word[c] + 1) :
           /\ u \in Word
           /\ result'[c][u] \in Cycle \cup {None}
           /\ cycle[c] <= result'[c][u] /\ result'[c][u] <= cachedValue[u]
           /\ \A n \in floor[c] : result'[c][u] >= n
<1> DEFINE w == word[c] + 1
<1> SUFFICES ASSUME NEW u \in 1..w
             PROVE  /\ u \in Word
                    /\ result'[c][u] \in Cycle \cup {None}
                    /\ cycle[c] <= result'[c][u] /\ result'[c][u] <= cachedValue[u]
                    /\ \A n \in floor[c] : result'[c][u] >= n
  OBVIOUS
<1>1. word[c] \in 0..Words /\ word[c] < Words /\ cycle[c] <= lastCycle /\ pc[c] = "read"
  BY DEF CInv, TypeOK, WordInv, ReadInv, ReadWord
<1>2. result' = [result EXCEPT ![c] = [result[c] EXCEPT ![w] = cachedValue[w]]]
  BY DEF ReadWord, Return
<1>3. u \in Word
  BY <1>1
<1>4. CASE u = w
  <2>1. result'[c][u] = cachedValue[u]
    BY <1>2, <1>3, <1>4 DEF CInv, TypeOK
  <2>2. cachedValue[u] >= lastCycle
    BY CachedBound, <1>3
  <2>3. \A n \in floor[c] : cachedValue[u] >= n
    BY <1>3 DEF CInv, SeenInv
  <2> QED
    BY <1>1, <1>3, <2>1, <2>2, <2>3 DEF CInv, TypeOK
<1>5. CASE u # w
  <2>1. u \in 1..word[c]
    BY <1>1, <1>5
  <2>2. result'[c][u] = result[c][u]
    BY <1>2, <1>3, <1>5 DEF CInv, TypeOK
  <2> QED
    BY <1>1, <1>3, <2>1, <2>2 DEF CInv, TypeOK, ReadInv
<1> QED
  BY <1>4, <1>5

(* What was returned bounds what is cached. *)
LEMMA SeenStep == CInv /\ [Next]_vars => SeenInv'
<1> SUFFICES ASSUME CInv, [Next]_vars PROVE SeenInv'
  OBVIOUS
<1> USE DEF CInv, TypeOK, SeenInv, CachedInv, StoredBy, LockInv, FetchInv, WordInv, ReadInv, Held
<1>1. CASE UNCHANGED vars
  BY <1>1 DEF vars
<1>2. ASSUME NEW c \in Callers, Call(c) PROVE SeenInv'
  BY <1>2 DEF Call, Goto
<1>3. ASSUME NEW c \in Callers, CheckShared(c) PROVE SeenInv'
  BY <1>3 DEF CheckShared, NeedsUpdate, Goto
<1>4. ASSUME NEW c \in Callers, ReadWord(c) PROVE SeenInv'
  <2>1. \A n \in seen' : \A u \in Word : cachedValue[u] >= n
    <3> SUFFICES ASSUME NEW n \in seen', n \notin seen, NEW u \in Word PROVE cachedValue[u] >= n
      BY DEF SeenInv
    <3>1. word[c] + 1 = Words
      BY <1>4 DEF ReadWord
    <3>2. n \in Cycle /\ result'[c][u] >= n
      BY <1>4 DEF ReadWord, Return
    <3>3. result'[c][u] \in Cycle \cup {None} /\ result'[c][u] <= cachedValue[u]
      BY <1>4, <3>1, ReadWordBound
    <3>4. cachedValue[u] \in Cycle \cup {None}
      OBVIOUS
    <3> HIDE DEF CInv, TypeOK, SeenInv, CachedInv, StoredBy, LockInv, FetchInv, WordInv, ReadInv
    <3> QED
      BY <3>2, <3>3, <3>4
  <2>2. floor' = floor /\ cachedValue' = cachedValue /\ seen \subseteq seen'
    BY <1>4 DEF ReadWord, Return
  <2> QED
    BY <2>1, <2>2 DEF SeenInv
<1>5. ASSUME NEW c \in Callers, Lock(c) PROVE SeenInv'
  BY <1>5 DEF Lock, Goto
<1>6. ASSUME NEW c \in Callers, Recheck(c) PROVE SeenInv'
  BY <1>6 DEF Recheck, NeedsUpdate, Goto, Return
<1>7. ASSUME NEW c \in Callers, FetchOK(c) PROVE SeenInv'
  BY <1>7 DEF FetchOK, Goto
<1>8. ASSUME NEW c \in Callers, FetchError(c) PROVE SeenInv'
  BY <1>8 DEF FetchError, Goto, Return, Whole
<1>9. ASSUME NEW c \in Callers, WriteWord(c) PROVE SeenInv'
  <2>1. \A w \in Word : cachedValue[w] >= lastCycle
    BY CachedBound
  <2> DEFINE u == word[c] + 1
  <2>2. u \in Word /\ cachedValue' = [cachedValue EXCEPT ![u] = cycle[c]]
        /\ seen' = seen /\ floor' = floor
    BY <1>9 DEF WriteWord
  <2>3. cachedValue[u] = lastCycle /\ lastCycle < cycle[c]
    BY <1>9, <2>2 DEF WriteWord
  <2>4. \A n \in seen, w \in Word : cachedValue'[w] >= n
    BY <2>2, <2>3
  <2> QED
    BY <2>2, <2>4
<1>10. ASSUME NEW c \in Callers, FinishWrite(c) PROVE SeenInv'
  BY <1>10 DEF FinishWrite, Goto, Return
<1> QED
  BY <1>1, <1>2, <1>3, <1>4, <1>5, <1>6, <1>7, <1>8, <1>9, <1>10 DEF Next, Step

(* What a reader has read is fresh. *)
LEMMA ReadStep == CInv /\ [Next]_vars => ReadInv'
<1> SUFFICES ASSUME CInv, [Next]_vars PROVE ReadInv'
  OBVIOUS
<1> USE DEF CInv, TypeOK, ReadInv, SeenInv, CachedInv, StoredBy, LockInv, FetchInv, WordInv, Held
<1>1. CASE UNCHANGED vars
  BY <1>1 DEF vars
<1>2. ASSUME NEW c \in Callers, Call(c) PROVE ReadInv'
  BY <1>2 DEF Call, Goto
<1>3. ASSUME NEW c \in Callers, CheckShared(c) PROVE ReadInv'
  BY <1>3 DEF CheckShared, NeedsUpdate, Goto
<1>4. ASSUME NEW c \in Callers, ReadWord(c) PROVE ReadInv'
  BY <1>4 DEF ReadWord, Goto, Return
<1>5. ASSUME NEW c \in Callers, Lock(c) PROVE ReadInv'
  BY <1>5 DEF Lock, Goto
<1>6. ASSUME NEW c \in Callers, Recheck(c) PROVE ReadInv'
  BY <1>6 DEF Recheck, NeedsUpdate, Goto, Return
<1>7. ASSUME NEW c \in Callers, FetchOK(c) PROVE ReadInv'
  BY <1>7 DEF FetchOK, Goto
<1>8. ASSUME NEW c \in Callers, FetchError(c) PROVE ReadInv'
  <2>1. /\ pc' = [pc EXCEPT ![c] = "done"]
        /\ \A d \in Callers : d # c => result'[d] = result[d]
        /\ UNCHANGED <<lastCycle, cachedValue, cycle, word, floor>>
    BY <1>8 DEF FetchError, Goto, Return
  <2> QED
    BY <2>1
<1>9. ASSUME NEW c \in Callers, WriteWord(c) PROVE ReadInv'
  <2> DEFINE u == word[c] + 1
  <2>1. /\ u \in Word /\ cachedValue' = [cachedValue EXCEPT ![u] = cycle[c]]
        /\ word' = [word EXCEPT ![c] = u] /\ pc[c] = "write"
        /\ UNCHANGED <<lastCycle, pc, cycle, result, floor>>
    BY <1>9 DEF WriteWord
  <2>2. cachedValue[u] = lastCycle /\ lastCycle < cycle[c]
    BY <1>9, <2>1 DEF WriteWord
  <2> HIDE DEF u
  <2>3. \A w \in Word : cachedValue'[w] >= cachedValue[w]
    BY <2>1, <2>2
  <2>4. ASSUME NEW d \in Callers, pc[d] = "read"
        PROVE  /\ d # c /\ word'[d] = word[d] /\ 1..word[d] \subseteq Word
               /\ result[d] \in [Word -> Cycle \cup {None}]
    BY <2>1, <2>4
  <2>5. cachedValue' \in [Word -> Cycle \cup {None}]
    BY <2>1
  <2>6. ReadInv /\ cachedValue \in [Word -> Cycle \cup {None}] /\ cycle \in [Callers -> Cycle]
    OBVIOUS
  <2> HIDE DEF CInv, TypeOK, SeenInv, CachedInv, StoredBy, LockInv, FetchInv, WordInv
  <2>7. ASSUME NEW d \in Callers, pc'[d] = "read"
        PROVE  /\ cycle'[d] <= lastCycle'
               /\ \A w \in 1..word'[d] :
                    /\ cycle'[d] <= result'[d][w] /\ result'[d][w] <= cachedValue'[w]
                    /\ \A n \in floor'[d] : result'[d][w] >= n
    <3>1. pc[d] = "read" /\ word'[d] = word[d] /\ 1..word[d] \subseteq Word
      BY <2>1, <2>4, <2>7
    <3>2. cycle[d] <= lastCycle
      BY <2>6, <3>1
    <3>3. ASSUME NEW w \in 1..word[d]
          PROVE  /\ cycle[d] <= result[d][w] /\ result[d][w] <= cachedValue'[w]
                 /\ \A n \in floor[d] : result[d][w] >= n
      <4> DEFINE r == result[d][w]
                 old == cachedValue[w]
                 new == cachedValue'[w]
      <4>1. /\ r \in Cycle \cup {None} /\ old \in Cycle \cup {None} /\ new \in Cycle \cup {None}
            /\ old <= new
        BY <2>3, <2>4, <2>5, <2>6, <3>1
      <4>2. cycle[d] <= r /\ r <= old /\ \A n \in floor[d] : r >= n
        BY <2>6, <3>1
      <4> HIDE DEF r, old, new
      <4>3. r <= new
        BY <4>1, <4>2
      <4> QED
        BY <4>2, <4>3 DEF r, new
    <3> QED
      BY <2>1, <3>1, <3>2, <3>3
  <2> HIDE DEF ReadInv
  <2> QED
    BY <2>7 DEF ReadInv
<1>10. ASSUME NEW c \in Callers, FinishWrite(c) PROVE ReadInv'
  <2>1. /\ \A d \in Callers : d # c => pc'[d] = pc[d] /\ result'[d] = result[d]
        /\ pc'[c] = "done" /\ lastCycle' = cycle[c]
        /\ UNCHANGED <<cachedValue, cycle, word, floor>>
    BY <1>10 DEF FinishWrite, Goto, Return
  <2>2. lastCycle <= cycle[c] /\ lastCycle \in Cycle \cup {None} /\ cycle \in [Callers -> Cycle]
    BY <1>10 DEF FinishWrite
  <2>3. ReadInv
    OBVIOUS
  <2> HIDE DEF CInv, TypeOK, SeenInv, CachedInv, StoredBy, LockInv, FetchInv, WordInv
  <2> QED
    BY <2>1, <2>2, <2>3
<1> QED
  BY <1>1, <1>2, <1>3, <1>4, <1>5, <1>6, <1>7, <1>8, <1>9, <1>10 DEF Next, Step

(* What a call returns is fresh and not older than what was returned before. *)
LEMMA ResultStep == CInv /\ [Next]_vars => Fresh' /\ MonotoneReads'
<1> SUFFICES ASSUME CInv, [Next]_vars PROVE Fresh' /\ MonotoneReads'
  OBVIOUS
<1> USE DEF CInv, TypeOK, Fresh, MonotoneReads, ReadInv, SeenInv, CachedInv, StoredBy, LockInv, FetchInv, WordInv, Held
<1>1. CASE UNCHANGED vars
  BY <1>1 DEF vars
<1>2. ASSUME NEW c \in Callers, Call(c) PROVE Fresh' /\ MonotoneReads'
  BY <1>2 DEF Call, Goto
<1>3. ASSUME NEW c \in Callers, CheckShared(c) PROVE Fresh' /\ MonotoneReads'
  BY <1>3 DEF CheckShared, NeedsUpdate, Goto
<1>4. ASSUME NEW c \in Callers, ReadWord(c) PROVE Fresh' /\ MonotoneReads'
  <2>1. /\ \A d \in Callers : d # c => pc'[d] = pc[d] /\ result'[d] = result[d]
        /\ cycle' = cycle /\ failed' = failed /\ floor' = floor
    BY <1>4 DEF ReadWord, Return, Goto
  <2>2. CASE word[c] + 1 = Words
    <3>1. \A u \in Word : /\ result'[c][u] \in Cycle \cup {None}
                          /\ cycle[c] <= result'[c][u]
                          /\ \A n \in floor[c] : result'[c][u] >= n
      BY <1>4, <2>2, ReadWordBound
    <3> QED
      BY <2>1, <3>1 DEF Fresh, MonotoneReads
  <2>3. CASE word[c] + 1 # Words
    <3>1. pc'[c] = "read"
      BY <1>4, <2>3 DEF ReadWord
    <3> QED
      BY <2>1, <3>1 DEF Fresh, MonotoneReads
  <2> QED
    BY <2>2, <2>3
<1>5. ASSUME NEW c \in Callers, Lock(c) PROVE Fresh' /\ MonotoneReads'
  BY <1>5 DEF Lock, Goto
<1>6. ASSUME NEW c \in Callers, Recheck(c) PROVE Fresh' /\ MonotoneReads'
  <2>1. /\ \A d \in Callers : d # c => pc'[d] = pc[d] /\ result'[d] = result[d]
        /\ cycle' = cycle /\ failed' = failed /\ floor' = floor
    BY <1>6 DEF Recheck, Return, Goto
  <2>2. \A w \in Word : cachedValue[w] >= lastCycle /\ \A n \in floor[c] : cachedValue[w] >= n
    BY CachedBound DEF SeenInv
  <2>3. CASE NeedsUpdate(cycle[c])
    <3>1. pc' = [pc EXCEPT ![c] = "fetch"] /\ result' = result
      BY <1>6, <2>3 DEF Recheck, Goto
    <3> QED
      BY <2>1, <3>1 DEF Fresh, MonotoneReads
  <2>4. CASE ~NeedsUpdate(cycle[c])
    <3>1. result'[c] = cachedValue /\ cycle[c] <= lastCycle
      BY <1>6, <2>4 DEF Recheck, Return, NeedsUpdate
    <3>2. \A w \in Word : \A n \in floor[c] : result'[c][w] >= n
      BY <2>2, <3>1
    <3>3. ASSUME NEW w \in Word PROVE result'[c][w] >= cycle[c]
      <4>1. cachedValue[w] >= lastCycle /\ cachedValue[w] \in Cycle \cup {None}
            /\ lastCycle \in Cycle \cup {None} /\ cycle[c] \in Cycle
        BY <2>2
      <4>2. result'[c][w] = cachedValue[w] /\ cycle[c] <= lastCycle
        BY <3>1
      <4> HIDE DEF CInv, TypeOK, SeenInv, CachedInv, StoredBy, LockInv, FetchInv, WordInv, ReadInv
      <4> QED
        BY <4>1, <4>2
    <3> QED
      BY <2>1, <3>2, <3>3
  <2> QED
    BY <2>3, <2>4
<1>7. ASSUME NEW c \in Callers, FetchOK(c) PROVE Fresh' /\ MonotoneReads'
  BY <1>7 DEF FetchOK, Goto
<1>8. ASSUME NEW c \in Callers, FetchError(c) PROVE Fresh' /\ MonotoneReads'
  <2>1. /\ \A d \in Callers : d # c => pc'[d] = pc[d] /\ result'[d] = result[d] /\ failed'[d] = failed[d]
        /\ cycle' = cycle /\ failed'[c] /\ floor' = floor
    BY <1>8 DEF FetchError, Return, Goto
  <2>2. \A w \in Word : \A n \in floor[c] : cachedValue[w] >= n
    BY DEF SeenInv
  <2>3. lastCycle < 0 => floor[c] = {}
    <3> SUFFICES ASSUME lastCycle < 0, NEW n \in floor[c] PROVE FALSE
      OBVIOUS
    <3>1. cachedValue[1] = lastCycle
      BY <1>8 DEF FetchError
    <3>2. n >= 0 /\ cachedValue[1] >= n
      BY <2>2
    <3> QED
      BY <3>1, <3>2
  <2>4. result'[c] = IF lastCycle < 0 THEN Whole(None) ELSE cachedValue
    BY <1>8 DEF FetchError, Return
  <2>5. \A w \in Word : \A n \in floor[c] : result'[c][w] >= n
    <3> HIDE DEF CInv
    <3>1. CASE lastCycle < 0
      BY <3>1, <2>3
    <3>2. CASE ~(lastCycle < 0)
      <4>1. result'[c] = cachedValue
        BY <3>2, <2>4
      <4> QED
        BY <4>1, <2>2
    <3> QED
      BY <3>1, <3>2
  <2>6. ~(pc'[c] = "done" /\ ~failed'[c])
    BY <2>1
  <2> QED
    BY <2>1, <2>6, <1>8 DEF FetchError, Return
<1>9. ASSUME NEW c \in Callers, WriteWord(c) PROVE Fresh' /\ MonotoneReads'
  BY <1>9 DEF WriteWord
<1>10. ASSUME NEW c \in Callers, FinishWrite(c) PROVE Fresh' /\ MonotoneReads'
  <2>1. /\ \A d \in Callers : d # c => pc'[d] = pc[d] /\ result'[d] = result[d]
        /\ result'[c] = cachedValue
        /\ cycle' = cycle /\ failed' = failed /\ floor' = floor
    BY <1>10 DEF FinishWrite, Goto, Return
  <2>0. \A w \in Word : StoredBy(c, w) /\ cycle \in [Callers -> Cycle]
    BY <1>10 DEF FinishWrite
  <2>2. \A w \in Word : /\ cachedValue[w] >= cycle[c]
                        /\ \A n \in floor[c] : cachedValue[w] >= n
    <3>1. CachedInv /\ SeenInv
      OBVIOUS
    <3>2. cycle[c] \in Nat
      BY <2>0
    <3> HIDE DEF CInv, TypeOK, ReadInv, StoredBy, LockInv, FetchInv, WordInv
    <3> QED
      BY <2>0, <3>1, <3>2
  <2> HIDE DEF CInv, TypeOK, ReadInv, SeenInv, CachedInv, StoredBy, LockInv, FetchInv, WordInv
  <2>3. CInv
    OBVIOUS
  <2>4. Fresh /\ MonotoneReads
    BY <2>3 DEF CInv
  <2> QED
    BY <2>1, <2>2, <2>4
<1> QED
  BY <1>1, <1>2, <1>3, <1>4, <1>5, <1>6, <1>7, <1>8, <1>9, <1>10 DEF Next, Step

(* The inductive invariant of the cache. *)
THEOREM CacheInvariant == Spec => []CInv
<1>1. CInv /\ [Next]_vars => CInv'
  BY TypeStep, LockStep, CachedStep, SeenStep, ReadStep, ResultStep DEF CInv
<1> QED
  BY InitInv, <1>1, PTL DEF Spec

(* At most one caller is past Lock, so fetch never runs twice at once. *)
THEOREM CacheOneFetch == Spec => []OneFetch
<1>1. CInv => OneFetch
  BY DEF CInv, LockInv, OneFetch
<1> QED
  BY CacheInvariant, <1>1, PTL

(* Whatever is returned without an error is of the requested cycle or      *)
(* later, torn or not.                                                     *)
THEOREM CacheFresh == Spec => []Fresh
<1>1. CInv => Fresh
  BY DEF CInv
<1> QED
  BY CacheInvariant, <1>1, PTL

(* Nobody sees the cache go back, not even when a fetch fails. *)
THEOREM CacheMonotoneReads == Spec => []MonotoneReads
<1>1. CInv => MonotoneReads
  BY DEF CInv
<1> QED
  BY CacheInvariant, <1>1, PTL

(* A stored fetch moves the cache to a later cycle. *)
THEOREM CacheOncePerCycle == Spec => OncePerCycle
<1> DEFINE Later == \A c \in Callers : pc[c] = "write" /\ pc'[c] = "done" => lastCycle' > lastCycle
<1>1. CInv /\ [Next]_vars => [Later]_vars
  <2> SUFFICES ASSUME CInv, Next, NEW d \in Callers, pc[d] = "write", pc'[d] = "done"
               PROVE lastCycle' > lastCycle
    OBVIOUS
  <2>1. PICK c \in Callers : Call(c) \/ Step(c)
    BY DEF Next
  <2>2. c = d
    BY <2>1 DEF CInv, TypeOK, Step, Call, CheckShared, ReadWord, Lock, Recheck, FetchOK, FetchError,
                WriteWord, FinishWrite, Goto, Return
  <2>3. FinishWrite(d)
    BY <2>1, <2>2 DEF CInv, TypeOK, Step, Call, CheckShared, ReadWord, Lock, Recheck, FetchOK,
                      FetchError, WriteWord, FinishWrite, Goto, Return
  <2> QED
    BY <2>3 DEF CInv, TypeOK, FetchInv, FinishWrite
<1> QED
  BY CacheInvariant, <1>1, PTL DEF Spec, OncePerCycle
-----------------------------------------------------------------------------
(* No deadlock, in place of CallReturns: whoever holds c.mu is not waiting *)
(* for it, so that as long as calls are in progress one can go on.         *)
THEOREM CacheNeverStuck == Spec => []NeverStuck
<1>1. CInv => NeverStuck
  <2> SUFFICES ASSUME CInv, NEW c \in Callers, InProgress(c)
               PROVE  \E d \in Callers : CanStep(d)
    BY DEF NeverStuck
  <2>1. CASE writer = Nobody
    BY <2>1 DEF CanStep
  <2>2. CASE writer # Nobody
    <3>1. writer \in Callers /\ pc[writer] \in Held
      BY <2>2 DEF CInv, TypeOK, LockInv
    <3> QED
      BY <3>1 DEF CanStep, InProgress, Held
  <2> QED
    BY <2>1, <2>2
<1> QED
  BY CacheInvariant, <1>1, PTL

(* The steps a call has left are never negative, nor more than there are   *)
(* in GetValue.                                                            *)
LEMMA StepsBound ==
  ASSUME TypeOK, NEW c \in Callers
  PROVE  StepsLeft(c) \in 0..(Words + 5)
<1>1. word[c] \in 0..Words /\ Place(pc[c]) \in 1..5
  BY DEF TypeOK, Place
<1> QED
  BY <1>1 DEF StepsLeft

(* A step of a call in progress is one fewer to take.                      *)
LEMMA OwnStep ==
  ASSUME CInv, NEW c \in Callers, Step(c)
  PROVE  StepsLeft(c)' < StepsLeft(c)
<1> USE DEF InProgress, StepsLeft, Place
<1>type. /\ pc \in [Callers -> Held \cup {"idle", "done", "check", "read", "lock"}]
         /\ word \in [Callers -> 0..Words] /\ word[c] \in 0..Words /\ Words \in Nat \ {0}
  BY DEF CInv, TypeOK
<1>word. pc[c] \in {"check", "lock", "recheck", "fetch"} => word[c] = 0
  BY DEF CInv, WordInv
<1>1. CASE CheckShared(c)
  BY <1>1, <1>type, <1>word DEF CheckShared, Goto
<1>2. CASE ReadWord(c)
  <2>1. pc[c] = "read" /\ word'[c] = word[c] + 1 /\ word[c] < Words
    BY <1>2, <1>type DEF ReadWord, CInv, WordInv
  <2>2. pc'[c] \in {"read", "done"}
    BY <1>2, <1>type DEF ReadWord, Return, Goto
  <2> QED
    BY <2>1, <2>2, <1>type
<1>3. CASE Lock(c)
  BY <1>3, <1>type, <1>word DEF Lock, Goto
<1>4. CASE Recheck(c)
  <2>1. pc[c] = "recheck" /\ pc'[c] \in {"fetch", "done"} /\ word' = word
    BY <1>4, <1>type DEF Recheck, Goto, Return
  <2> QED
    BY <2>1, <1>type, <1>word
<1>5. CASE FetchOK(c)
  BY <1>5, <1>type, <1>word DEF FetchOK, Goto
<1>6. CASE FetchError(c)
  BY <1>6, <1>type, <1>word DEF FetchError, Goto, Return
<1>7. CASE WriteWord(c)
  BY <1>7, <1>type DEF WriteWord
<1>8. CASE FinishWrite(c)
  BY <1>8, <1>type DEF FinishWrite, Goto, Return
<1> QED
  BY <1>1, <1>2, <1>3, <1>4, <1>5, <1>6, <1>7, <1>8 DEF Step

(* The steps of the others, and new calls of the others, leave it alone.   *)
LEMMA OthersStep ==
  ASSUME CInv, Next, NEW c \in Callers, InProgress(c), ~Step(c)
  PROVE  StepsLeft(c)' = StepsLeft(c)
<1>1. PICK d \in Callers : Call(d) \/ Step(d)
  BY DEF Next
<1>2. d # c
  BY <1>1 DEF Call, InProgress
<1>3. pc \in [Callers -> Held \cup {"idle", "done", "check", "read", "lock"}]
      /\ word \in [Callers -> 0..Words]
  BY DEF CInv, TypeOK
<1>4. pc'[c] = pc[c] /\ word'[c] = word[c]
  BY <1>1, <1>2, <1>3 DEF Call, Step, CheckShared, ReadWord, Lock, Recheck, FetchOK, FetchError,
                          WriteWord, FinishWrite, Goto, Return
<1> QED
  BY <1>4 DEF StepsLeft, InProgress, Place

(* GetValue returns after at most Words + 5 steps of its own, however the  *)
(* others come in between and however often fetch fails.                   *)
THEOREM CacheStepsRunOut ==
  Spec => [](\A c \in Callers : StepsLeft(c) \in 0..(Words + 5)) /\ StepsRunOut
<1> DEFINE Fewer == \A c \in Callers :
                      /\ Step(c) => StepsLeft(c)' < StepsLeft(c)
                      /\ InProgress(c) /\ ~Step(c) => StepsLeft(c)' = StepsLeft(c)
<1>1. CInv /\ [Next]_vars => [Fewer]_vars
  BY OwnStep, OthersStep
<1>2. CInv => \A c \in Callers : StepsLeft(c) \in 0..(Words + 5)
  BY StepsBound DEF CInv
<1> QED
  BY CacheInvariant, <1>1, <1>2, PTL DEF Spec, StepsRunOut
=============================================================================
