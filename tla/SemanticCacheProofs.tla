------------------------ MODULE SemanticCacheProofs ------------------------
(***************************************************************************)
(* Theorems about SemanticCache for any calls, texts and embeddings.       *)
(* Redis and the process share no memory, so what Redis holds is tied to   *)
(* where the puts have got: Behind says that a key exists only after its   *)
(* HSET and has a vector then; Sweeping says that while an invalidation    *)
(* runs it still has every key to come that it found and that is there.    *)
(* The counters follow the set of lookups that this process has answered.  *)
(***************************************************************************)
EXTENDS SemanticCache, FiniteSetTheorems, TLAPS

\* A put that has not written.
Unwritten == {"new", "write"}

Behind ==
    /\ \A k \in Stores : pc[k] \notin {"search", "scan"}
    /\ \A k \in Stores : pc[k] = "write" => vector[k] # NoVector
    /\ \A k \in Stores : entries[k] # "absent" => pc[k] \notin Unwritten /\ vector[k] # NoVector

Sweeping ==
    /\ \A c \in Clears : \A k \in found[c] : pc[k] \notin Unwritten
    /\ \A c \in Clears : pc[c] = "scan" =>
          \A k \in found[c] : k \in due[c] \/ entries[k] = "absent"

IInv ==
    /\ CacheTypeOK
    /\ Behind
    /\ Sweeping
    /\ InvalidatedIsGone
    /\ OnlyUnfinishedAreImmortal

LEMMA NoVectorIsNone == \A v \in Vectors : v # NoVector
  BY DEF Vectors, NoVector

LEMMA InitEstablishes == Init => IInv
<1> SUFFICES ASSUME Init PROVE IInv
  OBVIOUS
<1>1. redisUp \in BOOLEAN /\ index \in BOOLEAN
  BY Zenon DEF Init
<1>2. CacheTypeOK
  BY <1>1 DEF Init, CacheTypeOK
<1>3. Behind /\ Sweeping /\ InvalidatedIsGone /\ OnlyUnfinishedAreImmortal
  BY CacheConstants DEF Init, Calls, Behind, Unwritten, Sweeping, InvalidatedIsGone,
     OnlyUnfinishedAreImmortal
<1> QED
  BY <1>2, <1>3 DEF IInv

\* The steps that leave Redis and the invalidations alone.
LEMMA CallStep ==
  ASSUME IInv, NEW c \in Calls, Refuse(c) \/ Embed(c) \/ RedisAway(c)
  PROVE  IInv'
<1> USE CacheConstants DEF IInv, CacheTypeOK, Calls, Go, redis, clears, counters
<1>1. CASE Refuse(c)
  BY <1>1 DEF Refuse, Behind, Unwritten, Sweeping, InvalidatedIsGone, OnlyUnfinishedAreImmortal
<1>2. CASE Embed(c)
  <2>1. PICK v \in Vectors : vector' = [vector EXCEPT ![c] = v]
    BY <1>2 DEF Embed
  <2>2. CacheTypeOK'
    BY <1>2, <2>1, NoVectorIsNone DEF Embed
  <2>3. Behind'
    BY <1>2, <2>1, NoVectorIsNone DEF Embed, Behind, Unwritten
  <2>4. Sweeping' /\ InvalidatedIsGone' /\ OnlyUnfinishedAreImmortal'
    BY <1>2 DEF Embed, Behind, Unwritten, Sweeping, InvalidatedIsGone, OnlyUnfinishedAreImmortal
  <2> QED
    BY <2>2, <2>3, <2>4
<1>3. CASE RedisAway(c)
  <2>1. CacheTypeOK'
    BY <1>3 DEF RedisAway, Behind, Unwritten
  <2>2. Behind'
    BY <1>3 DEF RedisAway, Behind, Unwritten
  <2>3. Sweeping' /\ InvalidatedIsGone' /\ OnlyUnfinishedAreImmortal'
    BY <1>3 DEF RedisAway, Behind, Unwritten, Sweeping, InvalidatedIsGone, OnlyUnfinishedAreImmortal
  <2> QED
    BY <2>1, <2>2, <2>3
<1> QED
  BY <1>1, <1>2, <1>3

\* The two commands of a put, and what Redis does to a key by itself.
LEMMA StoreStep ==
  ASSUME IInv, NEW k \in Stores, StoreWrite(k) \/ StoreExpire(k) \/ Vanish(k) \/ Backfill(k)
  PROVE  IInv'
<1> USE CacheConstants DEF IInv, CacheTypeOK, Calls, Go, redis, clears, counters
<1>1. CASE StoreWrite(k)
  <2>1. CacheTypeOK' /\ Behind'
    BY <1>1 DEF StoreWrite, Behind, Unwritten
  <2>2. Sweeping' /\ InvalidatedIsGone' /\ OnlyUnfinishedAreImmortal'
    BY <1>1 DEF StoreWrite, Behind, Unwritten, Sweeping, InvalidatedIsGone, OnlyUnfinishedAreImmortal
  <2> QED
    BY <2>1, <2>2
<1>2. CASE StoreExpire(k)
  <2>1. CacheTypeOK' /\ Behind'
    BY <1>2 DEF StoreExpire, Behind, Unwritten
  <2>2. Sweeping' /\ InvalidatedIsGone' /\ OnlyUnfinishedAreImmortal'
    BY <1>2 DEF StoreExpire, Behind, Unwritten, Sweeping, InvalidatedIsGone, OnlyUnfinishedAreImmortal
  <2> QED
    BY <2>1, <2>2
<1>3. CASE Vanish(k)
  <2>1. CacheTypeOK' /\ Behind'
    BY <1>3 DEF Vanish, Remove, Behind, Unwritten
  <2>2. Sweeping' /\ InvalidatedIsGone' /\ OnlyUnfinishedAreImmortal'
    BY <1>3 DEF Vanish, Remove, Sweeping, InvalidatedIsGone, OnlyUnfinishedAreImmortal
  <2> QED
    BY <2>1, <2>2
<1>4. CASE Backfill(k)
  BY <1>4 DEF Backfill, Behind, Unwritten, Sweeping, InvalidatedIsGone, OnlyUnfinishedAreImmortal
<1> QED
  BY <1>1, <1>2, <1>3, <1>4

LEMMA LookupStep ==
  ASSUME IInv, NEW l \in Lookups,
         LookupNoIndex(l) \/ LookupMiss(l) \/ \E k \in Stores : LookupHit(l, k)
  PROVE  IInv'
<1> USE CacheConstants DEF IInv, CacheTypeOK, Calls, Go, redis, clears, counters
<1>1. PICK a \in Stores \union {"miss"} : Answered(l, a)
  BY DEF LookupNoIndex, LookupMiss, LookupHit
<1>2. hits' \in Nat /\ misses' \in Nat
  BY DEF LookupNoIndex, LookupMiss, LookupHit
<1>3. CacheTypeOK' /\ Behind'
  BY <1>1, <1>2 DEF Answered, Behind, Unwritten
<1>4. Sweeping' /\ InvalidatedIsGone' /\ OnlyUnfinishedAreImmortal'
  BY <1>1 DEF Answered, Behind, Unwritten, Sweeping, InvalidatedIsGone, OnlyUnfinishedAreImmortal
<1> QED
  BY <1>3, <1>4

LEMMA ClearStep ==
  ASSUME IInv, NEW c \in Clears,
         ClearBegin(c) \/ ClearEnd(c) \/ \E k \in Stores : ClearDelete(c, k)
  PROVE  IInv'
<1> USE CacheConstants DEF IInv, CacheTypeOK, Calls, Go, redis, clears, counters
<1>1. CASE ClearBegin(c)
  <2>1. PICK p \in SUBSET Stores :
           /\ pattern' = [pattern EXCEPT ![c] = p]
           /\ due' = [due EXCEPT ![c] = Matching(p)]
           /\ found' = [found EXCEPT ![c] = Matching(p)]
    BY <1>1 DEF ClearBegin
  <2>2. CacheTypeOK' /\ Behind'
    BY <1>1, <2>1 DEF ClearBegin, Matching, Behind, Unwritten
  <2>3. Sweeping' /\ InvalidatedIsGone' /\ OnlyUnfinishedAreImmortal'
    BY <1>1, <2>1 DEF ClearBegin, Matching, Behind, Unwritten, Sweeping, InvalidatedIsGone,
       OnlyUnfinishedAreImmortal
  <2> QED
    BY <2>2, <2>3
<1>2. CASE ClearEnd(c)
  <2>1. CacheTypeOK' /\ Behind'
    BY <1>2 DEF ClearEnd, Behind, Unwritten
  <2>2. \A k \in found[c] : entries[k] = "absent"
    BY <1>2 DEF ClearEnd, Matching, Sweeping
  <2>3. Sweeping' /\ InvalidatedIsGone' /\ OnlyUnfinishedAreImmortal'
    BY <1>2, <2>2 DEF ClearEnd, Unwritten, Sweeping, InvalidatedIsGone, OnlyUnfinishedAreImmortal
  <2> QED
    BY <2>1, <2>3
<1>3. ASSUME NEW k \in Stores, ClearDelete(c, k) PROVE IInv'
  <2>1. CacheTypeOK' /\ Behind'
    BY <1>3 DEF ClearDelete, Remove, Behind, Unwritten
  <2>2. Sweeping' /\ InvalidatedIsGone' /\ OnlyUnfinishedAreImmortal'
    BY <1>3 DEF ClearDelete, Remove, Sweeping, InvalidatedIsGone, OnlyUnfinishedAreImmortal
  <2> QED
    BY <2>1, <2>2
<1> QED
  BY <1>1, <1>2, <1>3

LEMMA ProcessStep ==
  ASSUME IInv, FindIndex \/ CreateIndex \/ Crash \/ Outage
  PROVE  IInv'
<1> USE CacheConstants DEF IInv, CacheTypeOK, Calls, redis, clears, counters
<1>1. CASE FindIndex
  BY <1>1 DEF FindIndex, Behind, Sweeping, InvalidatedIsGone, OnlyUnfinishedAreImmortal
<1>2. CASE CreateIndex
  BY <1>2 DEF CreateIndex, Behind, Sweeping, InvalidatedIsGone, OnlyUnfinishedAreImmortal
<1>3. CASE Crash
  <2>1. CacheTypeOK' /\ Behind'
    BY <1>3 DEF Crash, Behind, Unwritten
  <2>2. Sweeping' /\ InvalidatedIsGone' /\ OnlyUnfinishedAreImmortal'
    BY <1>3 DEF Crash, Unwritten, Sweeping, InvalidatedIsGone, OnlyUnfinishedAreImmortal
  <2> QED
    BY <2>1, <2>2
<1>4. CASE Outage
  BY <1>4 DEF Outage, Behind, Sweeping, InvalidatedIsGone, OnlyUnfinishedAreImmortal
<1> QED
  BY <1>1, <1>2, <1>3, <1>4

LEMMA StutterStep == IInv /\ UNCHANGED vars => IInv'
  BY DEF vars, IInv, CacheTypeOK, Behind, Sweeping, Matching, InvalidatedIsGone,
     OnlyUnfinishedAreImmortal

LEMMA Invariance == Spec => []IInv
<1>1. IInv /\ [Next]_vars => IInv'
  <2> SUFFICES ASSUME IInv, [Next]_vars PROVE IInv'
    OBVIOUS
  <2>1. ASSUME NEW l \in Lookups, LookupNoIndex(l) \/ LookupMiss(l) \/ \E k \in Stores : LookupHit(l, k)
        PROVE  IInv'
    BY <2>1, LookupStep
  <2>2. ASSUME NEW c \in Clears, ClearBegin(c) \/ ClearEnd(c) \/ \E k \in Stores : ClearDelete(c, k)
        PROVE  IInv'
    BY <2>2, ClearStep
  <2> QED
    BY <2>1, <2>2, CallStep, StoreStep, ProcessStep, StutterStep DEF Next
<1> QED
  BY InitEstablishes, <1>1, PTL DEF Spec

\* The state keeps its types, and the index holds keys that exist, with vectors.
THEOREM CacheTypeCorrect == Spec => []CacheTypeOK
  BY Invariance, PTL DEF IInv

\* What an acknowledged invalidation found when it began stays gone.
THEOREM InvalidatedIsGoneHolds == Spec => []InvalidatedIsGone
  BY Invariance, PTL DEF IInv

\* Only a put that has not answered leaves an entry without its expiry.
THEOREM OnlyUnfinishedAreImmortalHolds == Spec => []OnlyUnfinishedAreImmortal
  BY Invariance, PTL DEF IInv

(***************************************************************************)
(* The counters                                                            *)
(***************************************************************************)
DoneWith(A) == {l \in Lookups : pc[l] = "done" /\ answer[l] \in A}

CountInv ==
    /\ IsFiniteSet(DoneWith(Stores)) /\ IsFiniteSet(DoneWith(Stores \union {"miss"}))
    /\ hits = Cardinality(DoneWith(Stores))
    /\ hits + misses = Cardinality(DoneWith(Stores \union {"miss"}))
    /\ requests = hits + misses

LEMMA CountInit == Init => CountInv
<1> SUFFICES ASSUME Init PROVE CountInv
  OBVIOUS
<1>1. DoneWith(Stores) = {} /\ DoneWith(Stores \union {"miss"}) = {}
  BY DEF Init, DoneWith, Calls
<1>2. IsFiniteSet({}) /\ Cardinality({}) = 0
  BY FS_EmptySet
<1>3. hits = 0 /\ misses = 0 /\ requests = 0
  BY DEF Init
<1> QED
  BY <1>1, <1>2, <1>3 DEF CountInv

\* A lookup that is answered enters the sets it belongs to, and it was in none.
LEMMA CountAnswer ==
  ASSUME IInv, CountInv, NEW l \in Lookups, NEW a \in Stores \union {"miss"}, Answered(l, a),
         NEW A, IsFiniteSet(DoneWith(A))
  PROVE  /\ IsFiniteSet(DoneWith(A)')
         /\ Cardinality(DoneWith(A)') = Cardinality(DoneWith(A)) + (IF a \in A THEN 1 ELSE 0)
<1> USE DEF IInv, CacheTypeOK, Calls, Answered, Go
<1>1. l \notin DoneWith(A)
  BY DEF DoneWith
<1>2. DoneWith(A)' = IF a \in A THEN DoneWith(A) \union {l} ELSE DoneWith(A)
  BY DEF DoneWith
<1>3. Cardinality(DoneWith(A)) \in Nat
  BY FS_CardinalityType
<1>4. /\ IsFiniteSet(DoneWith(A) \union {l})
      /\ Cardinality(DoneWith(A) \union {l}) = Cardinality(DoneWith(A)) + 1
  BY <1>1, FS_AddElement
<1> QED
  BY <1>2, <1>3, <1>4

\* No other step answers a lookup of this process.
LEMMA CountSame ==
  ASSUME IInv, CountInv, UNCHANGED <<answer, counters>>,
         \A l \in Lookups : pc'[l] = "done" <=> pc[l] = "done"
  PROVE  CountInv'
<1>1. \A A : DoneWith(A)' = DoneWith(A)
  BY DEF DoneWith
<1> QED
  BY <1>1 DEF CountInv, counters

LEMMA CountStep == IInv /\ CountInv /\ [Next]_vars => CountInv'
<1> SUFFICES ASSUME IInv, CountInv, [Next]_vars PROVE CountInv'
  OBVIOUS
<1> USE CacheConstants
<1> USE DEF IInv, CacheTypeOK, Calls, Go
<1>1. ASSUME NEW l \in Lookups, LookupNoIndex(l) \/ LookupMiss(l) PROVE CountInv'
  <2>1. Answered(l, "miss") /\ misses' = misses + 1 /\ hits' = hits /\ requests' = requests + 1
    BY <1>1 DEF LookupNoIndex, LookupMiss, Answered
  <2>2. /\ IsFiniteSet(DoneWith(Stores)')
        /\ Cardinality(DoneWith(Stores)') = Cardinality(DoneWith(Stores))
    BY <2>1, CountAnswer, FS_CardinalityType DEF CountInv
  <2>3. /\ IsFiniteSet(DoneWith(Stores \union {"miss"})')
        /\ Cardinality(DoneWith(Stores \union {"miss"})')
              = Cardinality(DoneWith(Stores \union {"miss"})) + 1
    BY <2>1, CountAnswer DEF CountInv
  <2> QED
    BY <2>1, <2>2, <2>3 DEF CountInv
<1>2. ASSUME NEW l \in Lookups, NEW k \in Stores, LookupHit(l, k) PROVE CountInv'
  <2>1. Answered(l, k) /\ misses' = misses /\ hits' = hits + 1 /\ requests' = requests + 1
    BY <1>2 DEF LookupHit, Answered
  <2>2. /\ IsFiniteSet(DoneWith(Stores)')
        /\ Cardinality(DoneWith(Stores)') = Cardinality(DoneWith(Stores)) + 1
    BY <2>1, CountAnswer DEF CountInv
  <2>3. /\ IsFiniteSet(DoneWith(Stores \union {"miss"})')
        /\ Cardinality(DoneWith(Stores \union {"miss"})')
              = Cardinality(DoneWith(Stores \union {"miss"})) + 1
    BY <2>1, CountAnswer DEF CountInv
  <2> QED
    BY <2>1, <2>2, <2>3 DEF CountInv
<1>3. ASSUME NEW c \in Calls, Refuse(c) \/ Embed(c) \/ RedisAway(c) PROVE CountInv'
  BY <1>3, CountSame DEF Refuse, Embed, RedisAway
<1>4. ASSUME NEW k \in Stores, StoreWrite(k) \/ StoreExpire(k) \/ Vanish(k) \/ Backfill(k)
      PROVE  CountInv'
  BY <1>4, CountSame DEF StoreWrite, StoreExpire, Vanish, Backfill
<1>5. ASSUME NEW c \in Clears, ClearBegin(c) \/ ClearEnd(c) \/ \E k \in Stores : ClearDelete(c, k)
      PROVE  CountInv'
  BY <1>5, CountSame DEF ClearBegin, ClearEnd, ClearDelete
<1>6. CASE FindIndex \/ CreateIndex \/ Outage
  BY <1>6, CountSame DEF FindIndex, CreateIndex, Outage
<1>7. CASE Crash
  <2>1. DoneWith(Stores)' = {} /\ DoneWith(Stores \union {"miss"})' = {}
    BY <1>7 DEF Crash, DoneWith
  <2>2. IsFiniteSet({}) /\ Cardinality({}) = 0
    BY FS_EmptySet
  <2>3. hits' = 0 /\ misses' = 0 /\ requests' = 0
    BY <1>7 DEF Crash
  <2> HIDE DEF IInv
  <2>4. IsFiniteSet(DoneWith(Stores)') /\ Cardinality(DoneWith(Stores)') = 0
    BY <2>1, <2>2
  <2>5. /\ IsFiniteSet(DoneWith(Stores \union {"miss"})')
        /\ Cardinality(DoneWith(Stores \union {"miss"})') = 0
    BY <2>1, <2>2
  <2> QED
    BY <2>3, <2>4, <2>5 DEF CountInv
<1>8. CASE UNCHANGED vars
  <2>1. UNCHANGED <<answer, counters>> /\ pc' = pc
    BY <1>8 DEF vars, counters
  <2> QED
    BY <2>1, CountSame
<1> QED
  BY <1>1, <1>2, <1>3, <1>4, <1>5, <1>6, <1>7, <1>8 DEF Next

\* hit_rate is computed over exactly the lookups that this process has answered
\* (semantic_cache.py: _hits and _misses), for any number of calls, outages and
\* crashes.
THEOREM StatsCountAnswersHolds == Spec => []StatsCountAnswers
<1>1. CountInv => StatsCountAnswers
  BY DEF CountInv, DoneWith, StatsCountAnswers, Stats
<1> QED
  BY <1>1, CountInit, CountStep, Invariance, PTL DEF Spec
=============================================================================
