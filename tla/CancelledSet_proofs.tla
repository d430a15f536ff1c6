------------------------- MODULE CancelledSet_proofs -------------------------
(***************************************************************************)
(* Proofs about the cancelled-case set, for any cases, lookups, capacity,  *)
(* TTL and clock bound.                                                    *)
(***************************************************************************)
EXTENDS CancelledSet, TLAPS

\* AnyCase is a case: Cases is not empty.
LEMMA AnyCaseType == AnyCase \in Cases
  BY CancelledSetAssumption DEF AnyCase

\* Every state of the set has the types the Go declarations give it: stamps are
\* past clock readings, the bucket never over- or underflows, and a lookup is at
\* one of the stages of isCancelled.
THEOREM TypeCorrect == Spec => []TypeOK
<1> USE CancelledSetAssumption DEF TypeOK, Time, Stamp, Absent
<1>1. Init => TypeOK
  <2> SUFFICES ASSUME Init PROVE TypeOK
    OBVIOUS
  <2>1. Empty \in [Cases -> Stamp]
    BY DEF Empty
  <2>2. current \in [Cases -> Stamp] /\ prev \in [Cases -> Stamp]
          /\ markedAt \in [Cases -> Stamp]
    BY <2>1 DEF Init
  <2>3. seenAt \in [Checkers -> Stamp] /\ freshest \in [Checkers -> Stamp]
          /\ swaps \in [Cases -> 0 .. 2]
    BY DEF Init
  <2>4. seenPrev \in [Checkers -> BOOLEAN] /\ answer \in [Checkers -> BOOLEAN]
          /\ swapped \in [Checkers -> BOOLEAN] /\ evicting \in BOOLEAN
    BY DEF Init
  <2>5. arg \in [Checkers -> Cases]
          /\ pc \in [Checkers -> {"idle", "current", "prev", "redis", "cache", "done"}]
    BY AnyCaseType DEF Init
  <2>6. /\ now \in Time /\ tokens \in 0 .. RateLimit /\ cutoff \in Int
        /\ redis \subseteq Cases /\ sends \in 0 .. RateLimit
    BY DEF Init
  <2> QED
    BY <2>2, <2>3, <2>4, <2>5, <2>6
<1>2. TypeOK /\ [Next]_vars => TypeOK'
  <2> SUFFICES ASSUME TypeOK, [Next]_vars PROVE TypeOK'
    OBVIOUS
  <2> USE DEF maps, bucket, cleanup, locals, history
  <2>1. ASSUME NEW c \in Cases, MarkCancelled(c) PROVE TypeOK'
    <3>1. tokens' \in 0 .. RateLimit
      BY <2>1 DEF MarkCancelled
    <3>2. CASE Refresh(c)
      BY <2>1, <3>1, <3>2 DEF MarkCancelled, Refresh
    <3>3. CASE Insert(c)
      BY <2>1, <3>1, <3>3 DEF MarkCancelled, Insert
    <3>4. CASE SwapAndInsert(c)
      BY <2>1, <3>1, <3>4 DEF MarkCancelled, SwapAndInsert, Empty
    <3> QED
      BY <2>1, <3>2, <3>3, <3>4 DEF MarkCancelled
  <2>2. ASSUME NEW c \in Cases, RedisSet(c) PROVE TypeOK'
    BY <2>2 DEF RedisSet
  <2>4. ASSUME NEW k \in Checkers, NEW c \in Cases, ReadMaps(k, c) PROVE TypeOK'
    BY <2>4 DEF ReadMaps, Newest
  <2>5. ASSUME NEW k \in Checkers, TestCurrent(k) PROVE TypeOK'
    BY <2>5 DEF TestCurrent, Answer, Proceed, Fallback
  <2>6. ASSUME NEW k \in Checkers, Promote(k) PROVE TypeOK'
    <3>1. current' \in [Cases -> Stamp]
      <4>1. current' \in {current, [current EXCEPT ![arg[k]] = now]}
        BY <2>6 DEF Promote
      <4>2. now \in Stamp
        OBVIOUS
      <4> QED
        BY <4>1, <4>2
    <3>2. /\ pc' \in [Checkers -> {"idle", "current", "prev", "redis", "cache", "done"}]
          /\ answer' \in [Checkers -> BOOLEAN]
      BY <2>6 DEF Promote, Answer, Proceed, Fallback
    <3>3. UNCHANGED <<arg, seenAt, seenPrev>>
      BY <2>6 DEF Promote, Answer, Proceed, Fallback
    <3> QED
      BY <2>6, <3>1, <3>2, <3>3 DEF Promote
  <2>7. ASSUME NEW k \in Checkers, QueryRedis(k) PROVE TypeOK'
    BY <2>7 DEF QueryRedis, Answer, Proceed
  <2>8. ASSUME NEW k \in Checkers, CacheRedisHit(k) PROVE TypeOK'
    BY <2>8 DEF CacheRedisHit, Answer
  <2>9. ASSUME NEW k \in Checkers, Return(k) PROVE TypeOK'
    BY <2>9, AnyCaseType DEF Return
  <2>10. CASE EvictBegin
    BY <2>10 DEF EvictBegin
  <2>11. CASE EvictRun
    <3>1. ASSUME NEW m \in [Cases -> Stamp]
          PROVE Without(m, cutoff) \in [Cases -> Stamp]
      BY DEF Without
    <3>2. current' \in [Cases -> Stamp] /\ prev' \in [Cases -> Stamp]
      BY <2>11, <3>1 DEF EvictRun
    <3>5. evicting' \in BOOLEAN
      BY <2>11, Zenon DEF EvictRun
    <3>6. cutoff' \in Int
      <4>1. cutoff' = 0
        BY <2>11, Zenon DEF EvictRun
      <4> QED
        BY <4>1
    <3>4. UNCHANGED <<now, bucket, redis, locals, history>>
      BY <2>11 DEF EvictRun
    <3> QED
      BY <3>2, <3>4, <3>5, <3>6
  <2>12. CASE RefillBegin
    BY <2>12 DEF RefillBegin
  <2>3. CASE RefillSend
    BY <2>3 DEF RefillSend
  <2>13. CASE Tick
    BY <2>13 DEF Tick
  <2>14. CASE UNCHANGED vars
    BY <2>14 DEF vars
  <2> QED
    BY <2>1, <2>2, <2>3, <2>4, <2>5, <2>6, <2>7, <2>8, <2>9, <2>10, <2>11,
       <2>12, <2>13, <2>14 DEF Next
<1> QED
  BY <1>1, <1>2, PTL DEF Spec


-----------------------------------------------------------------------------
(***************************************************************************)
(* The cutoff of a running eviction is at least a TTL in the past, and of  *)
(* two stamps of one case the newer is in the current generation: behind   *)
(* an expired one a lookup finds nothing fresh in the previous generation. *)
(***************************************************************************)
Clocked == evicting => cutoff <= now - TTL

PrevNeverNewer ==
  \A c \in Cases : current[c] # Absent => prev[c] <= current[c]

OrderInv == Clocked /\ PrevNeverNewer

\* One step keeps the stamps ordered: every write to the current generation uses
\* the present time, and the previous generation is only ever replaced by a
\* current one that is emptied in the same step.
LEMMA OrderStep == TypeOK /\ OrderInv /\ [Next]_vars => OrderInv'
<1> SUFFICES ASSUME TypeOK, OrderInv, [Next]_vars PROVE OrderInv'
  OBVIOUS
<1> USE CancelledSetAssumption
    DEF TypeOK, Time, Stamp, Absent, OrderInv, Clocked, PrevNeverNewer,
        maps, bucket, cleanup, locals, history
<1>1. ASSUME NEW c \in Cases, MarkCancelled(c) PROVE OrderInv'
  <2>1. CASE Refresh(c)
    BY <1>1, <2>1 DEF MarkCancelled, Refresh
  <2>2. CASE Insert(c)
    BY <1>1, <2>2 DEF MarkCancelled, Insert
  <2>3. CASE SwapAndInsert(c)
    BY <1>1, <2>3 DEF MarkCancelled, SwapAndInsert, Empty
  <2> QED
    BY <1>1, <2>1, <2>2, <2>3 DEF MarkCancelled
<1>2. ASSUME NEW c \in Cases, RedisSet(c) PROVE OrderInv'
  BY <1>2 DEF RedisSet
<1>3. ASSUME NEW k \in Checkers, NEW c \in Cases, ReadMaps(k, c) PROVE OrderInv'
  BY <1>3 DEF ReadMaps
<1>4. ASSUME NEW k \in Checkers, TestCurrent(k) \/ QueryRedis(k) \/ Return(k)
      PROVE OrderInv'
  <2>1. UNCHANGED <<now, current, prev, markedAt, evicting, cutoff>>
    BY <1>4 DEF TestCurrent, QueryRedis, Return
  <2> QED
    BY <2>1
<1>5. ASSUME NEW k \in Checkers, Promote(k) PROVE OrderInv'
  <2>1. UNCHANGED <<now, prev, markedAt, evicting, cutoff>>
    BY <1>5 DEF Promote
  <2>2. current' \in {current, [current EXCEPT ![arg[k]] = now]}
    BY <1>5 DEF Promote
  <2> QED
    BY <2>1, <2>2
<1>6. ASSUME NEW k \in Checkers, CacheRedisHit(k) PROVE OrderInv'
  BY <1>6 DEF CacheRedisHit
<1>7. CASE EvictBegin
  BY <1>7 DEF EvictBegin
<1>8. CASE EvictRun
  BY <1>8 DEF EvictRun, Without
<1>9. CASE RefillBegin \/ RefillSend
  BY <1>9 DEF RefillBegin, RefillSend
<1>10. CASE Tick
  BY <1>10 DEF Tick
<1>11. CASE UNCHANGED vars
  BY <1>11 DEF vars
<1> QED
  BY <1>1, <1>2, <1>3, <1>4, <1>5, <1>6, <1>7, <1>8, <1>9, <1>10, <1>11 DEF Next

-----------------------------------------------------------------------------
(***************************************************************************)
(* What a lookup knows at each stage.  Before the write lock, the newest   *)
(* stamp it could have seen is the one it read, or is still the stamp of   *)
(* the previous generation; after it, that stamp has expired or the        *)
(* generations were swapped meanwhile.                                     *)
(***************************************************************************)
LookupInv ==
  \A k \in Checkers :
    /\ pc[k] \in {"current", "prev"} =>
         /\ seenAt[k] # Absent => freshest[k] = seenAt[k]
         /\ seenAt[k] = Absent /\ ~seenPrev[k] => freshest[k] = Absent
         /\ seenAt[k] = Absent /\ Fresh(freshest[k]) =>
              swapped[k] \/ prev[arg[k]] = freshest[k]
    /\ pc[k] = "prev" => ~Fresh(seenAt[k])
    /\ pc[k] = "redis" \/ (pc[k] = "done" /\ ~answer[k]) =>
         swapped[k] \/ ~Fresh(freshest[k])

\* One step keeps what the lookups know.
LEMMA LookupStep ==
  TypeOK /\ OrderInv /\ LookupInv /\ [Next]_vars => LookupInv'
<1> SUFFICES ASSUME TypeOK, OrderInv, LookupInv, [Next]_vars PROVE LookupInv'
  OBVIOUS
<1> USE CancelledSetAssumption
    DEF TypeOK, Time, Stamp, Absent, LookupInv, Fresh, maps, bucket, cleanup, locals, history
<1>1. ASSUME NEW c \in Cases, MarkCancelled(c) PROVE LookupInv'
  <2>1. CASE Refresh(c)
    BY <1>1, <2>1 DEF MarkCancelled, Refresh
  <2>2. CASE Insert(c)
    BY <1>1, <2>2 DEF MarkCancelled, Insert
  <2>3. CASE SwapAndInsert(c)
    BY <1>1, <2>3 DEF MarkCancelled, SwapAndInsert
  <2> QED
    BY <1>1, <2>1, <2>2, <2>3 DEF MarkCancelled
<1>2. ASSUME NEW c \in Cases, RedisSet(c) PROVE LookupInv'
  BY <1>2 DEF RedisSet
<1>3. ASSUME NEW k \in Checkers, NEW c \in Cases, ReadMaps(k, c) PROVE LookupInv'
  BY <1>3 DEF ReadMaps, Newest, OrderInv, Clocked, PrevNeverNewer
<1>4. ASSUME NEW k \in Checkers, TestCurrent(k) PROVE LookupInv'
  BY <1>4 DEF TestCurrent, Answer, Proceed, Fallback
<1>5. ASSUME NEW k \in Checkers, Promote(k) PROVE LookupInv'
  BY <1>5 DEF Promote, Answer, Proceed, Fallback
<1>6. ASSUME NEW k \in Checkers, QueryRedis(k) PROVE LookupInv'
  BY <1>6 DEF QueryRedis, Answer, Proceed
<1>7. ASSUME NEW k \in Checkers, CacheRedisHit(k) PROVE LookupInv'
  BY <1>7 DEF CacheRedisHit, Answer
<1>8. ASSUME NEW k \in Checkers, Return(k) PROVE LookupInv'
  BY <1>8 DEF Return
<1>9. CASE EvictBegin \/ RefillBegin \/ RefillSend
  BY <1>9 DEF EvictBegin, RefillBegin, RefillSend
<1>10. CASE EvictRun
  BY <1>10 DEF EvictRun, Without, OrderInv, Clocked
<1>11. CASE Tick
  BY <1>11 DEF Tick
<1>12. CASE UNCHANGED vars
  BY <1>12 DEF vars
<1> QED
  BY <1>1, <1>2, <1>3, <1>4, <1>5, <1>6, <1>7, <1>8, <1>9, <1>10, <1>11,
     <1>12 DEF Next

\* A lookup misses a case whose newest stamp is inside the TTL only when the
\* generations were swapped inside that lookup.
THEOREM MissNeedsSwapHolds == Spec => []MissNeedsSwap
<1>1. Init => OrderInv /\ LookupInv
  BY CancelledSetAssumption
     DEF Init, OrderInv, Clocked, PrevNeverNewer, LookupInv, Empty, Absent
<1>2. LookupInv => MissNeedsSwap
  BY DEF LookupInv, MissNeedsSwap
<1> QED
  BY <1>1, <1>2, TypeCorrect, OrderStep, LookupStep, PTL DEF Spec

-----------------------------------------------------------------------------
(***************************************************************************)
(* The entry that stands for the last MarkCancelled of a case, as stamps:  *)
(* it is in the current generation, after one swap in either of the two,   *)
(* with a stamp no older than that call.                                   *)
(***************************************************************************)
RetentionInv ==
  \A c \in Cases : Fresh(markedAt[c]) =>
    /\ swaps[c] = 0 => markedAt[c] <= current[c]
    /\ swaps[c] = 1 => markedAt[c] <= current[c] \/ markedAt[c] <= prev[c]

\* One step keeps those entries: eviction takes only stamps a TTL old, and a
\* swap moves a whole generation.
LEMMA RetentionStep ==
  TypeOK /\ OrderInv /\ RetentionInv /\ [Next]_vars => RetentionInv'
<1> SUFFICES ASSUME TypeOK, OrderInv, RetentionInv, [Next]_vars
             PROVE RetentionInv'
  OBVIOUS
<1> USE CancelledSetAssumption
    DEF TypeOK, Time, Stamp, Absent, RetentionInv, Fresh, OrderInv, Clocked,
        maps, bucket, cleanup, locals, history
<1>1. ASSUME NEW c \in Cases, MarkCancelled(c) PROVE RetentionInv'
  <2>1. CASE Refresh(c)
    BY <1>1, <2>1 DEF MarkCancelled, Refresh
  <2>2. CASE Insert(c)
    BY <1>1, <2>2 DEF MarkCancelled, Insert
  <2>3. CASE SwapAndInsert(c)
    BY <1>1, <2>3 DEF MarkCancelled, SwapAndInsert, Empty
  <2> QED
    BY <1>1, <2>1, <2>2, <2>3 DEF MarkCancelled
<1>2. ASSUME NEW c \in Cases, RedisSet(c) PROVE RetentionInv'
  BY <1>2 DEF RedisSet
<1>3. ASSUME NEW k \in Checkers, NEW c \in Cases, ReadMaps(k, c)
      PROVE RetentionInv'
  BY <1>3 DEF ReadMaps
<1>4. ASSUME NEW k \in Checkers, TestCurrent(k) \/ QueryRedis(k) \/ Return(k)
      PROVE RetentionInv'
  <2>1. UNCHANGED <<now, current, prev, markedAt, swaps>>
    BY <1>4 DEF TestCurrent, QueryRedis, Return
  <2> QED
    BY <2>1
<1>5. ASSUME NEW k \in Checkers, Promote(k) \/ CacheRedisHit(k)
      PROVE RetentionInv'
  <2>1. UNCHANGED <<now, prev, markedAt, swaps>>
    BY <1>5 DEF Promote, CacheRedisHit
  <2>2. current' \in {current, [current EXCEPT ![arg[k]] = now]}
    BY <1>5 DEF Promote, CacheRedisHit
  <2> QED
    BY <2>1, <2>2
<1>6. CASE EvictBegin \/ RefillBegin \/ RefillSend
  BY <1>6 DEF EvictBegin, RefillBegin, RefillSend
<1>7. CASE EvictRun
  <2>1. UNCHANGED <<now, markedAt, swaps>> /\ evicting
    BY <1>7, Zenon DEF EvictRun
  <2>2. current' = Without(current, cutoff) /\ prev' = Without(prev, cutoff)
    BY <1>7, Zenon DEF EvictRun
  <2> QED
    BY <2>1, <2>2 DEF Without
<1>8. CASE Tick
  BY <1>8 DEF Tick
<1>9. CASE UNCHANGED vars
  BY <1>9 DEF vars
<1> QED
  BY <1>1, <1>2, <1>3, <1>4, <1>5, <1>6, <1>7, <1>8, <1>9 DEF Next

\* A cancellation leaves memory before its TTL only after two generation swaps.
THEOREM RetainedTwoGenerationsHolds == Spec => []RetainedTwoGenerations
<1>1. Init => OrderInv /\ RetentionInv
  BY CancelledSetAssumption
     DEF Init, OrderInv, Clocked, PrevNeverNewer, RetentionInv, Fresh, Empty,
         Absent
<1>2. TypeOK /\ RetentionInv => RetainedTwoGenerations
  BY CancelledSetAssumption
     DEF TypeOK, Time, Stamp, Absent, RetentionInv, RetainedTwoGenerations, Fresh
<1> QED
  BY <1>1, <1>2, TypeCorrect, OrderStep, RetentionStep, PTL DEF Spec

-----------------------------------------------------------------------------
(***************************************************************************)
(* Every case in the maps, in Redis or in a lookup's hands was cancelled.  *)
(***************************************************************************)
OriginInv ==
  /\ \A c \in Cases :
       current[c] # Absent \/ prev[c] # Absent => EverCancelled(c)
  /\ \A k \in Checkers :
       /\ pc[k] = "current" /\ seenAt[k] # Absent => EverCancelled(arg[k])
       /\ pc[k] = "cache" => EverCancelled(arg[k])
       /\ pc[k] = "done" /\ answer[k] => EverCancelled(arg[k])

\* One step keeps the origin of every entry and of every answer.
LEMMA OriginStep == TypeOK /\ OriginInv /\ [Next]_vars => OriginInv'
<1> SUFFICES ASSUME TypeOK, OriginInv, [Next]_vars PROVE OriginInv'
  OBVIOUS
<1> USE CancelledSetAssumption
    DEF TypeOK, Time, Stamp, Absent, OriginInv, EverCancelled, maps, bucket, cleanup, locals, history
<1>1. ASSUME NEW c \in Cases, MarkCancelled(c) PROVE OriginInv'
  <2>1. CASE Refresh(c)
    BY <1>1, <2>1 DEF MarkCancelled, Refresh
  <2>2. CASE Insert(c)
    BY <1>1, <2>2 DEF MarkCancelled, Insert
  <2>3. CASE SwapAndInsert(c)
    BY <1>1, <2>3 DEF MarkCancelled, SwapAndInsert, Empty
  <2> QED
    BY <1>1, <2>1, <2>2, <2>3 DEF MarkCancelled
<1>2. ASSUME NEW c \in Cases, RedisSet(c) PROVE OriginInv'
  BY <1>2 DEF RedisSet
<1>4. ASSUME NEW k \in Checkers, NEW c \in Cases, ReadMaps(k, c) PROVE OriginInv'
  BY <1>4 DEF ReadMaps
<1>5. ASSUME NEW k \in Checkers, TestCurrent(k) PROVE OriginInv'
  BY <1>5 DEF TestCurrent, Answer, Proceed, Fallback, Fresh
<1>6. ASSUME NEW k \in Checkers, Promote(k) PROVE OriginInv'
  <2>1. CASE Fresh(prev[arg[k]])
    BY <1>6, <2>1 DEF Promote, Answer, Fresh
  <2>2. CASE ~Fresh(prev[arg[k]])
    BY <1>6, <2>2 DEF Promote, Answer, Proceed, Fallback
  <2> QED
    BY <2>1, <2>2
<1>7. ASSUME NEW k \in Checkers, QueryRedis(k) PROVE OriginInv'
  BY <1>7 DEF QueryRedis, Answer, Proceed
<1>8. ASSUME NEW k \in Checkers, CacheRedisHit(k) PROVE OriginInv'
  BY <1>8 DEF CacheRedisHit, Answer
<1>9. ASSUME NEW k \in Checkers, Return(k) PROVE OriginInv'
  BY <1>9 DEF Return
<1>10. CASE EvictBegin \/ RefillBegin \/ RefillSend \/ Tick
  BY <1>10 DEF EvictBegin, RefillBegin, RefillSend, Tick
<1>11. CASE EvictRun
  <2>1. UNCHANGED <<redis, markedAt, locals>>
    BY <1>11, Zenon DEF EvictRun
  <2>2. current' = Without(current, cutoff) /\ prev' = Without(prev, cutoff)
    BY <1>11, Zenon DEF EvictRun
  <2> QED
    BY <2>1, <2>2 DEF Without
<1>12. CASE UNCHANGED vars
  BY <1>12 DEF vars
<1> QED
  BY <1>1, <1>2, <1>4, <1>5, <1>6, <1>7, <1>8, <1>9, <1>10, <1>11,
     <1>12 DEF Next

\* No lookup reports a case that no cancellation named.
THEOREM TrueOnlyIfCancelledHolds == Spec => []TrueOnlyIfCancelled
<1>1. Init => OriginInv
  BY DEF Init, OriginInv, Empty
<1>2. OriginInv => TrueOnlyIfCancelled
  BY DEF OriginInv, TrueOnlyIfCancelled
<1> QED
  BY <1>1, <1>2, TypeCorrect, OriginStep, PTL DEF Spec
=============================================================================
