---------------------------- MODULE CancelledSet ----------------------------
(***************************************************************************)
(* The cancelled-case set of one ClamGo process (src/pkg/scanner/          *)
(* scanner.go): two generations of time-stamped case ids behind one        *)
(* RWMutex, written by the case.cancelled consumer (MarkCancelled), by the *)
(* cleanup goroutine (StartCleanup, evictStaleCancelled) and by the lookup *)
(* itself (isCancelled promotes and caches), with Redis as second level.   *)
(* One behaviour is one life of the process: a restart empties the set.    *)
(*                                                                         *)
(* A definition X_Y is X with the bug Y: no specification uses it, the     *)
(* mutation checks put it in the place of X.                               *)
(*                                                                         *)
(* A step is what runs under one lock acquisition, one clock reading or    *)
(* one Redis round trip; everything else of a goroutine is local.          *)
(***************************************************************************)
EXTENDS Integers, FiniteSets

CONSTANTS
  Cases,         \* case ids, as keys of the maps
  Checkers,      \* goroutines that may be inside isCancelled
  MaxEntries,    \* maxCancelledEntries
  TTL,           \* cancelledTTL, in clock ticks
  RateLimit,     \* cancelRateLimit
  RedisEnabled,  \* whether main passed a Redis client to New
  MaxTime        \* bound of the clock

ASSUME CancelledSetAssumption ==
  /\ Cases # {} /\ IsFiniteSet(Cases)
  /\ MaxEntries \in Nat \ {0}
  /\ TTL \in Nat \ {0}
  /\ RateLimit \in Nat \ {0}
  /\ RedisEnabled \in BOOLEAN
  /\ MaxTime \in Nat

VARIABLES
  now,       \* the process clock
  current,   \* cancelledCurrent: time stamp of each case, or Absent
  prev,      \* cancelledPrev
  tokens,    \* len(cancelTokens)
  redis,     \* the cases whose cancelled:{caseId} key has been set
  evicting,  \* the cleanup goroutine has computed its cutoff
  cutoff,    \* that cutoff
  sends,     \* sends left in the refill loop of that goroutine
  pc, arg, seenAt, seenPrev, answer,   \* isCancelled, per goroutine
  \* History, written only to state properties:
  freshest,  \* newest stamp the read lock showed, per goroutine
  swapped,   \* a generation swap happened since the read lock, per goroutine
  markedAt,  \* last MarkCancelled of each case in this process, or Absent
  swaps      \* swaps since then, counted up to 2

maps == <<current, prev>>
bucket == <<tokens, sends>>
cleanup == <<evicting, cutoff>>
locals == <<pc, arg, seenAt, seenPrev, answer>>
history == <<freshest, swapped, markedAt, swaps>>
vars == <<now, maps, bucket, redis, cleanup, locals, history>>

Absent == -1
Time == 0 .. MaxTime

\* A stamp is the time of some past step: none is ahead of the clock.
Stamp == 0 .. now \cup {Absent}

TypeOK ==
  /\ now \in Time
  /\ current \in [Cases -> Stamp]
  /\ prev \in [Cases -> Stamp]
  /\ tokens \in 0 .. RateLimit
  /\ redis \subseteq Cases
  /\ evicting \in BOOLEAN
  /\ cutoff \in Int
  /\ sends \in 0 .. RateLimit
  /\ pc \in [Checkers -> {"idle", "current", "prev", "redis", "cache", "done"}]
  /\ arg \in [Checkers -> Cases]
  /\ seenAt \in [Checkers -> Stamp]
  /\ seenPrev \in [Checkers -> BOOLEAN]
  /\ answer \in [Checkers -> BOOLEAN]
  /\ freshest \in [Checkers -> Stamp]
  /\ swapped \in [Checkers -> BOOLEAN]
  /\ markedAt \in [Cases -> Stamp]
  /\ swaps \in [Cases -> 0 .. 2]

-----------------------------------------------------------------------------
(* Helpers *)

\* A stamp that time.Since still puts inside the TTL.
Fresh(t) == t # Absent /\ now - t < TTL

Keys(m) == {c \in Cases : m[c] # Absent}

Empty == [c \in Cases |-> Absent]

Newest(t, u) == IF t >= u THEN t ELSE u

Without(m, older) == [c \in Cases |-> IF m[c] < older THEN Absent ELSE m[c]]

\* Filler for the argument of a goroutine that is not in isCancelled.
AnyCase == CHOOSE c \in Cases : TRUE

\* The state New leaves: empty generations, a full token bucket, no goroutine
\* inside a lookup.  Redis may hold keys from before this process started.
Init ==
  /\ now = 0
  /\ redis \in SUBSET Cases /\ (~RedisEnabled => redis = {})
  /\ current = Empty /\ prev = Empty
  /\ tokens = RateLimit /\ sends = 0
  /\ evicting = FALSE /\ cutoff = 0
  /\ pc = [k \in Checkers |-> "idle"]
  /\ arg = [k \in Checkers |-> AnyCase]
  /\ seenAt = [k \in Checkers |-> Absent]
  /\ seenPrev = [k \in Checkers |-> FALSE]
  /\ answer = [k \in Checkers |-> FALSE]
  /\ freshest = [k \in Checkers |-> Absent]
  /\ swapped = [k \in Checkers |-> FALSE]
  /\ markedAt = Empty
  /\ swaps = [c \in Cases |-> 0]

-----------------------------------------------------------------------------
(* The case.cancelled consumer *)

\* len(s.cancelledCurrent) >= maxCancelledEntries
AtCapacity == Cardinality(Keys(current)) >= MaxEntries

\* What MarkCancelled does under the lock when the case is already there.
Refresh(c) ==
  /\ current[c] # Absent
  /\ current' = [current EXCEPT ![c] = now]
  /\ UNCHANGED <<prev, swapped>>
  /\ swaps' = [swaps EXCEPT ![c] = 0]

\* The case is new and there is room.
Insert(c) ==
  /\ current[c] = Absent
  /\ ~AtCapacity
  /\ current' = [current EXCEPT ![c] = now]
  /\ UNCHANGED <<prev, swapped>>
  /\ swaps' = [swaps EXCEPT ![c] = 0]

\* The case is new and the generation is full: it becomes the previous one.
SwapAndInsert(c) ==
  /\ current[c] = Absent
  /\ AtCapacity
  /\ prev' = current
  /\ current' = [Empty EXCEPT ![c] = now]
  /\ swapped' = [k \in Checkers |-> TRUE]
  /\ swaps' = [d \in Cases |-> IF d = c THEN 0
                               ELSE IF swaps[d] = 0 THEN 1 ELSE 2]

\* MarkCancelled: takes a token if there is one (an empty bucket only warns),
\* then records the case.
MarkCancelled(c) ==
  /\ tokens' = IF tokens > 0 THEN tokens - 1 ELSE 0
  /\ Refresh(c) \/ Insert(c) \/ SwapAndInsert(c)
  /\ markedAt' = [markedAt EXCEPT ![c] = now]
  /\ UNCHANGED <<now, sends, redis, cleanup, locals, freshest>>

-----------------------------------------------------------------------------
(* isCancelled *)

\* The read lock: the current stamp and whether the previous generation has it.
ReadMaps(k, c) ==
  /\ pc[k] = "idle"
  /\ pc' = [pc EXCEPT ![k] = "current"]
  /\ arg' = [arg EXCEPT ![k] = c]
  /\ seenAt' = [seenAt EXCEPT ![k] = current[c]]
  /\ seenPrev' = [seenPrev EXCEPT ![k] = prev[c] # Absent]
  /\ freshest' = [freshest EXCEPT ![k] = Newest(current[c], prev[c])]
  /\ swapped' = [swapped EXCEPT ![k] = FALSE]
  /\ UNCHANGED <<now, maps, bucket, redis, cleanup, answer,
                 markedAt, swaps>>

\* The outcome of a step of k: an answer, or the next stage.
Answer(k, b) ==
  /\ pc' = [pc EXCEPT ![k] = "done"]
  /\ answer' = [answer EXCEPT ![k] = b]
  /\ UNCHANGED <<arg, seenAt, seenPrev>>

Proceed(k, stage) ==
  /\ pc' = [pc EXCEPT ![k] = stage]
  /\ UNCHANGED <<arg, seenAt, seenPrev, answer>>

\* s.redis is nil unless main connected to it.
Fallback(k) ==
  \/ RedisEnabled /\ Proceed(k, "redis")
  \/ ~RedisEnabled /\ Answer(k, FALSE)

TestCurrent_PrevForgotten(k) ==
  /\ pc[k] = "current"
  /\ \/ Fresh(seenAt[k]) /\ Answer(k, TRUE)
     \/ ~Fresh(seenAt[k]) /\ Fallback(k)
  /\ UNCHANGED <<now, maps, bucket, redis, cleanup, history>>

\* inMemCurrent && time.Since(entry.at) < cancelledTTL, on the values read.
TestCurrent(k) ==
  /\ pc[k] = "current"
  /\ \/ Fresh(seenAt[k]) /\ Answer(k, TRUE)
     \/ ~Fresh(seenAt[k]) /\ seenPrev[k] /\ Proceed(k, "prev")
     \/ ~Fresh(seenAt[k]) /\ ~seenPrev[k] /\ Fallback(k)
  /\ UNCHANGED <<now, maps, bucket, redis, cleanup, history>>

Promote_Expiry(k) ==
  /\ pc[k] = "prev"
  /\ \/ /\ Fresh(prev[arg[k]])
        /\ current' = [current EXCEPT ![arg[k]] = now + TTL]
        /\ Answer(k, TRUE)
     \/ /\ ~Fresh(prev[arg[k]])
        /\ UNCHANGED current
        /\ Fallback(k)
  /\ UNCHANGED <<now, prev, bucket, redis, cleanup, history>>

\* Under the write lock the previous generation is read again; a fresh entry is
\* promoted with the present time, whatever the size of the current generation.
Promote(k) ==
  /\ pc[k] = "prev"
  /\ \/ /\ Fresh(prev[arg[k]])
        /\ current' = [current EXCEPT ![arg[k]] = now]
        /\ Answer(k, TRUE)
     \/ /\ ~Fresh(prev[arg[k]])
        /\ UNCHANGED current
        /\ Fallback(k)
  /\ UNCHANGED <<now, prev, bucket, redis, cleanup, history>>

QueryRedis_AnyReply(k) ==
  /\ pc[k] = "redis"
  /\ Proceed(k, "cache") \/ Answer(k, FALSE)
  /\ UNCHANGED <<now, maps, bucket, redis, cleanup, history>>

\* Exists(cancelled:{caseId}): an error or timeout reads as not cancelled, just
\* like a key that has expired meanwhile.
QueryRedis(k) ==
  /\ pc[k] = "redis"
  /\ \/ arg[k] \in redis /\ Proceed(k, "cache")
     \/ Answer(k, FALSE)
  /\ UNCHANGED <<now, maps, bucket, redis, cleanup, history>>

\* A hit is cached under the write lock, again without a capacity check.
CacheRedisHit(k) ==
  /\ pc[k] = "cache"
  /\ current' = [current EXCEPT ![arg[k]] = now]
  /\ Answer(k, TRUE)
  /\ UNCHANGED <<now, prev, bucket, redis, cleanup, history>>

\* The call returns; its locals are gone.
Return(k) ==
  /\ pc[k] = "done"
  /\ pc' = [pc EXCEPT ![k] = "idle"]
  /\ arg' = [arg EXCEPT ![k] = AnyCase]
  /\ seenAt' = [seenAt EXCEPT ![k] = Absent]
  /\ seenPrev' = [seenPrev EXCEPT ![k] = FALSE]
  /\ answer' = [answer EXCEPT ![k] = FALSE]
  /\ freshest' = [freshest EXCEPT ![k] = Absent]
  /\ swapped' = [swapped EXCEPT ![k] = FALSE]
  /\ UNCHANGED <<now, maps, bucket, redis, cleanup,
                 markedAt, swaps>>

-----------------------------------------------------------------------------
(* The cleanup goroutine *)

\* The goroutine is back at its select.
Waiting == ~evicting /\ sends = 0

EvictBegin_NoTTL ==
  /\ Waiting
  /\ evicting' = TRUE
  /\ cutoff' = now
  /\ UNCHANGED <<now, maps, bucket, redis, locals, history>>

\* cutoff := time.Now().Add(-cancelledTTL), before the lock is taken.
EvictBegin ==
  /\ Waiting
  /\ evicting' = TRUE
  /\ cutoff' = now - TTL
  /\ UNCHANGED <<now, maps, bucket, redis, locals, history>>

EvictRun_CurrentOnly ==
  /\ evicting
  /\ evicting' = FALSE
  /\ cutoff' = 0
  /\ current' = Without(current, cutoff)
  /\ UNCHANGED <<now, prev, bucket, redis, locals,
                 freshest, swapped, markedAt, swaps>>

\* Both generations lose the entries strictly before the cutoff.
EvictRun ==
  /\ evicting
  /\ evicting' = FALSE
  /\ cutoff' = 0
  /\ current' = Without(current, cutoff)
  /\ prev' = Without(prev, cutoff)
  /\ UNCHANGED <<now, bucket, redis, locals,
                 freshest, swapped, markedAt, swaps>>

\* The one-second ticker: cancelRateLimit sends follow.
RefillBegin ==
  /\ Waiting
  /\ sends' = RateLimit
  /\ UNCHANGED <<now, maps, tokens, redis, cleanup, locals, history>>

RefillSend_Blocks ==
  /\ sends > 0
  /\ tokens < RateLimit
  /\ tokens' = tokens + 1
  /\ sends' = sends - 1
  /\ UNCHANGED <<now, maps, redis, cleanup, locals, history>>

\* One of them: a full bucket is skipped, so that the loop never waits.
RefillSend ==
  /\ sends > 0
  /\ tokens' = IF tokens < RateLimit THEN tokens + 1 ELSE tokens
  /\ sends' = sends - 1
  /\ UNCHANGED <<now, maps, redis, cleanup, locals, history>>

-----------------------------------------------------------------------------
(* Environment *)

Tick ==
  /\ now < MaxTime
  /\ now' = now + 1
  /\ UNCHANGED <<maps, bucket, redis, cleanup, locals, history>>

\* Another service writes the key.
RedisSet(c) ==
  /\ RedisEnabled
  /\ redis' = redis \cup {c}
  /\ UNCHANGED <<now, maps, bucket, cleanup, locals, history>>

Next ==
  \/ \E c \in Cases : MarkCancelled(c) \/ RedisSet(c)
  \/ \E k \in Checkers, c \in Cases : ReadMaps(k, c)
  \/ \E k \in Checkers : \/ TestCurrent(k) \/ Promote(k) \/ QueryRedis(k)
                         \/ CacheRedisHit(k) \/ Return(k)
  \/ EvictBegin \/ EvictRun \/ RefillBegin \/ RefillSend
  \/ Tick

Spec == Init /\ [][Next]_vars

\* A pass of the cleanup goroutine runs to its end, waiting for nothing but the
\* lock.  Its select chooses at random among the ready tickers, so an eviction
\* that is due again and again is not passed over for ever.
FairSpec ==
  /\ Spec
  /\ SF_vars(EvictBegin)
  /\ WF_vars(EvictRun) /\ WF_vars(RefillSend)

-----------------------------------------------------------------------------
(* Properties *)

\* isCancelled answers FALSE about a case whose newest stamp at the read lock is
\* still inside the TTL only if the generations were swapped between the read
\* lock and the write lock of that very call.
MissNeedsSwap ==
  \A k \in Checkers :
    pc[k] = "done" /\ ~answer[k] => swapped[k] \/ ~Fresh(freshest[k])

\* Cancelled at some time, by a message to this process or in Redis.
EverCancelled(c) == c \in redis \/ markedAt[c] # Absent

\* isCancelled answers TRUE only about a case that some cancellation, in a
\* message or in Redis, named.
TrueOnlyIfCancelled ==
  \A k \in Checkers : pc[k] = "done" /\ answer[k] => EverCancelled(arg[k])

\* Neither eviction nor a single generation swap takes a cancellation out of
\* memory before its TTL: that needs two swaps after the last MarkCancelled.
RetainedTwoGenerations ==
  \A c \in Cases : Fresh(markedAt[c]) =>
    /\ swaps[c] = 0 => Fresh(current[c])
    /\ swaps[c] = 1 => Fresh(current[c]) \/ Fresh(prev[c])

\* An entry that has outlived the TTL is evicted or renewed, in both
\* generations.
Stale(m, c) == m[c] # Absent /\ m[c] < now - TTL

StaleEvicted ==
  \A c \in Cases : /\ Stale(current, c) ~> ~Stale(current, c)
                   /\ Stale(prev, c) ~> ~Stale(prev, c)

-----------------------------------------------------------------------------
(* What the comments claim and the code does not keep *)

\* "isCancelled returns true if the case has been cancelled, checking both the
\* in-memory set (current and previous generations) ..."
FreshIsCancelled ==
  \A k \in Checkers : pc[k] = "done" /\ ~answer[k] => ~Fresh(freshest[k])

\* "maxCancelledEntries is the maximum number of entries in the cancelled map.
\* Prevents unbounded memory growth from a flood of cancellation messages."
MapWithinCapacity == Cardinality(Keys(current)) <= MaxEntries

=============================================================================
