# ClamGo: TLA+ models and proofs

ClamGo consumes `file.uploaded` messages from RabbitMQ, scans each file with
clamd over INSTREAM and publishes a verdict. A second consumer learns of
cancelled cases, whose files are to be discarded. This directory holds TLA+
models of the parts of that service where order, failure and concurrency decide
whether it is correct, the TLC configurations that check them on small
instances, and TLAPS proofs for every size.

## 1. The system

| Component | Code | State | Operations |
|---|---|---|---|
| Cancelled-case set | `pkg/scanner/scanner.go` 167-351 | `cancelledCurrent`, `cancelledPrev` (time stamp per case) behind `cancelMu`; `cancelTokens` | `MarkCancelled`, `isCancelled`, `evictStaleCancelled`, refill |
| Scan pipeline | `scanner.go` 357-405, 482-827, 1155-1195 | the delivery, its retry count, the temp file, what was published | `HandleScanMessage`, `runScan`, `handleScanFailure`, `publishRejection`, ack and nack |
| Temp file removal | `scanner.go` 424-478 | temp file, stale-files ledger | `removeFileWithRetry`, `logOrphanFile` |
| Cancellation consumer | `scanner.go` 408-419, `main.go` 392-398 | none | `HandleCancelMessage` |
| Retry header, path and MIME helpers | `scanner.go` 93-125, 932-1140 | none (pure) | `extractRetryCount`, `validateTempPath`, `classifyConsistency` |
| clamd client | `pkg/service/clamd/` | one connection with one deadline | `Connect`, `ScanStream`, `ScanFile`, `Version`, `Ping`, `Stats` |
| Signer | `pkg/hmac/signer.go` | key, key id | `Sign`, `Verify`, canonical JSON |
| Messages | `pkg/model/` | none | `NormalizeUUID`, `NewMessageId` |
| Process | `main.go` | configuration, clients | start-up, two consumers, health server, shutdown |
| RabbitMQ, Redis, temp share | external | queues, `cancelled:{caseId}` keys, files | deliver, requeue, expire; set, expire; change |

**Interaction.** One process runs three goroutines over one `Scanner`: the scan
consumer (one delivery at a time, prefetch 1), the cancel consumer and the
cleanup goroutine. They share only the cancelled set. Several processes
(`replicas: 3` in the deployment of the repository's README) share the scan
queue, the cancel queue, Redis and the temp share. A failed scan is published
again, with `x-retry-count` increased, to one of three delay queues that
dead-letter back into the scan queue; after the third retry a `ScanFailed` goes
to the dead-letter exchange.

**What is hard.** (a) `isCancelled` drops the read lock before it takes the
write lock. (b) Two generations of stamps are moved by three goroutines. (c) The
broker redelivers whatever was not acknowledged, so every publish and every
deletion can happen twice or be half done. (d) A publish can be accepted
although its confirmation is lost. (e) Cancellations arrive at any step, at one
replica of several. (f) The handler's deadline expires inside a handler that
keeps running. (g) clamd may answer before it was asked, in pieces, or never.
(h) A signal may meet the process at any stage of its start-up, and a fatal
error skips what was deferred. Section 7 and the `hazards` of `PROJECT.json` list each place.

**What makes a component correct.**

- *Set*: a cancellation is remembered for its TTL; a lookup finds it and
  invents none; old entries leave, whatever else the cleanup goroutine does.
- *Pipeline*: no file is lost without a trace; results are not duplicated
  without cause; the retry ladder is climbed completely before the dead letter;
  an announced retry takes place; files are deleted only for cause; a cancelled
  case yields no verdict; everything is settled in the end.
- *clamd client*: a call ends, and a verdict is true of the whole file.
- *Message data*: one identifier matches in all its spellings; only files below
  the prefix are scanned; the retry count survives its trip through the header;
  a signature verifies as received; the MIME classification is stable.
- *Process*: nothing is consumed before everything is in place; nothing is
  closed under its user; a signal ends the process, in order if it was scanning.

## 2. Modules

| Module | What it is |
|---|---|
| `CancelledSet` | the set of one process, its three goroutines and Redis |
| `CancelledSet_proofs` | its theorems |
| `ScanPipeline` | several replicas, the broker, the temp files, cancellations |
| `ScanPipeline_proofs` | type correctness and no silent loss |
| `ScanPipelineCause_proofs` | files are deleted only for cause; a cancellation the set still holds is honoured |
| `ScanPipelineLadder_proofs` | dead letters come only after every retry; an announced retry happens |
| `ScanPipelineCount_proofs` | duplicates need faults |
| `MCScanPipeline` | the small instance and the symmetry of replicas |
| `ScanCall` | what one call to clamd promises its caller (abstract) |
| `ClamdStream` | one call of the clamd client, step by step, which implements it |
| `ClamdStream_proofs` | its theorems |
| `MCClamdStream` | small files and a signature of two chunks |
| `MessageFields` | identifiers, paths and the retry header as operators |
| `Mime`, `Signer` | MIME classification; canonical form, signing and verifying |
| `Messages` | the life of one message on top of these three |
| `Messages_proofs` | its theorems, and those of the operators they rest on |
| `MCMessages` | the messages that are tried |
| `Lifecycle` | the process: start-up, consumers, health server, shutdown |
| `Lifecycle_proofs` | its theorems |

The modules meet at these places. `ScanStream` of `ScanPipeline` takes a verdict
or a failure from clamd: that is `ScanCall`, which `ClamdStream` refines.
`ReadSet` and `IsCancelled` of `ScanPipeline` are one lookup of `CancelledSet`,
cut at the same place (the read lock, and everything after it), over the same two
generations but without their clock. The shapes of
message and the retry levels of `ScanPipeline` are what `Messages` computes from
real headers, paths and identifiers. `Lifecycle` has the consumers that run both
handlers; its end is the `Crash` of `ScanPipeline` as seen by the broker.

The definitions `X_Y` in the component modules are `X` with a plausible bug
`Y`. No specification refers to them. They exist to show that each property
would notice that bug; `PROJECT.json` pairs each with its property.

### CancelledSet

A map from case id to time stamp is a function with `Absent` for a missing key.
One step is one lock acquisition, one clock reading or one Redis round trip:

| Action | Code |
|---|---|
| `MarkCancelled` = tokens, then `Refresh`, `Insert` or `SwapAndInsert` | the whole function, under the lock |
| `ReadMaps` | the read lock of `isCancelled` |
| `TestCurrent` | the TTL test on the values read |
| `Promote` | the write lock: second look at the previous generation |
| `QueryRedis`, `CacheRedisHit` | the Redis fallback, any error reading as "no" |
| `Return` | the caller has the answer |
| `EvictBegin`, `EvictRun` | cutoff before the lock, removal under it |
| `RefillBegin`, `RefillSend` | the one-second ticker, and each send into the bucket, in the goroutine that also evicts |
| `Tick`, `RedisSet` | environment |

History variables (`freshest`, `swapped`, `markedAt`, `swaps`) record what the
properties compare with; no guard reads them. That a Redis key expires is not a
step of its own: a lookup may miss any key, as it does after an error. A
behaviour is one life of a process: a restart empties the set, which
`ScanPipeline` has as `Crash`. The clock moves between steps, not inside one:
time spent waiting for the lock in `MarkCancelled` is not a separate step
because the stamp is taken under the lock.

### ScanPipeline

The broker is counters of message copies per file and retry count (`queue`,
`delayed`), counters of terminal messages per outcome (`results`), and the
started and retrying events. A file has a shape of message (valid, malformed,
bad path, oversize) and a state of its path (`disk`: clean or infected content,
too large, a symlink, a directory, gone). Each replica has a stage `pc`, the
delivery it works on (`file`, `level`), whether the broker still counts that
delivery as unacknowledged (`held`), whether the handler's context has expired,
the content of the file it has open (`opened`), the two generations of its
cancelled set (`current`, `prev`) and what the read lock of a running lookup has
found (`seen`).

| Action | Code |
|---|---|
| `Receive`, `PreCheck` | `HandleScanMessage` |
| `ReadSet`, then `IsCancelled` inside `PreCheck`, `Recheck`, `PostCheck` | `isCancelled`: its read lock, then its write lock or its Redis lookup |
| `Lstat`, `Open`, `Reject`, `Start`, `Hash`, `Recheck`, `ScanStream`, `PostCheck`, `Discard`, `RemoveInfected`, `PublishVerdict` | `runScan`, in its order |
| `ScheduleRetry`, `NotifyRetry`, `DeadLetter` | `handleScanFailure` |
| `Ack`, `Nack` | `ackLogErr`, `nackLogErr` |
| `HandleCancelMessage`, with `MarkCancelled` | the cancel consumer of any replica |
| `OtherCaseCancelled` | the same for a case without files here, when it swaps the generations |
| `Lapse` | stamps that pass the TTL, whether evicted yet or not |
| `HandlerTimeout` | the handler context's deadline |
| `CancelCase`, `SetRedisKey`, `RetryDue`, `Crash`, `ConnectionLost`, `TempPathChanges` | environment |

A publish (`Publishes`) is accepted and confirmed, or returns an error, in which
case the broker may or may not have the message. Crashes, lost connections,
failed publishes, Redis errors, I/O errors before the scan and foreign changes
of a path each count as one fault; `MaxFaults` bounds them. Failures of reading
and of clamd, and timeouts, are not faults: they happen freely.

Opening, scanning and deleting are told apart: the verdict is on the content that
was opened, `removeFileWithRetry` acts on the path, and another user may have put
something else there meanwhile (`TempPathChanges`).

Abstractions: a generation is the set of cases whose stamp is inside the TTL,
without the stamps. Whether `MarkCancelled` finds room or swaps is open, as it
depends on the cases that have no file here; the sizes, stamps and evictions are
the subject of `CancelledSet`. A stamp that passes the TTL between the read lock
and the test right behind it counts as having passed before the read. A Redis
key does not expire: a lookup that comes too late reads like a failed one. Ids are
normalised and retry headers are those ClamGo writes (both are the subject of
`Messages`); `MaxFileSizeBytes` is positive; retry and dead-letter queues exist.

### ClamdStream and ScanCall

A file is a sequence of chunks and clamd's line a sequence of words. One step is
one `Read` or one `Write`.

| Action | Code |
|---|---|
| `newClamdClient`, with `Connect` and `SetDeadline` | choice of the address, dial, the one deadline |
| `SendCommand` | the command line of `ScanStream`, `ScanFile` or `sendAndReceive` |
| `ReadChunk`, `SendLength`, `SendData`, `SendTerminator` | the loop of `ScanStream` |
| `ReadWord`, `ReadEnds`, with `Result` and `parseScanResponse` | `read`, and what becomes of the line |
| `Answer`, `Complain`, `HangUp`, `DeadlinePasses` | environment |

`Read` may return a chunk beside an error or beside EOF, and an error without
data. clamd judges what it received, once the request is complete; before that
it may only complain. It may close the connection at any time, with the rest of
its line lost from any byte on. A write succeeds while the deadline has not
passed, even if nobody will read it, and may fail once clamd has closed.

`ScanCall` has a call that is pending and then ends with the true verdict or
with none. The mapping `call <- Call` forgets everything but the result. A
`panic` counts as no verdict.

Assumptions about clamd, which the code shares: it says OK or FOUND of a stream
only after the terminator, and no signature name begins with OK. `read` accepts a
line without its end, so the second one matters: the line of an infected file,
cut off inside such a name, would end in " OK". With both, a line that was cut
off is the verdict it was going to be, or an error.

### Messages and its operators

`MessageFields`, `Mime` and `Signer` hold the pure functions under their names
in the code; what comes from a library (`uuid.Parse`, `filepath.Clean`,
`json.Marshal`, HMAC) is modelled by what it does. An identifier is a UUID and a
spelling of it. A path is the sequence between its separators. A header has a
type and twice its value, so that a float may have a fraction; `int` has
`IntBits` bits. A MIME type has two halves and may be dressed with capitals,
spaces or parameters. A JSON text is a scalar or an object with its fields in
order; a message is an object whose fields may be objects of scalars, which is
as deep as the results of the service go (an array stays as it is, and counts as
a scalar). Sorting its keys is the one arrangement of the fields in which they
increase (`ByKey`).

`Messages` puts them together: `HandleCancelMessage` stores an identifier as it
came, `HandleScanMessage` normalises, looks up, validates and reads the count,
`handleScanFailure` writes the next header or gives up, `publishScanCompleted`
classifies, signs and sends. The properties compare with reference definitions
of another form, never with the functions themselves: `SameId` for identifiers,
and for paths `LeadsInto`, which walks nothing but counts names and `..` behind
each name to find those that stay.

### Lifecycle

`pc` is the place in `main`; one action per stage. `Construct` is any
constructor that may fail. `deferred` is the stack of deferred calls, which
`RunDeferred` runs one by one and which `Exit` (for `log.Fatal` and `os.Exit`)
leaves alone. The configuration is any combination of what `main` tells apart.

| Action | Code (`main.go`) |
|---|---|
| `CheckSettings` | password, scheme, CA file (142-191) |
| `NewConnectionManager`, `NewPublisher`, `NewScanConsumer`, `NewCancelConsumer` | the constructors |
| `ConnectRedis` | 219-278, where every failure only means no Redis |
| `ValidatePrefix`, `InitSigner`, `BindHealth` | 280-306, 308-328, 350-389 |
| `Consume`, `CancelReturns`, `ScanStops`, `ScanFails` | the two consumers (391-406) |
| `ServeFails`, `ShutdownHealth`, `RunDeferred` | health server and the way out |
| `Signal` | environment |

## 3. Runs

| Run | Instance | Shows |
|---|---|---|
| `cancelled_set` | 2 cases, 1 lookup, capacity 1, bucket of 1, Redis, TTL 2, clock 0..3, fair cleanup | type, misses only by a swap, no invented cancellation, retention over one swap, stale entries leave both generations |
| `scan_pipeline` | 1 file, 2 replicas, 2 retries, Redis, 1 fault | all seven invariants |
| `scan_pipeline_faults` | 1 file, 2 replicas, 1 retry, 3 faults, no cancellation, fair | loss, announcements and duplicates under combined faults; everything is settled |
| `clamd_stream` | files of up to 3 chunks of 2 kinds, lines of up to 5 words, fair | verdicts are true of the whole file; the call refines `ScanCall`, its end included |
| `lifecycle` | every configuration | readiness, order of closing, reaction to a signal |
| `messages` | paths of up to 5 parts, 4 bit integers, 5 spellings, 8 types, 36 results, signed and unsigned | the data properties against their references |

**Why the bounds are enough.** Capacity 1 with two cases makes every mark of the
other case a swap, so there are swaps without end, also two after one mark of a
case, and a promotion can exceed the capacity. TTL 2 in a clock of four values
lets a stamp be fresh, exactly at the boundary, and past it. A bucket of one is
full when the first refill comes. Files do not interact except through the
replicas they occupy and the case they share, so one file with two replicas has
the races: a redelivery handled while the first handler still runs. Two retry
levels have a first, a middle and a last attempt, and copies at different counts;
the code has three, which the proofs cover (`MaxRetries` is any number there).
The two pipeline runs divide the work: one fault with cancellations, Redis and
timeouts, so that each fault meets each step; and three faults, hence every pair
and triple of them, without cancellations, which neither retry nor requeue
anything. A signature of two chunks in files of three makes every truncation of an
infected stream look clean, and the line limit of five words separates the
longest proper answer (four words) from a line at the limit. A path of five
parts can leave the prefix and come back. With four bits the largest int is 7,
above `maxRetries`, and the headers tried go beyond both ends of the range by
more than one; a float64 bound that rounds up is the next power of two there as
it is for 64 bits. Messages vary one field at a time, as no step reads two of
path, identifier, header, types and result together. `Lifecycle` has no bound.

`CHECK_DEADLOCK FALSE` is set where the system really stops: when every message
is settled, every case is cancelled and the faults are used up; when a call has
returned; when the message was sent, discarded or dead-lettered; when the
process has exited.

**Fairness.** `CancelledSet!FairSpec` assumes that the cleanup goroutine runs: a
pass it has begun goes on (weak fairness of `EvictRun`, which waits for nothing but
the mutex, and of `RefillSend`, which waits for nothing), and an eviction that is
due again and again is begun (strong fairness of `EvictBegin`, since the goroutine
is busy with refills in between; Go's `select` chooses at random among the tickers
that are ready). `ScanPipeline!FairSpec` assumes weak fairness of each replica's handler
(a publish has 15 s, a clamd connection ten minutes, a Redis lookup two seconds;
only reads of the temp share have no limit and are taken to return) and of each delay queue's TTL. Nothing is assumed of
cancellations, faults or timeouts. `ClamdStream!FairSpec` assumes that the client
runs on and that the deadline passes at last; nothing of clamd, which may stay
silent. `Lifecycle!FairSpec` assumes that `main` runs on (a ping has five seconds,
`Shutdown` too) and that `Subscribe` returns when its context is cancelled, which
the comment at `main.go:400` relies on.

**Violations.** Six runs state what a comment or a document says and find it
refuted by the code:

| Run | What happens |
|---|---|
| `v_infected_reported` | delete, failed publish, requeue, "file not found", acknowledged: the INFECTED verdict is never published |
| `v_fresh_is_cancelled` | a swap between the two locks of one lookup hides a fresh cancellation |
| `v_map_within_capacity` | promotions and cached Redis hits insert without the test that `MarkCancelled` makes: the map exceeds `maxCancelledEntries` |
| `v_overflow_prevented` | a float64 header of 2^63 passes the bound check, as `float64(math.MaxInt)` is 2^63 too, and is converted out of range |
| `v_cancelled_case_discarded` | another replica than the one that consumed the cancellation publishes |
| `v_redis_cancellation_honoured` | an expired handler context disables the last Redis lookup |

Smaller divergences are visible in the definitions and have no run:

- An error of `Lstat`, open or fstat, also a transient one of the share, drops the
  message (`Unreadable`, with the reason `ioerror`). `docs/MESSAGE_SCHEMAS.md:168`
  says "Transient errors (I/O, clamd unavailable) trigger retry", and the
  repository's README (116-117) has "Open & Read File: Error? Nack & Retry".
- The repository's README (595-596) says "Temporary files are not modified by
  ClamGo" and "File cleanup is delegated to the caller". `runScan` deletes the temp
  file of an infected upload (660) and of a case cancelled during the scan (600,
  642): `RemoveInfected` and `Discard`. `RemovedForCause` says what these deletions
  keep to, not that there are none.
- `os.Remove` acts on the path, the verdict is on the open file. What someone else
  puts at the path after the open is deleted unscanned; `RemovedForCause` allows it
  for a changed path only.
- `Promote` and `CacheRedisHit` stamp the entry with the time of the lookup, so its
  TTL starts again.
- A redelivery that did not go through a retry queue has count zero and repeats
  the ScanStarted event, which the repository's README (412) has "on the first
  attempt only"; `DuplicatesNeedFaults` bounds the repetitions by the faults.
- `parseScanResponse` panics on a line that ends in `: FOUND` (`panic` in the
  model); the handler then ends without a settlement of its own.
- A cancellation is stored as spelled: one that arrives in capitals matches no
  file, since a file's identifier is normalised. `CancellationMatches` therefore
  speaks of cancellations in the standard form.
- Aliases are pairs, not classes: two aliases of `application/zip` are a minor
  mismatch of each other, and the type of a `.docx` counts as an alias of the
  type of a `.doc`.
- `publishToExchange` promises that nothing is serialised again after signing.
  It is, by `json.Marshal` of the envelope, which changes nothing only because
  the canonical form is already escaped; `SentVerifies` depends on that.
- The prefix is not cleaned itself: one configured with a doubled separator or a
  dot matches no cleaned path, and every message is discarded. `Prefix` is taken
  as clean.
- "Consumers have stopped" (`main.go:408`) is true of the scan consumer only.

The passing counterparts say what does hold. A swap inside the call is the only
way a lookup misses a fresh entry (`MissNeedsSwap`), and a cancellation survives
one swap (`RetainedTwoGenerations`). So a replica whose set held the case when
clamd answered publishes only if, before its last lookup was through, the set lost
it: by two swaps, by one if the case was in the previous generation already, or by
the TTL (`CancellationHonoured`). A generation holds 100 000 cases, so two swaps in
so short a time take a flood of cancellations; but the one swap that loses a case of
the previous generation takes a single cancellation, if the current one is full.
Every duplicate costs a fault (`DuplicatesNeedFaults`).
Every count but that of the one header above is right (`CountIsAttempts`).

## 4. Proofs

All theorems hold for every value of the constants that satisfies the modules'
assumptions (`CancelledSetAssumption`, `ScanPipelineAssumption`,
`ClamdStreamAssumption`, `IntBitsAssumption`, `MessagesAssumption`), which TLC
also evaluates on every run. Every invariant and every action property that a run
checks is the statement of a theorem.

`CancelledSet_proofs`:

- `TypeCorrect`: `Spec => []TypeOK`, in which no stamp is ahead of the clock.
- `OrderStep`, a lemma of the others: of two stamps of one case the newer is in the
  current generation, and the cutoff of a running eviction is a TTL in the past.
- `MissNeedsSwapHolds`: strengthened by what a lookup between its steps may rely
  on: as long as no swap happened, what it saw in the previous generation is
  still there unless it expired, because an eviction removes only what is past
  the TTL and the promotion of another lookup leaves that generation alone
  (`LookupStep`).
- `RetainedTwoGenerationsHolds`: strengthened by the relation between a mark's
  time, the swaps since and the stamps of both generations, and by the cutoff of
  a running eviction (`RetentionStep`).
- `TrueOnlyIfCancelledHolds`: everything in both maps and in Redis was cancelled
  at some time (`OriginStep`).

`ScanPipeline_proofs`:

- `TypeCorrect`: needs that a handler which announces a retry is below
  `MaxRetries`.
- `NoSilentLossHolds`: the invariant alone is not inductive, as two handlers of
  one file could each rely on the copy that the other is about to acknowledge.
  `LossInv` adds that an idle replica holds nothing and that a handler past its
  publish acknowledges only when the file is accounted for or a copy with a
  *higher* retry count exists. Since the count only grows along the chain of
  copies, it ends in one that nobody is about to let go, or in an account.

`ScanPipelineCause_proofs`:

- `RemovedForCauseHolds`: the decision to delete and the deletion are different
  steps. `CauseInv` carries the reason over (`Staged`: `remove` means that the file
  opened is infected, `discard` that the case is cancelled). It adds that the sets,
  what a lookup has read of them, Redis and the cancel queue are of real
  cancellations only (`Informed`), and that what is at the path is what was opened,
  or nothing, as long as nobody changed it (`Judged`): another replica that handles
  a copy of the same message can only empty it.
- `CancellationHonouredHolds`: what the set held when clamd answered has to survive
  two more steps, the read lock and the write lock of the last lookup, with swaps,
  marks and lapses between them. `HonourInv` says that as long as the set can be
  expected to hold the case (`lasts` > 0), a lookup that has not begun would find
  it, in the current generation if two swaps are left, and one that has read the
  previous generation finds it there again (`StillHeld`). `SetKeeps` shows it of
  everything that changes the set, `LookupHonest` of the lookup itself. Redis keeps
  its keys, and a crash ends the delivery.

`ScanPipelineLadder_proofs`:

- `DeadLetterAfterAllRetriesHolds`: `LadderInv` says that a copy with count n,
  waiting, delayed or being handled, exists only if the scan failed at every
  count below n, and that a handler in `handleScanFailure` has failed at its own
  count too.
- `AnnouncedRetryHappensHolds`: the notification is a step after the publish.
  `AnnounceInv` says that by then the attempt has begun, and no step undoes
  that: a copy is delayed, queued or taken up, in this order.

`ScanPipelineCount_proofs`:

- `DuplicatesNeedFaultsHolds`: everything that may still produce a terminal
  message about a file (a copy in a queue, a handler) and every terminal message
  published is a token of one set. A step of the code trades one token for
  another; only a fault adds one. The members of the set are counted, not the
  counters of the model, so the theorem holds for any number of replicas. The
  started events are counted in the same way among deliveries with count zero.

`ClamdStream_proofs`, for files of any length, any database and any line limit:

- `TypeCorrect` and `VerdictsTrue`, from the invariant `CallInv`. That a verdict
  is true is not inductive: it needs what clamd has at each stage of the stream
  (`StreamInv`: the first `pos` chunks, or one less between reading a chunk and
  sending it, and the whole file once the terminator is sent) and what its line
  may contain (`ReplyInv`: the word OK only for a clean file, FOUND in third
  place or later only for an infected one, and the client has a prefix of it).
  `ParsedWords` and `ResultTrue` say what the parser makes of such a line, whole
  or cut off.
- `ImplementsSafety`: `Spec => Abstract!Safety`, by the same invariant. A step
  of the call is `Verdict`, `NoVerdict` or a stutter of `ScanCall`.

`Messages_proofs`, for any uploads of the types that decoding admits, any
cancelled identifiers, any prefix, any width of an int and any retry limit below
the largest int:

- `TypeCorrect`, `CountIsAttemptsHolds`, `ConsistencyStableHolds`,
  `SentVerifiesHolds` and the action property `CancellationMatchesHolds`, from
  `DataInv`. The count of a message is not known while it waits: `CountKept` says
  that its header, then, denotes the first count plus the attempts, for which
  `RetryHeaderDenotes` has what is written and `ExtractDenotes` what is read. A header
  has one reading, but for the float64 just above the largest int, which has two
  (`Readings`); the invariant keeps both, the theorem speaks of the others.
  `Identified` keeps the path and a spelling of the identifier through the retry
  queues. `Computed` says where the classification and the envelope come from.
- What is left are facts about the operators. *Signing* (`CanonicalForm`,
  `SentForm`): an arrangement in key order exists, is unique and does not depend
  on the order before; escaping twice is escaping once; and `null` becomes `{}`
  only once. *MIME* (`ClassifySymmetric`, `ClassifyBare`, `ClassifyExtension`).
  *Identifiers* (`NormalizeSpells`, `StandardIsNormal`).
- `ScannedInsidePrefixHolds`: every path that is scanned was found valid, and
  what was discarded was not, or is cancelled (`Guarded`); and the test finds out
  the truth (`PrefixMeansInside`). For that, `WalkEnumerates` carries along the
  path that the sequence built so far spells the names that stay so far, in
  order, the last k of which k times `..` would take back: a `..` removes the last
  name and nothing else, and does nothing at the root. `CleanEnumerates` is the
  induction over the path.

The library's induction theorems cannot be used by the provers at hand. The
inductions in this module are over sets instead: `LeastNumber` gets the smallest
member of a set of numbers from well-foundedness, and `NumbersByInduction` is
applied to the set of those n for which the statement holds.

`Lifecycle_proofs`:

- `TypeCorrect`, `ReadyToConsumeHolds`, `UsedIsOpenHolds`, from `LifeInv`. A
  running consumer says nothing of how `main` got there, so `SetUp` has what each
  stage that was passed has established, and `Consuming` where `main` is while a
  consumer runs; the cancel consumer may outlive it. `Deferred` has the order of
  the deferred calls, whatever their number, and that what was opened is deferred
  or closed. `Lifecycle` has no parameters and its run is exhaustive: here the
  proofs show why it holds rather than more cases.

Only model-checked: all liveness (`StaleEvicted`, `EventuallySettled`, the end of
a call in `ImplementsScanCall`, both signal properties), which is beyond the
prover as fairness is, and the six violations. `EventuallySettled` is checked
without cancellations: those only ever end a delivery earlier.

## 5. Not modelled

- STATS, sessions and `NewClamClient`: nothing in the service calls them. STATS
  is text parsing by regular expressions.
- Cryptography (an injective function here), checksums, the detection of MIME
  types, TLS options, default values and logging.
- The declaration of queues and exchanges, which is not in this repository.
- The inside of the broker library: that it reconnects, redelivers, recovers
  from panics and returns from `Subscribe` is taken from how the code uses it.
- The rest of the alias and extension tables: their rows are data of one kind.

## 6. Plan

1. *Core (done)*: `CancelledSet`, `ScanPipeline`, their runs, type correctness,
   the safety theorems of the set, `NoSilentLoss`, `RemovedForCause` and
   `DeadLetterAfterAllRetries`.
2. *clamd (done)*: `ScanCall`, `ClamdStream`, the refinement and its proof.
3. *Message data (done)*: `MessageFields`, `Mime`, `Signer`, `Messages`.
4. *Lifecycle (done)*.
5. *Proofs (done)*: every invariant and action property of the passing runs.
6. *Composition (in part)*: the pipeline has the generations of the set, the two
   locks of a lookup, swaps and lapses, so that the lookup race is part of
   `CancellationHonoured`. What is left is to show that this untimed set is refined
   by the timed one of `CancelledSet`; today that is an argument only: `Lookup` and
   `IsCancelled` do with the cases inside the TTL what `ReadMaps`, `TestCurrent`,
   `Promote` and `QueryRedis` do with stamps, and `Lapse` is the passing of time.

## 7. Hazards

`PROJECT.json` lists them with their lines. No property covers: the renewal of a
promoted entry's TTL, a transient I/O error before the scan, non-mandatory
publishing, a ledger entry that fails, the panic of `parseScanResponse`, the silent
end of the cancel consumer, and its handler running into the shutdown. Each has
the reason beside it.

## 8. Running

    tlc -workers 2 -config ScanPipeline.cfg MCScanPipeline
    tlapm ScanPipeline_proofs.tla
