---------------------------- MODULE ScanPipeline ----------------------------
(***************************************************************************)
(* The scan pipeline of ClamGo (src/pkg/scanner/scanner.go): replicas take *)
(* file.uploaded deliveries from one scan queue, run HandleScanMessage and *)
(* runScan step by step, and settle each delivery after publishing a       *)
(* verdict, a rejection, a retry or a dead letter.  Failures pass through  *)
(* three delayed retry queues back into the scan queue.                    *)
(*                                                                         *)
(* A step is one interaction with something shared: the broker, the disk,  *)
(* clamd, Redis or the cancelled set.  A replica may crash, and a broker   *)
(* connection or a publish confirmation may be lost, between any two.      *)
(* Payloads, checksums, MIME analysis and error codes are left out; ids    *)
(* are taken as already normalised, MaxFileSizeBytes as positive.          *)
(*                                                                         *)
(* A definition X_Y is X with the bug Y: no specification uses it, the     *)
(* mutation checks put it in the place of X.                               *)
(***************************************************************************)
EXTENDS Integers, FiniteSets

CONSTANTS
  Files,         \* uploaded files, one file.uploaded message each
  Cases,         \* cases that may be cancelled
  CaseOf,        \* the case of each file
  Replicas,      \* processes; each runs one scan at a time (prefetch 1)
  MaxRetries,    \* maxRetries
  RedisEnabled,  \* redis.enabled
  MaxFaults      \* bound on injected faults

ASSUME ScanPipelineAssumption ==
  /\ Files # {}
  /\ MaxRetries \in Nat
  /\ RedisEnabled \in BOOLEAN
  /\ MaxFaults \in Nat

VARIABLES
  \* The broker
  queue,      \* copies of a file's message ready in the scan queue, per x-retry-count
  delayed,    \* copies waiting in retry queue n
  results,    \* terminal messages published about a file, per outcome
  started,    \* ScanStarted events published about a file
  retrying,   \* <<file, attempt>> of the ScanRetrying events published
  cancelQ,    \* cases with a message in q.case.cancelled
  redis,      \* cases with a cancelled:{caseId} key
  \* Files
  shape,      \* what is wrong with a file's message, if anything
  disk,       \* what is at its temp path
  orphans,    \* files in the stale-files ledger
  \* A replica
  pc, file, level, held, expired,
  opened,     \* content of the file it opened
  current,    \* cancelledCurrent: the cases with a stamp inside the TTL
  prev,       \* cancelledPrev, likewise
  seen,       \* where the read lock of a running isCancelled found the case
  \* Faults injected so far
  faults,
  \* History, written only to state properties:
  dropped,    \* why a file's message was acknowledged with nothing published
  failedAt,   \* retry counts at which a scan of the file failed
  tried,      \* retry counts at which the file was received
  removed,    \* <<file, what was at its path, what the scan had opened>>, deleted
  moved,      \* replica: the path has changed since it opened the file
  cancelled,  \* cases ever cancelled
  foreseen,   \* replica: the cancellation was consumed before this delivery
  lasts,      \* replica: how many swaps lose the case its set held when clamd answered
  knowable    \* replica: Redis held the case when clamd answered

broker == <<queue, delayed, results, started, retrying>>
cancelling == <<cancelQ, redis, cancelled>>
storage == <<disk, orphans, removed>>
delivery == <<file, level, held, opened, moved>>
sets == <<current, prev>>
memory == <<sets, seen>>
history == <<dropped, failedAt, tried>>
checks == <<foreseen, lasts, knowable>>
vars == <<broker, cancelling, shape, storage, pc, delivery, expired, memory,
          faults, history, checks>>

Levels == 0 .. MaxRetries
Contents == {"clean", "infected"}
PathStates == Contents \cup {"large", "symlink", "directory", "gone"}
Findings == {"unread", "current", "prev", "absent"}
Outcomes == {"CLEAN", "INFECTED", "ERROR", "FAILED"}
Reasons == {"malformed", "cancelled", "badpath", "missing", "ioerror",
            "unreported"}
Stages == {"idle", "precheck", "lstat", "open", "reject", "started", "hash",
           "recheck", "clamd", "postcheck", "discard", "remove", "publish",
           "failed", "notify", "ack", "nack"}

\* The stages up to the last cancellation check.
Checking == {"precheck", "lstat", "open", "started", "hash", "recheck", "clamd",
             "postcheck"}

TypeOK ==
  /\ queue \in [Files -> [Levels -> Nat]]
  /\ delayed \in [Files -> [Levels -> Nat]]
  /\ results \in [Files -> [Outcomes -> Nat]]
  /\ started \in [Files -> Nat]
  /\ retrying \subseteq Files \X Levels
  /\ cancelQ \subseteq Cases /\ redis \subseteq Cases
  /\ cancelled \subseteq Cases
  /\ shape \in [Files -> {"valid", "malformed", "badpath", "oversize"}]
  /\ disk \in [Files -> PathStates]
  /\ orphans \subseteq Files
  /\ removed \subseteq
       Files \X (PathStates \cup {"changed"}) \X (Contents \cup {"none"})
  /\ pc \in [Replicas -> Stages]
  /\ file \in [Replicas -> Files]
  /\ level \in [Replicas -> Levels]
  /\ held \in [Replicas -> BOOLEAN]
  /\ expired \in [Replicas -> BOOLEAN]
  /\ opened \in [Replicas -> Contents \cup {"none"}]
  /\ moved \in [Replicas -> BOOLEAN]
  /\ current \in [Replicas -> SUBSET Cases]
  /\ prev \in [Replicas -> SUBSET Cases]
  /\ seen \in [Replicas -> Findings]
  /\ faults \in 0 .. MaxFaults
  /\ dropped \in [Files -> SUBSET Reasons]
  /\ failedAt \in [Files -> SUBSET Levels]
  /\ tried \in [Files -> SUBSET Levels]
  /\ foreseen \in [Replicas -> BOOLEAN]
  /\ lasts \in [Replicas -> 0 .. 2]
  /\ knowable \in [Replicas -> BOOLEAN]

\* Filler for the file of an idle replica.
AnyFile == CHOOSE f \in Files : TRUE

\* Every file has been uploaded and its message is in the scan queue.
Init ==
  /\ queue = [f \in Files |-> [n \in Levels |-> IF n = 0 THEN 1 ELSE 0]]
  /\ delayed = [f \in Files |-> [n \in Levels |-> 0]]
  /\ results = [f \in Files |-> [o \in Outcomes |-> 0]]
  /\ started = [f \in Files |-> 0]
  /\ retrying = {}
  /\ cancelQ = {} /\ redis = {} /\ cancelled = {}
  /\ shape \in [Files -> {"valid", "malformed", "badpath", "oversize"}]
  /\ disk \in [Files -> PathStates]
  /\ orphans = {} /\ removed = {}
  /\ pc = [w \in Replicas |-> "idle"]
  /\ file = [w \in Replicas |-> AnyFile]
  /\ level = [w \in Replicas |-> 0]
  /\ held = [w \in Replicas |-> FALSE]
  /\ expired = [w \in Replicas |-> FALSE]
  /\ opened = [w \in Replicas |-> "none"]
  /\ moved = [w \in Replicas |-> FALSE]
  /\ current = [w \in Replicas |-> {}]
  /\ prev = [w \in Replicas |-> {}]
  /\ seen = [w \in Replicas |-> "unread"]
  /\ faults = 0
  /\ dropped = [f \in Files |-> {}]
  /\ failedAt = [f \in Files |-> {}]
  /\ tried = [f \in Files |-> {}]
  /\ foreseen = [w \in Replicas |-> FALSE]
  /\ lasts = [w \in Replicas |-> 0]
  /\ knowable = [w \in Replicas |-> FALSE]

-----------------------------------------------------------------------------
(* Helpers *)

At(w, stage) == pc[w] = stage

Goto(w, stage) == pc' = [pc EXCEPT ![w] = stage]

Fault == faults < MaxFaults /\ faults' = faults + 1

\* Nothing published: the reason is kept and the delivery acknowledged.
Drop(w, why) ==
  /\ dropped' = [dropped EXCEPT ![file[w]] = @ \cup {why}]
  /\ Goto(w, "ack")

\* Publish with confirmation: accepted and confirmed, or an error after which
\* the broker may or may not have the message.
Publishes(accepted, failed) ==
  \/ accepted /\ ~failed /\ UNCHANGED faults
  \/ failed /\ Fault

\* One more terminal message about the file, if the broker accepted it.
Report(f, outcome, accepted) ==
  results' = IF accepted THEN [results EXCEPT ![f][outcome] = @ + 1]
             ELSE results

\* The replica's next delivery starts from a clean slate.
Idle(w) ==
  /\ Goto(w, "idle")
  /\ file' = [file EXCEPT ![w] = AnyFile]
  /\ level' = [level EXCEPT ![w] = 0]
  /\ held' = [held EXCEPT ![w] = FALSE]
  /\ expired' = [expired EXCEPT ![w] = FALSE]
  /\ foreseen' = [foreseen EXCEPT ![w] = FALSE]
  /\ opened' = [opened EXCEPT ![w] = "none"]
  /\ moved' = [moved EXCEPT ![w] = FALSE]
  /\ seen' = [seen EXCEPT ![w] = "unread"]
  /\ lasts' = [lasts EXCEPT ![w] = 0]
  /\ knowable' = [knowable EXCEPT ![w] = FALSE]

\* The broker puts an unsettled delivery back, its headers as they were.
Requeue(w) ==
  queue' = IF held[w] THEN [queue EXCEPT ![file[w]][level[w]] = @ + 1]
           ELSE queue

\* Where a read of both maps finds the case.
Lookup(w, c) ==
  IF c \in current[w] THEN "current"
  ELSE IF c \in prev[w] THEN "prev" ELSE "absent"

\* The rest of isCancelled(ctx, caseId) after its read lock: a case seen in the
\* current generation is cancelled; one seen in the previous generation is so if
\* it is still there under the write lock, and is promoted; any other is looked
\* up in Redis, where a hit is cached.  Redis answers nothing once the handler's
\* context has expired, of which its own two-second context is a child; other
\* Redis errors are faults.
IsCancelled(w, yes) ==
  LET c == CaseOf[file[w]]
      promoted == seen[w] = "prev" /\ c \in prev[w]
      known == /\ seen[w] # "current" /\ ~promoted
               /\ RedisEnabled /\ ~expired[w] /\ c \in redis
  IN /\ seen[w] # "unread"
     /\ seen' = [seen EXCEPT ![w] = "unread"]
     /\ UNCHANGED prev
     /\ \/ yes /\ seen[w] = "current" /\ UNCHANGED <<current, faults>>
        \/ /\ yes /\ (promoted \/ known)
           /\ current' = [current EXCEPT ![w] = @ \cup {c}]
           /\ UNCHANGED faults
        \/ /\ ~yes /\ seen[w] # "current" /\ ~promoted /\ ~known
           /\ UNCHANGED <<current, faults>>
        \/ ~yes /\ known /\ Fault /\ UNCHANGED current

\* removeFileWithRetry: the path is gone, with whatever was there, or both
\* attempts failed and it is in the ledger, unless writing the ledger failed as
\* well (logOrphanFile).
RemoveFile(w) ==
  LET f == file[w]
      what == IF moved[w] THEN "changed" ELSE disk[f]
  IN \/ /\ disk' = [disk EXCEPT ![f] = "gone"]
        /\ removed' = IF disk[f] = "gone" THEN removed
                      ELSE removed \cup {<<f, what, opened[w]>>}
        /\ UNCHANGED <<orphans, faults>>
     \/ /\ disk[f] # "gone"
        /\ orphans' = orphans \cup {f} \/ UNCHANGED orphans
        /\ Fault
        /\ UNCHANGED <<disk, removed>>

\* One swap less to outlive, up to the last check.
Turned(w) ==
  [lasts EXCEPT ![w] = IF At(w, "postcheck") /\ @ > 0 THEN @ - 1 ELSE @]

\* MarkCancelled: into the current generation or, if that is full of other
\* cases, into a new one.  How full it is depends on cases that are not modelled.
MarkCancelled(w, c) ==
  \/ /\ current' = [current EXCEPT ![w] = @ \cup {c}]
     /\ UNCHANGED <<prev, lasts>>
  \/ /\ c \notin current[w]
     /\ prev' = [prev EXCEPT ![w] = current[w]]
     /\ current' = [current EXCEPT ![w] = {c}]
     /\ lasts' = Turned(w)

-----------------------------------------------------------------------------
(* HandleScanMessage *)

\* The broker delivers a message; one that does not unmarshal is acknowledged.
Receive(w, f, n) ==
  /\ At(w, "idle")
  /\ queue[f][n] > 0
  /\ queue' = [queue EXCEPT ![f][n] = @ - 1]
  /\ file' = [file EXCEPT ![w] = f]
  /\ level' = [level EXCEPT ![w] = n]
  /\ held' = [held EXCEPT ![w] = TRUE]
  /\ tried' = [tried EXCEPT ![f] = @ \cup {n}]
  /\ foreseen' = [foreseen EXCEPT ![w] = CaseOf[f] \in cancelled \ cancelQ]
  /\ \/ /\ shape[f] = "malformed"
        /\ dropped' = [dropped EXCEPT ![f] = @ \cup {"malformed"}]
        /\ Goto(w, "ack")
     \/ shape[f] # "malformed" /\ Goto(w, "precheck") /\ UNCHANGED dropped
  /\ UNCHANGED <<delayed, results, started, retrying, cancelling, shape,
                 storage, expired, memory, faults, failedAt, opened, moved,
                 lasts, knowable>>

\* The read lock of any of the three calls of isCancelled.
ReadSet(w) ==
  /\ pc[w] \in {"precheck", "recheck", "postcheck"}
  /\ seen[w] = "unread"
  /\ seen' = [seen EXCEPT ![w] = Lookup(w, CaseOf[file[w]])]
  /\ UNCHANGED <<broker, cancelling, shape, storage, pc, delivery, expired, sets,
                 faults, history, checks>>

\* The first cancellation check, then validateTempPath.
PreCheck(w) ==
  /\ At(w, "precheck")
  /\ \/ IsCancelled(w, TRUE) /\ Drop(w, "cancelled")
     \/ /\ IsCancelled(w, FALSE)
        /\ \/ shape[file[w]] = "badpath" /\ Drop(w, "badpath")
           \/ /\ shape[file[w]] # "badpath"
              /\ Goto(w, "lstat")
              /\ UNCHANGED dropped
  /\ UNCHANGED <<broker, cancelling, shape, storage, delivery, expired,
                 failedAt, tried, checks>>

-----------------------------------------------------------------------------
(* runScan *)

\* An error of Lstat, open or fstat, whatever its cause, discards the message.
Unreadable(w) ==
  \/ disk[file[w]] = "gone" /\ Drop(w, "missing") /\ UNCHANGED faults
  \/ disk[file[w]] # "gone" /\ Drop(w, "ioerror") /\ Fault

\* Lstat, and the size the message states.
Lstat(w) ==
  /\ At(w, "lstat")
  /\ \/ Unreadable(w)
     \/ /\ disk[file[w]] # "gone"
        /\ Goto(w, IF \/ disk[file[w]] \in {"symlink", "directory"}
                      \/ shape[file[w]] = "oversize"
                   THEN "reject" ELSE "open")
        /\ UNCHANGED <<dropped, faults>>
  /\ UNCHANGED <<broker, cancelling, shape, storage, delivery, expired, memory,
                 failedAt, tried, checks>>

\* OpenFile with O_NOFOLLOW and the size of the open file.
Open(w) ==
  /\ At(w, "open")
  /\ \/ Unreadable(w) /\ UNCHANGED opened
     \/ /\ disk[file[w]] \in {"symlink", "large"}
        /\ Goto(w, "reject")
        /\ UNCHANGED <<opened, dropped, faults>>
     \/ /\ disk[file[w]] \in Contents
        /\ opened' = [opened EXCEPT ![w] = disk[file[w]]]
        /\ Goto(w, IF level[w] = 0 THEN "started" ELSE "hash")
        /\ UNCHANGED <<dropped, faults>>
  /\ UNCHANGED <<broker, cancelling, shape, storage, file, level, held, moved,
                 expired, memory, failedAt, tried, checks>>

\* publishRejection, best effort.
Reject(w) ==
  /\ At(w, "reject")
  /\ \E accepted, failed \in BOOLEAN :
       /\ Publishes(accepted, failed)
       /\ Report(file[w], "ERROR", accepted)
       /\ \/ accepted /\ Goto(w, "ack") /\ UNCHANGED dropped
          \/ ~accepted /\ Drop(w, "unreported")
  /\ UNCHANGED <<queue, delayed, started, retrying, cancelling, shape, storage,
                 delivery, expired, memory, failedAt, tried, checks>>

\* ScanStarted, best effort, only for a delivery without retries.
Start(w) ==
  /\ At(w, "started")
  /\ \E accepted, failed \in BOOLEAN :
       /\ Publishes(accepted, failed)
       /\ started' = IF accepted THEN [started EXCEPT ![file[w]] = @ + 1]
                     ELSE started
  /\ Goto(w, "hash")
  /\ UNCHANGED <<queue, delayed, results, retrying, cancelling, shape, storage,
                 delivery, expired, memory, history, checks>>

\* A failed scan attempt closes the file and goes to handleScanFailure.
Fail(w) ==
  /\ Goto(w, "failed")
  /\ opened' = [opened EXCEPT ![w] = "none"]
  /\ moved' = [moved EXCEPT ![w] = FALSE]
  /\ failedAt' = [failedAt EXCEPT ![file[w]] = @ \cup {level[w]}]

\* Checksum and magic bytes of the open file.
Hash(w) ==
  /\ At(w, "hash")
  /\ Fail(w) \/ (Goto(w, "recheck") /\ UNCHANGED <<opened, moved, failedAt>>)
  /\ UNCHANGED <<broker, cancelling, shape, storage, file, level, held, expired,
                 memory, faults, dropped, tried, checks>>

Recheck(w) ==
  /\ At(w, "recheck")
  /\ \/ IsCancelled(w, TRUE) /\ Goto(w, "discard")
     \/ IsCancelled(w, FALSE) /\ Goto(w, "clamd")
  /\ UNCHANGED <<broker, cancelling, shape, storage, delivery, expired,
                 history, checks>>

\* Seek, connect and ScanStream, each of which may fail; the content scanned is
\* that of the file opened before.
ScanStream(w) ==
  /\ At(w, "clamd")
  /\ \/ Fail(w) /\ UNCHANGED <<lasts, knowable>>
     \/ /\ Goto(w, "postcheck")
        /\ lasts' = [lasts EXCEPT ![w] =
                        IF CaseOf[file[w]] \in current[w] THEN 2
                        ELSE IF CaseOf[file[w]] \in prev[w] THEN 1 ELSE 0]
        /\ knowable' = [knowable EXCEPT ![w] = CaseOf[file[w]] \in redis]
        /\ UNCHANGED <<opened, moved, failedAt>>
  /\ UNCHANGED <<broker, cancelling, shape, storage, file, level, held, expired,
                 memory, faults, dropped, tried, foreseen>>

PostCheck_Skipped(w) ==
  /\ At(w, "postcheck")
  /\ Goto(w, IF opened[w] = "infected" THEN "remove" ELSE "publish")
  /\ UNCHANGED <<broker, cancelling, shape, storage, delivery, expired, memory,
                 faults, history, checks>>

PostCheck_RemoveAlways(w) ==
  /\ At(w, "postcheck")
  /\ \/ IsCancelled(w, TRUE) /\ Goto(w, "discard")
     \/ IsCancelled(w, FALSE) /\ Goto(w, "remove")
  /\ UNCHANGED <<broker, cancelling, shape, storage, delivery, expired,
                 history, checks>>

\* The last cancellation check; an infected file is deleted before publishing.
PostCheck(w) ==
  /\ At(w, "postcheck")
  /\ \/ IsCancelled(w, TRUE) /\ Goto(w, "discard")
     \/ /\ IsCancelled(w, FALSE)
        /\ Goto(w, IF opened[w] = "infected" THEN "remove" ELSE "publish")
  /\ UNCHANGED <<broker, cancelling, shape, storage, delivery, expired,
                 history, checks>>

\* The case was cancelled while the file was read or scanned.
Discard(w) ==
  /\ At(w, "discard")
  /\ RemoveFile(w)
  /\ Drop(w, "cancelled")
  /\ UNCHANGED <<broker, cancelling, shape, delivery, expired, memory, failedAt,
                 tried, checks>>

RemoveInfected(w) ==
  /\ At(w, "remove")
  /\ RemoveFile(w)
  /\ Goto(w, "publish")
  /\ UNCHANGED <<broker, cancelling, shape, delivery, expired, memory, history,
                 checks>>

PublishVerdict_AckAnyway(w) ==
  /\ At(w, "publish")
  /\ \E accepted, failed \in BOOLEAN :
       /\ Publishes(accepted, failed)
       /\ Report(file[w], IF opened[w] = "infected" THEN "INFECTED" ELSE "CLEAN",
                 accepted)
       /\ Goto(w, "ack")
  /\ UNCHANGED <<queue, delayed, started, retrying, cancelling, shape, storage,
                 delivery, expired, memory, history, checks>>

\* publishScanCompleted; an error requeues the delivery.
PublishVerdict(w) ==
  /\ At(w, "publish")
  /\ \E accepted, failed \in BOOLEAN :
       /\ Publishes(accepted, failed)
       /\ Report(file[w], IF opened[w] = "infected" THEN "INFECTED" ELSE "CLEAN",
                 accepted)
       /\ Goto(w, IF failed THEN "nack" ELSE "ack")
  /\ UNCHANGED <<queue, delayed, started, retrying, cancelling, shape, storage,
                 delivery, expired, memory, history, checks>>

-----------------------------------------------------------------------------
(* handleScanFailure *)

ScheduleRetry_OneTooMany(w) ==
  /\ At(w, "failed")
  /\ level[w] <= MaxRetries
  /\ \E accepted, failed \in BOOLEAN :
       /\ Publishes(accepted, failed)
       /\ delayed' = IF accepted
                     THEN [delayed EXCEPT ![file[w]][level[w] + 1] = @ + 1]
                     ELSE delayed
       /\ Goto(w, IF failed THEN "nack" ELSE "notify")
  /\ UNCHANGED <<queue, results, started, retrying, cancelling, shape, storage,
                 delivery, expired, memory, history, checks>>

ScheduleRetry_NotifyAnyway(w) ==
  /\ At(w, "failed")
  /\ level[w] < MaxRetries
  /\ \E accepted, failed \in BOOLEAN :
       /\ Publishes(accepted, failed)
       /\ delayed' = IF accepted
                     THEN [delayed EXCEPT ![file[w]][level[w] + 1] = @ + 1]
                     ELSE delayed
       /\ Goto(w, "notify")
  /\ UNCHANGED <<queue, results, started, retrying, cancelling, shape, storage,
                 delivery, expired, memory, history, checks>>

\* Retries left: a copy with the next count goes to that retry queue.
ScheduleRetry(w) ==
  /\ At(w, "failed")
  /\ level[w] < MaxRetries
  /\ \E accepted, failed \in BOOLEAN :
       /\ Publishes(accepted, failed)
       /\ delayed' = IF accepted
                     THEN [delayed EXCEPT ![file[w]][level[w] + 1] = @ + 1]
                     ELSE delayed
       /\ Goto(w, IF failed THEN "nack" ELSE "notify")
  /\ UNCHANGED <<queue, results, started, retrying, cancelling, shape, storage,
                 delivery, expired, memory, history, checks>>

\* ScanRetrying, best effort, after the retry is confirmed.
NotifyRetry(w) ==
  /\ At(w, "notify")
  /\ \E accepted, failed \in BOOLEAN :
       /\ Publishes(accepted, failed)
       /\ retrying' = IF accepted THEN retrying \cup {<<file[w], level[w] + 1>>}
                      ELSE retrying
  /\ Goto(w, "ack")
  /\ UNCHANGED <<queue, delayed, results, started, cancelling, shape, storage,
                 delivery, expired, memory, history, checks>>

DeadLetter_OneEarly(w) ==
  /\ At(w, "failed")
  /\ level[w] >= MaxRetries - 1
  /\ \E accepted, failed \in BOOLEAN :
       /\ Publishes(accepted, failed)
       /\ Report(file[w], "FAILED", accepted)
       /\ Goto(w, IF failed THEN "nack" ELSE "ack")
  /\ UNCHANGED <<queue, delayed, started, retrying, cancelling, shape, storage,
                 delivery, expired, memory, history, checks>>

\* Retries exhausted: ScanFailed to the dead-letter exchange.
DeadLetter(w) ==
  /\ At(w, "failed")
  /\ level[w] >= MaxRetries
  /\ \E accepted, failed \in BOOLEAN :
       /\ Publishes(accepted, failed)
       /\ Report(file[w], "FAILED", accepted)
       /\ Goto(w, IF failed THEN "nack" ELSE "ack")
  /\ UNCHANGED <<queue, delayed, started, retrying, cancelling, shape, storage,
                 delivery, expired, memory, history, checks>>

-----------------------------------------------------------------------------
(* Settling *)

Ack_Requeues(w) ==
  /\ At(w, "ack")
  /\ Requeue(w)
  /\ Idle(w)
  /\ UNCHANGED <<delayed, results, started, retrying, cancelling, shape,
                 storage, sets, faults, history>>

\* ackLogErr: of no effect, but for a log line, if the connection was lost.
Ack(w) ==
  /\ At(w, "ack")
  /\ Idle(w)
  /\ UNCHANGED <<broker, cancelling, shape, storage, sets, faults, history>>

\* nackLogErr with requeue.
Nack(w) ==
  /\ At(w, "nack")
  /\ Requeue(w)
  /\ Idle(w)
  /\ UNCHANGED <<delayed, results, started, retrying, cancelling, shape,
                 storage, sets, faults, history>>

-----------------------------------------------------------------------------
(* Cancellation *)

\* The backend cancels a case: its message reaches q.case.cancelled, the one
\* queue all replicas consume.
CancelCase(c) ==
  /\ c \notin cancelled
  /\ cancelled' = cancelled \cup {c}
  /\ cancelQ' = cancelQ \cup {c}
  /\ UNCHANGED <<redis, broker, shape, storage, pc, delivery,
                 expired, memory, faults, history, checks>>

\* Nothing in ClamGo writes the Redis key; the backend may.  Its expiry is not
\* modelled: a lookup that comes too late reads like a failed one.
SetRedisKey(c) ==
  /\ RedisEnabled
  /\ c \in cancelled \ redis
  /\ redis' = redis \cup {c}
  /\ UNCHANGED <<cancelQ, cancelled, broker, shape, storage, pc, delivery,
                 expired, memory, faults, history, checks>>

\* HandleCancelMessage, in the cancel consumer's goroutine of one replica; if
\* the acknowledgement is lost the message stays.
HandleCancelMessage(w, c) ==
  /\ c \in cancelQ
  /\ MarkCancelled(w, c)
  /\ \/ cancelQ' = cancelQ \ {c} /\ UNCHANGED faults
     \/ Fault /\ UNCHANGED cancelQ
  /\ UNCHANGED <<redis, cancelled, broker, shape, storage, pc, delivery,
                 expired, seen, history, foreseen, knowable>>

\* The same for a case without files here: its cancellation finds the current
\* generation full.
OtherCaseCancelled(w) ==
  /\ prev' = [prev EXCEPT ![w] = current[w]]
  /\ current' = [current EXCEPT ![w] = {}]
  /\ lasts' = Turned(w)
  /\ UNCHANGED <<broker, cancelling, shape, storage, pc, delivery, expired, seen,
                 faults, history, foreseen, knowable>>

\* Stamps of a case pass the TTL, those in the previous generation first, and
\* are from then on as good as evicted.  One that does so between a read lock and
\* the test that follows it counts as having done so before.
Lapse(w, c) ==
  /\ c \in current[w] \cup prev[w]
  /\ prev' = [prev EXCEPT ![w] = @ \ {c}]
  /\ \/ current' = [current EXCEPT ![w] = @ \ {c}]
     \/ c \in current[w] /\ c \in prev[w] /\ UNCHANGED current
  /\ lasts' = [lasts EXCEPT ![w] = IF At(w, "postcheck") /\ CaseOf[file[w]] = c
                                  THEN 0 ELSE @]
  /\ UNCHANGED <<broker, cancelling, shape, storage, pc, delivery, expired, seen,
                 faults, history, foreseen, knowable>>

-----------------------------------------------------------------------------
(* Environment *)

\* The delay of retry queue n ends: the message is dead-lettered back.
RetryDue(f, n) ==
  /\ delayed[f][n] > 0
  /\ delayed' = [delayed EXCEPT ![f][n] = @ - 1]
  /\ queue' = [queue EXCEPT ![f][n] = @ + 1]
  /\ UNCHANGED <<results, started, retrying, cancelling, shape, storage, pc,
                 delivery, expired, memory, faults, history, checks>>

\* A replica dies and is started again; the broker redelivers.
Crash(w) ==
  /\ Fault
  /\ Requeue(w)
  /\ Idle(w)
  /\ current' = [current EXCEPT ![w] = {}]
  /\ prev' = [prev EXCEPT ![w] = {}]
  /\ UNCHANGED <<delayed, results, started, retrying, cancelling, shape,
                 storage, history>>

\* The broker loses the connection and redelivers while the handler runs on.
ConnectionLost(w) ==
  /\ held[w]
  /\ Fault
  /\ Requeue(w)
  /\ held' = [held EXCEPT ![w] = FALSE]
  /\ UNCHANGED <<delayed, results, started, retrying, cancelling, shape,
                 storage, pc, file, level, opened, moved, expired, memory,
                 history, checks>>

\* The handler's context expires (scanHandlerTimeoutSeconds).  Publishing uses
\* a detached context, so only the Redis lookups to come notice.
HandlerTimeout(w) ==
  /\ RedisEnabled
  /\ pc[w] \in Checking /\ ~expired[w]
  /\ expired' = [expired EXCEPT ![w] = TRUE]
  /\ UNCHANGED <<broker, cancelling, shape, storage, pc, delivery, memory, faults,
                 history, checks>>

\* Another user of the share removes or replaces what is at the path; a replica
\* that has the file open keeps the one it opened.
TempPathChanges(f, d) ==
  /\ disk[f] # "gone"
  /\ Fault
  /\ disk' = [disk EXCEPT ![f] = d]
  /\ moved' = [w \in Replicas |->
                 moved[w] \/ (file[w] = f /\ opened[w] # "none")]
  /\ UNCHANGED <<orphans, removed, broker, cancelling, shape, pc, file, level,
                 held, opened, expired, memory, history, checks>>

-----------------------------------------------------------------------------

\* The scan consumer of a replica.
Work(w) ==
  \/ \E f \in Files, n \in Levels : Receive(w, f, n)
  \/ ReadSet(w) \/ PreCheck(w) \/ Lstat(w) \/ Open(w) \/ Reject(w) \/ Start(w)
  \/ Hash(w) \/ Recheck(w) \/ ScanStream(w) \/ PostCheck(w)
  \/ Discard(w) \/ RemoveInfected(w) \/ PublishVerdict(w)
  \/ ScheduleRetry(w) \/ NotifyRetry(w) \/ DeadLetter(w)
  \/ Ack(w) \/ Nack(w)

Next ==
  \/ \E w \in Replicas : \/ Work(w) \/ Crash(w) \/ ConnectionLost(w)
                         \/ HandlerTimeout(w) \/ OtherCaseCancelled(w)
  \/ \E c \in Cases : CancelCase(c) \/ SetRedisKey(c)
  \/ \E w \in Replicas, c \in Cases : HandleCancelMessage(w, c) \/ Lapse(w, c)
  \/ \E f \in Files, n \in Levels : RetryDue(f, n)
  \/ \E f \in Files, d \in Contents \cup {"gone", "symlink"} : TempPathChanges(f, d)

Spec == Init /\ [][Next]_vars

\* A handler that can step does, and a retry queue's TTL expires.  Nothing is
\* assumed of crashes, cancellations or timeouts.
FairSpec ==
  /\ Spec
  /\ \A w \in Replicas : WF_vars(Work(w))
  /\ \A f \in Files, n \in Levels : WF_vars(RetryDue(f, n))

-----------------------------------------------------------------------------
(* Properties *)

\* The broker has a copy of the file's message with this retry count.
CopyAt(f, n) ==
  \/ queue[f][n] > 0
  \/ delayed[f][n] > 0
  \/ \E w \in Replicas : held[w] /\ file[w] = f /\ level[w] = n

\* The broker still owes the system a run for this file.
Live(f) == \E n \in Levels : CopyAt(f, n)

\* A terminal message about the file exists, or the code chose to drop it.
Accounted(f) ==
  \/ \E o \in Outcomes : results[f][o] > 0
  \/ dropped[f] # {}

\* Whatever crashes, connection losses and failed publishes happen, no message
\* leaves the broker unless a result was published or runScan discarded it for
\* one of its reasons: publishing always comes before the acknowledgement.
NoSilentLoss == \A f \in Files : Live(f) \/ Accounted(f)

\* ScanFailed reaches the dead-letter queue only after a scan failed at every
\* retry count from zero to maxRetries, across all redeliveries.
DeadLetterAfterAllRetries ==
  \A f \in Files : results[f]["FAILED"] > 0 => failedAt[f] = Levels

\* A retry announced to the backend is waiting, queued, running or has run: a
\* notification never precedes its retry.
AnnouncedRetryHappens ==
  \A f \in Files, n \in Levels : <<f, n>> \in retrying =>
    \/ delayed[f][n] > 0 \/ queue[f][n] > 0
    \/ n \in tried[f]

\* Terminal messages about one file beyond the first each cost a fault, and so do
\* its ScanStarted events: without faults the pipeline publishes at most one.
DuplicatesNeedFaults ==
  \A f \in Files :
    /\ results[f]["CLEAN"] + results[f]["INFECTED"] + results[f]["ERROR"]
         + results[f]["FAILED"] <= 1 + faults
    /\ started[f] <= 1 + faults

\* The service deletes at a temp path only after it found the file infected, or
\* its case cancelled, and what it deletes is the file it judged, unless someone
\* else has changed the path since the open: removeFileWithRetry acts on the
\* path, the verdict is on the open file.
RemovedForCause ==
  \A r \in removed :
    /\ r[3] = "infected" \/ CaseOf[r[1]] \in cancelled
    /\ r[2] \in {r[3], "changed"}

\* Past the last check, a verdict is about to be published.
Deciding(w) == pc[w] \in {"remove", "publish"}

\* When the replica's own set held the case as clamd answered, a verdict follows
\* only if the set let it go before the last check was through: from the current
\* generation by two swaps, from the previous one by one, or by the TTL.  When
\* Redis held it, that takes a fault or an expired handler context.
CancellationHonoured ==
  \A w \in Replicas : Deciding(w) =>
    /\ lasts[w] = 0
    /\ RedisEnabled /\ knowable[w] => faults > 0 \/ expired[w]

\* Every message is finally settled for good: retries and redeliveries end.
EventuallySettled == \A f \in Files : <>[]~Live(f)

-----------------------------------------------------------------------------
(* What the documentation claims and the code does not keep *)

\* "Published to uploader.exchange with routing key file.scan.completed on every
\* finished scan (clean or infected)."
InfectedReported ==
  \A f \in Files :
    (\E r \in removed : r[1] = f /\ r[3] = "infected")
    /\ CaseOf[f] \notin cancelled /\ ~Live(f)
      => results[f]["INFECTED"] > 0

\* "Any FileUploadedMessage for cancelled case is discarded (ACKed)."
CancelledCaseDiscarded == \A w \in Replicas : Deciding(w) => ~foreseen[w]

\* "Post-scan Cancellation Check ... Cancelled? -> ACK & Don't publish", with
\* Redis up and no fault at all.
RedisCancellationHonoured ==
  \A w \in Replicas : Deciding(w) /\ faults = 0 => ~knowable[w]

=============================================================================
