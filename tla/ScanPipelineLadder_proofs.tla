--------------------- MODULE ScanPipelineLadder_proofs ----------------------
(***************************************************************************)
(* The retry ladder: a file is dead-lettered only after its scan failed at *)
(* every retry count.  Copies multiply (a retry accepted without its       *)
(* confirmation is followed by a requeue of the same delivery), replicas   *)
(* die and deliveries return, but a copy with count n, wherever it is,     *)
(* proves that the scan has failed at every count below n.                 *)
(*                                                                         *)
(* The second half follows an announced retry: from the confirmation of    *)
(* its copy to the notification, the copy may already have been delivered, *)
(* run and settled, so the invariant remembers that it was received.       *)
(***************************************************************************)
EXTENDS ScanPipeline_proofs

Below(n) == {m \in Levels : m < n}

Waiting(f, n) == queue[f][n] > 0 \/ delayed[f][n] > 0

LadderInv ==
  /\ DeadLetterAfterAllRetries
  /\ \A f \in Files, n \in Levels : Waiting(f, n) => Below(n) \subseteq failedAt[f]
  /\ \A w \in Replicas : pc[w] = "idle" => ~held[w]
  /\ \A w \in Replicas : pc[w] # "idle" => Below(level[w]) \subseteq failedAt[file[w]]
  /\ \A w \in Replicas : pc[w] = "failed" => level[w] \in failedAt[file[w]]

\* A step that forgets no failure, and puts copies, handlers and dead letters
\* only where the failures below them are known, keeps the invariant.
LEMMA LadderFrame ==
  ASSUME TypeOK, TypeOK', LadderInv,
         \A f \in Files : failedAt[f] \subseteq failedAt'[f],
         \A f \in Files, n \in Levels : Waiting(f, n)' =>
           Waiting(f, n) \/ Below(n) \subseteq failedAt'[f],
         \A f \in Files : results'[f]["FAILED"] > 0 =>
           results[f]["FAILED"] > 0 \/ failedAt'[f] = Levels,
         \A v \in Replicas : pc'[v] = "idle" => ~held'[v],
         \A v \in Replicas : pc'[v] # "idle" =>
           \/ pc[v] # "idle" /\ file'[v] = file[v] /\ level'[v] = level[v]
           \/ Below(level'[v]) \subseteq failedAt'[file'[v]],
         \A v \in Replicas : pc'[v] = "failed" =>
           \/ pc[v] = "failed" /\ file'[v] = file[v] /\ level'[v] = level[v]
           \/ level'[v] \in failedAt'[file'[v]]
  PROVE  LadderInv'
<1>1. DeadLetterAfterAllRetries'
  <2> SUFFICES ASSUME NEW f \in Files, results'[f]["FAILED"] > 0
               PROVE  failedAt'[f] = Levels
    BY DEF DeadLetterAfterAllRetries
  <2>1. CASE results[f]["FAILED"] > 0
    <3>1. failedAt[f] = Levels
      BY <2>1 DEF LadderInv, DeadLetterAfterAllRetries
    <3>2. failedAt'[f] \subseteq Levels
      BY DEF TypeOK
    <3> QED
      BY <3>1, <3>2
  <2> QED
    BY <2>1
<1>2. \A f \in Files, n \in Levels : Waiting(f, n)' => Below(n) \subseteq failedAt'[f]
  BY DEF LadderInv
<1>3. \A v \in Replicas : pc'[v] # "idle" =>
        Below(level'[v]) \subseteq failedAt'[file'[v]]
  <2> SUFFICES ASSUME NEW v \in Replicas, pc'[v] # "idle", pc[v] # "idle",
                      file'[v] = file[v], level'[v] = level[v]
               PROVE  Below(level'[v]) \subseteq failedAt'[file'[v]]
    OBVIOUS
  <2>1. file[v] \in Files /\ Below(level[v]) \subseteq failedAt[file[v]]
    BY DEF LadderInv, TypeOK
  <2> QED
    BY <2>1
<1>4. \A v \in Replicas : pc'[v] = "failed" => level'[v] \in failedAt'[file'[v]]
  <2> SUFFICES ASSUME NEW v \in Replicas, pc[v] = "failed",
                      file'[v] = file[v], level'[v] = level[v]
               PROVE  level'[v] \in failedAt'[file'[v]]
    OBVIOUS
  <2>1. file[v] \in Files /\ level[v] \in failedAt[file[v]]
    BY DEF LadderInv, TypeOK
  <2> QED
    BY <2>1
<1> QED
  BY <1>1, <1>2, <1>3, <1>4 DEF LadderInv, Below, Waiting

\* A handler's move within its delivery, other than to a failure.
LEMMA ClimbMove ==
  ASSUME TypeOK, TypeOK', LadderInv, NEW w \in Replicas, pc[w] # "idle",
         NEW stage \in Stages \ {"idle", "failed"}, Goto(w, stage),
         UNCHANGED <<queue, delayed, file, level, held, failedAt>>,
         \A f \in Files : results'[f]["FAILED"] > 0 => results[f]["FAILED"] > 0
  PROVE  LadderInv'
<1>1. \A v \in Replicas : pc'[v] = IF v = w THEN stage ELSE pc[v]
  BY GotoType
<1>2. \A v \in Replicas : /\ pc'[v] = "idle" => pc[v] = "idle"
                          /\ pc'[v] # "idle" => pc[v] # "idle"
                          /\ pc'[v] = "failed" => pc[v] = "failed"
  BY <1>1
<1>3. \A v \in Replicas : pc'[v] = "idle" => ~held'[v]
  BY <1>2 DEF LadderInv
<1>4. \A f \in Files, n \in Levels : Waiting(f, n)' => Waiting(f, n)
  BY DEF Waiting
<1> QED
  BY <1>2, <1>3, <1>4, LadderFrame

\* A failed attempt is remembered at the count it failed at.
LEMMA ClimbFail ==
  ASSUME TypeOK, TypeOK', LadderInv, NEW w \in Replicas, pc[w] # "idle", Fail(w),
         UNCHANGED <<queue, delayed, file, level, held, results>>
  PROVE  LadderInv'
<1>1. \A v \in Replicas : pc'[v] = IF v = w THEN "failed" ELSE pc[v]
  BY GotoType DEF Fail, Stages
<1>2. failedAt' = [failedAt EXCEPT ![file[w]] = failedAt[file[w]] \cup {level[w]}]
  BY DEF Fail
<1>3. failedAt \in [Files -> SUBSET Levels] /\ file[w] \in Files
  BY DEF TypeOK
<1>4. \A f \in Files : failedAt[f] \subseteq failedAt'[f]
  BY <1>2, <1>3
<1>5. level[w] \in failedAt'[file[w]]
  BY <1>2, <1>3
<1>6. \A v \in Replicas : pc'[v] = "idle" => ~held'[v]
  BY <1>1 DEF LadderInv
<1>7. \A f \in Files, n \in Levels : Waiting(f, n)' => Waiting(f, n)
  BY DEF Waiting
<1>8. \A v \in Replicas : pc'[v] # "idle" => pc[v] # "idle"
  BY <1>1
<1>9. \A v \in Replicas : pc'[v] = "failed" =>
        pc[v] = "failed" \/ level[v] \in failedAt'[file[v]]
  BY <1>1, <1>5
<1> QED
  BY <1>4, <1>6, <1>7, <1>8, <1>9, LadderFrame

\* What a failed handler knows: every count up to its own has failed.
LEMMA RungKnown ==
  ASSUME TypeOK, LadderInv, NEW w \in Replicas, pc[w] = "failed"
  PROVE  \A m \in Levels : m <= level[w] => m \in failedAt[file[w]]
<1>1. Below(level[w]) \subseteq failedAt[file[w]] /\ level[w] \in failedAt[file[w]]
  BY DEF LadderInv
<1>2. level[w] \in Int /\ Levels \subseteq Int
  BY ScanPipelineAssumption DEF TypeOK, Levels
<1> QED
  BY <1>1, <1>2 DEF Below

\* A delivery the broker puts back had its failures known.
LEMMA ReturnKnown ==
  ASSUME TypeOK, LadderInv, NEW w \in Replicas, Requeue(w), UNCHANGED delayed
  PROVE  \A f \in Files, n \in Levels : Waiting(f, n)' =>
           Waiting(f, n) \/ Below(n) \subseteq failedAt[f]
<1>1. CASE ~held[w]
  BY <1>1 DEF Requeue, Waiting
<1>2. CASE held[w]
  <2> SUFFICES ASSUME NEW f \in Files, NEW n \in Levels, Waiting(f, n)',
                      ~Waiting(f, n)
               PROVE  Below(n) \subseteq failedAt[f]
    OBVIOUS
  <2>1. queue' = [queue EXCEPT ![file[w]][level[w]] = queue[file[w]][level[w]] + 1]
    BY <1>2 DEF Requeue
  <2>2. queue \in [Files -> [Levels -> Nat]] /\ file[w] \in Files /\ level[w] \in Levels
    BY DEF TypeOK
  <2>3. queue'[f][n] # queue[f][n]
    BY DEF Waiting
  <2>4. f = file[w] /\ n = level[w]
    BY <2>1, <2>2, <2>3
  <2>5. pc[w] # "idle"
    BY <1>2 DEF LadderInv
  <2> QED
    BY <2>4, <2>5 DEF LadderInv
<1> QED
  BY <1>1, <1>2

\* One step keeps the invariant.
LEMMA LadderStep == TypeInv /\ TypeInv' /\ LadderInv /\ [Next]_vars => LadderInv'
<1> SUFFICES ASSUME TypeInv, TypeInv', LadderInv, [Next]_vars PROVE LadderInv'
  OBVIOUS
<1>t. TypeOK /\ TypeOK'
  BY DEF TypeInv
<1> USE DEF broker, cancelling, storage, delivery, sets, memory,
           history, checks
<1>s. {"precheck", "lstat", "open", "reject", "started", "hash", "recheck",
       "clamd", "postcheck", "discard", "remove", "publish", "notify", "ack",
       "nack"} \subseteq Stages \ {"idle", "failed"}
  BY DEF Stages
<1>r. ASSUME NEW w \in Replicas, NEW o \in Outcomes \ {"FAILED"},
             NEW accepted \in BOOLEAN, Report(file[w], o, accepted)
      PROVE  \A f \in Files : results'[f]["FAILED"] = results[f]["FAILED"]
  <2>1. results \in [Files -> [Outcomes -> Nat]] /\ "FAILED" \in Outcomes
    BY <1>t DEF TypeOK, Outcomes
  <2> QED
    BY <1>r, <2>1 DEF Report
<1>1. ASSUME NEW w \in Replicas, NEW f \in Files, NEW n \in Levels,
             Receive(w, f, n)
      PROVE  LadderInv'
  <2>1. /\ UNCHANGED <<delayed, results, failedAt>> /\ queue[f][n] > 0
        /\ queue' = [queue EXCEPT ![f][n] = queue[f][n] - 1]
        /\ file' = [file EXCEPT ![w] = f] /\ level' = [level EXCEPT ![w] = n]
    BY <1>1 DEF Receive
  <2>2. PICK stage \in {"ack", "precheck"} : Goto(w, stage)
    BY <1>1 DEF Receive
  <2>3. \A v \in Replicas : pc'[v] = IF v = w THEN stage ELSE pc[v]
    BY <1>s, <1>t, <2>2, GotoType
  <2>4. /\ \A v \in Replicas \ {w} : file'[v] = file[v] /\ level'[v] = level[v]
        /\ file'[w] = f /\ level'[w] = n
    <3>1. file \in [Replicas -> Files] /\ level \in [Replicas -> Levels]
      BY <1>t DEF TypeOK
    <3> QED
      BY <2>1, <3>1
  <2>5. Below(n) \subseteq failedAt[f]
    BY <2>1 DEF LadderInv, Waiting
  <2>6. \A g \in Files, m \in Levels : Waiting(g, m)' => Waiting(g, m)
    <3>1. queue \in [Files -> [Levels -> Nat]]
      BY <1>t DEF TypeOK
    <3>2. \A g \in Files, m \in Levels : queue'[g][m] <= queue[g][m]
      BY <2>1, <3>1
    <3>3. \A g \in Files, m \in Levels : queue[g][m] \in Nat /\ queue'[g][m] \in Nat
      BY <1>t DEF TypeOK
    <3> QED
      BY <2>1, <3>2, <3>3 DEF Waiting
  <2>7. \A v \in Replicas : pc'[v] = "idle" => ~held'[v]
    <3>1. held' = [held EXCEPT ![w] = TRUE] /\ held \in [Replicas -> BOOLEAN]
      BY <1>1, <1>t DEF Receive, TypeOK
    <3>2. \A v \in Replicas \ {w} : held'[v] = held[v]
      BY <3>1
    <3> QED
      BY <2>2, <2>3, <3>2 DEF LadderInv
  <2>8. \A v \in Replicas : pc'[v] # "idle" =>
          \/ pc[v] # "idle" /\ file'[v] = file[v] /\ level'[v] = level[v]
          \/ Below(level'[v]) \subseteq failedAt'[file'[v]]
    BY <2>1, <2>3, <2>4, <2>5
  <2>9. \A v \in Replicas : pc'[v] = "failed" =>
          pc[v] = "failed" /\ file'[v] = file[v] /\ level'[v] = level[v]
    BY <2>2, <2>3, <2>4
  <2> QED
    BY <1>t, <2>1, <2>6, <2>7, <2>8, <2>9, LadderFrame
<1>2. ASSUME NEW w \in Replicas,
             \/ PreCheck(w) \/ Lstat(w) \/ Open(w) \/ Start(w) \/ Recheck(w)
             \/ PostCheck(w) \/ Discard(w) \/ RemoveInfected(w) \/ NotifyRetry(w)
      PROVE  LadderInv'
  <2>1. pc[w] # "idle"
    BY <1>2 DEF PreCheck, Lstat, Open, Start, Recheck, PostCheck, Discard,
                RemoveInfected, NotifyRetry, At
  <2>2. UNCHANGED <<queue, delayed, file, level, held, failedAt, results>>
    BY <1>2 DEF PreCheck, Lstat, Open, Start, Recheck, PostCheck, Discard,
                RemoveInfected, NotifyRetry
  <2>3. PICK stage \in Stages \ {"idle", "failed"} : Goto(w, stage)
    <3>1. CASE PreCheck(w) \/ Lstat(w) \/ Open(w)
      <4>1. \E stage \in {"ack", "lstat", "reject", "open", "started", "hash"} :
              Goto(w, stage)
        BY <3>1 DEF PreCheck, Lstat, Open, Unreadable, Drop
      <4> QED
        BY <1>s, <4>1
    <3>2. CASE Start(w) \/ Recheck(w) \/ PostCheck(w)
      <4>1. \E stage \in {"hash", "discard", "clamd", "remove", "publish"} :
              Goto(w, stage)
        BY <3>2 DEF Start, Recheck, PostCheck
      <4> QED
        BY <1>s, <4>1
    <3>3. CASE Discard(w) \/ RemoveInfected(w) \/ NotifyRetry(w)
      <4>1. \E stage \in {"ack", "publish"} : Goto(w, stage)
        BY <3>3 DEF Discard, RemoveInfected, NotifyRetry, Drop
      <4> QED
        BY <1>s, <4>1
    <3> QED
      BY <1>2, <3>1, <3>2, <3>3
  <2> QED
    BY <1>t, <2>1, <2>2, <2>3, ClimbMove
<1>3. ASSUME NEW w \in Replicas, Reject(w) \/ PublishVerdict(w) PROVE LadderInv'
  <2>1. pc[w] # "idle" /\ UNCHANGED <<queue, delayed, file, level, held, failedAt>>
    BY <1>3 DEF Reject, PublishVerdict, At
  <2>2. PICK stage \in {"ack", "nack"} : Goto(w, stage)
    BY <1>3 DEF Reject, PublishVerdict, Drop
  <2>3. \E o \in Outcomes \ {"FAILED"}, accepted \in BOOLEAN :
          Report(file[w], o, accepted)
    BY <1>3 DEF Reject, PublishVerdict, Outcomes
  <2>4. \A f \in Files : results'[f]["FAILED"] = results[f]["FAILED"]
    BY <1>r, <2>3
  <2> QED
    BY <1>s, <1>t, <2>1, <2>2, <2>4, ClimbMove
<1>4. ASSUME NEW w \in Replicas, Hash(w) \/ ScanStream(w) PROVE LadderInv'
  <2>1. /\ pc[w] # "idle"
        /\ UNCHANGED <<queue, delayed, file, level, held, results>>
    BY <1>4 DEF Hash, ScanStream, At
  <2>2. CASE Fail(w)
    BY <1>t, <2>1, <2>2, ClimbFail
  <2>3. CASE ~Fail(w)
    <3>1. UNCHANGED failedAt /\ \E stage \in {"recheck", "postcheck"} : Goto(w, stage)
      BY <1>4, <2>3 DEF Hash, ScanStream
    <3> QED
      BY <1>s, <1>t, <2>1, <3>1, ClimbMove
  <2> QED
    BY <2>2, <2>3
<1>5. ASSUME NEW w \in Replicas, ScheduleRetry(w) PROVE LadderInv'
  <2>1. /\ pc[w] = "failed" /\ level[w] < MaxRetries
        /\ UNCHANGED <<queue, file, level, held, failedAt, results>>
    BY <1>5 DEF ScheduleRetry, At
  <2>2. PICK stage \in {"nack", "notify"} : Goto(w, stage)
    BY <1>5 DEF ScheduleRetry
  <2>3. \/ delayed' = [delayed EXCEPT ![file[w]][level[w] + 1] =
                         delayed[file[w]][level[w] + 1] + 1]
        \/ UNCHANGED delayed
    BY <1>5 DEF ScheduleRetry
  <2>4. \A f \in Files, n \in Levels : Waiting(f, n)' =>
          Waiting(f, n) \/ Below(n) \subseteq failedAt'[f]
    <3> SUFFICES ASSUME NEW f \in Files, NEW n \in Levels, Waiting(f, n)',
                        ~Waiting(f, n)
                 PROVE  Below(n) \subseteq failedAt[f]
      BY <2>1
    <3>1. /\ delayed \in [Files -> [Levels -> Nat]] /\ file[w] \in Files
          /\ level[w] \in Levels
      BY <1>t DEF TypeOK
    <3>2. delayed'[f][n] # delayed[f][n]
      BY <2>1 DEF Waiting
    <3>3. f = file[w] /\ n = level[w] + 1
      BY <2>3, <3>1, <3>2
    <3>4. level[w] \in Int /\ Levels \subseteq Int
      BY <3>1, ScanPipelineAssumption DEF Levels
    <3> QED
      BY <1>t, <2>1, <3>3, <3>4, RungKnown DEF Below
  <2>5. \A v \in Replicas : pc'[v] = IF v = w THEN stage ELSE pc[v]
    BY <1>s, <1>t, <2>2, GotoType
  <2>6. \A v \in Replicas : /\ pc'[v] = "idle" => pc[v] = "idle"
                            /\ pc'[v] # "idle" => pc[v] # "idle"
                            /\ pc'[v] = "failed" => pc[v] = "failed"
    BY <2>1, <2>2, <2>5
  <2>7. \A v \in Replicas : pc'[v] = "idle" => ~held'[v]
    BY <2>1, <2>6 DEF LadderInv
  <2> QED
    BY <1>t, <2>1, <2>4, <2>6, <2>7, LadderFrame
<1>6. ASSUME NEW w \in Replicas, DeadLetter(w) PROVE LadderInv'
  <2>1. /\ pc[w] = "failed" /\ level[w] >= MaxRetries
        /\ UNCHANGED <<queue, delayed, file, level, held, failedAt>>
    BY <1>6 DEF DeadLetter, At
  <2>2. PICK stage \in {"nack", "ack"} : Goto(w, stage)
    BY <1>6 DEF DeadLetter
  <2>3. failedAt[file[w]] = Levels
    <3>1. \A m \in Levels : m <= level[w]
      BY <1>t, <2>1, ScanPipelineAssumption DEF TypeOK, Levels
    <3>2. failedAt[file[w]] \subseteq Levels
      BY <1>t DEF TypeOK
    <3> QED
      BY <1>t, <2>1, <3>1, <3>2, RungKnown
  <2>4. \A f \in Files : f # file[w] => results'[f] = results[f]
    <3>1. results \in [Files -> [Outcomes -> Nat]]
      BY <1>t DEF TypeOK
    <3>2. \E accepted \in BOOLEAN : Report(file[w], "FAILED", accepted)
      BY <1>6 DEF DeadLetter
    <3> QED
      BY <3>1, <3>2 DEF Report
  <2>5. \A f \in Files : results'[f]["FAILED"] > 0 =>
          results[f]["FAILED"] > 0 \/ failedAt'[f] = Levels
    BY <2>1, <2>3, <2>4
  <2>6. \A v \in Replicas : pc'[v] = IF v = w THEN stage ELSE pc[v]
    BY <1>s, <1>t, <2>2, GotoType
  <2>7. \A v \in Replicas : /\ pc'[v] = "idle" => pc[v] = "idle"
                            /\ pc'[v] # "idle" => pc[v] # "idle"
                            /\ pc'[v] = "failed" => pc[v] = "failed"
    BY <2>1, <2>2, <2>6
  <2>8. \A v \in Replicas : pc'[v] = "idle" => ~held'[v]
    BY <2>1, <2>7 DEF LadderInv
  <2>9. \A f \in Files, n \in Levels : Waiting(f, n)' => Waiting(f, n)
    BY <2>1 DEF Waiting
  <2> QED
    BY <1>t, <2>1, <2>5, <2>7, <2>8, <2>9, LadderFrame
<1>7. ASSUME NEW w \in Replicas, Ack(w) \/ Nack(w) \/ Crash(w) PROVE LadderInv'
  <2>1. Idle(w) /\ UNCHANGED <<delayed, results, failedAt>>
    BY <1>7 DEF Ack, Nack, Crash
  <2>2. \A f \in Files, n \in Levels : Waiting(f, n)' =>
          Waiting(f, n) \/ Below(n) \subseteq failedAt[f]
    <3>1. CASE UNCHANGED queue
      BY <2>1, <3>1 DEF Waiting
    <3>2. CASE Requeue(w)
      BY <1>t, <2>1, <3>2, ReturnKnown
    <3> QED
      BY <1>7, <3>1, <3>2 DEF Ack, Nack, Crash
  <2>3. \A v \in Replicas : pc'[v] = IF v = w THEN "idle" ELSE pc[v]
    BY <1>t, <2>1, IdleType
  <2>4. /\ \A v \in Replicas \ {w} :
             held'[v] = held[v] /\ file'[v] = file[v] /\ level'[v] = level[v]
        /\ ~held'[w]
    <3>1. /\ file' = [file EXCEPT ![w] = AnyFile]
          /\ level' = [level EXCEPT ![w] = 0]
          /\ held' = [held EXCEPT ![w] = FALSE]
      BY <2>1 DEF Idle
    <3>2. /\ file \in [Replicas -> Files] /\ level \in [Replicas -> Levels]
          /\ held \in [Replicas -> BOOLEAN]
      BY <1>t DEF TypeOK
    <3> QED
      BY <3>1, <3>2
  <2>5. \A v \in Replicas : pc'[v] = "idle" => ~held'[v]
    BY <2>3, <2>4 DEF LadderInv
  <2>6. \A v \in Replicas : pc'[v] # "idle" =>
          pc[v] = pc'[v] /\ file'[v] = file[v] /\ level'[v] = level[v]
    BY <2>3, <2>4
  <2> QED
    BY <1>t, <2>1, <2>2, <2>5, <2>6, LadderFrame
<1>8. ASSUME NEW w \in Replicas, ConnectionLost(w) PROVE LadderInv'
  <2>1. /\ Requeue(w) /\ held' = [held EXCEPT ![w] = FALSE]
        /\ UNCHANGED <<delayed, results, failedAt, pc, file, level>>
    BY <1>8 DEF ConnectionLost
  <2>2. \A f \in Files, n \in Levels : Waiting(f, n)' =>
          Waiting(f, n) \/ Below(n) \subseteq failedAt[f]
    BY <1>t, <2>1, ReturnKnown
  <2>3. \A v \in Replicas : held'[v] => held[v]
    <3>1. held \in [Replicas -> BOOLEAN]
      BY <1>t DEF TypeOK
    <3> QED
      BY <2>1, <3>1
  <2>4. \A v \in Replicas : pc'[v] = "idle" => ~held'[v]
    BY <2>1, <2>3 DEF LadderInv
  <2> QED
    BY <1>t, <2>1, <2>2, <2>4, LadderFrame
<1>9. ASSUME NEW f \in Files, NEW n \in Levels, RetryDue(f, n) PROVE LadderInv'
  <2>1. /\ UNCHANGED <<results, failedAt, pc, file, level, held>>
        /\ delayed[f][n] > 0
        /\ delayed' = [delayed EXCEPT ![f][n] = delayed[f][n] - 1]
        /\ queue' = [queue EXCEPT ![f][n] = queue[f][n] + 1]
    BY <1>9 DEF RetryDue
  <2>2. \A g \in Files, m \in Levels : Waiting(g, m)' => Waiting(g, m)
    <3> SUFFICES ASSUME NEW g \in Files, NEW m \in Levels, Waiting(g, m)'
                 PROVE  Waiting(g, m)
      OBVIOUS
    <3>1. CASE g = f /\ m = n
      BY <2>1, <3>1 DEF Waiting
    <3>2. CASE ~(g = f /\ m = n)
      <4>1. queue'[g][m] = queue[g][m] /\ delayed'[g][m] = delayed[g][m]
        BY <1>t, <2>1, <3>2 DEF TypeOK
      <4> QED
        BY <4>1 DEF Waiting
    <3> QED
      BY <3>1, <3>2
  <2>3. \A v \in Replicas : pc'[v] = "idle" => ~held'[v]
    BY <2>1 DEF LadderInv
  <2> QED
    BY <1>t, <2>1, <2>2, <2>3, LadderFrame
<1>10. ASSUME UNCHANGED <<queue, delayed, results, failedAt, pc, file, level, held>>
       PROVE  LadderInv'
  BY <1>10 DEF LadderInv, DeadLetterAfterAllRetries, Waiting, Below
<1>11. ASSUME NEW w \in Replicas,
              HandlerTimeout(w) \/ ReadSet(w) \/ OtherCaseCancelled(w)
       PROVE  LadderInv'
  BY <1>10, <1>11 DEF HandlerTimeout, ReadSet, OtherCaseCancelled
<1>12. ASSUME NEW c \in Cases,
              \/ CancelCase(c) \/ SetRedisKey(c)
              \/ \E w \in Replicas : HandleCancelMessage(w, c) \/ Lapse(w, c)
       PROVE  LadderInv'
  BY <1>10, <1>12 DEF CancelCase, SetRedisKey, HandleCancelMessage, Lapse
<1>13. ASSUME NEW f \in Files, NEW d \in Contents \cup {"gone", "symlink"},
              TempPathChanges(f, d)
       PROVE  LadderInv'
  BY <1>10, <1>13 DEF TempPathChanges
<1>14. CASE UNCHANGED vars
  BY <1>10, <1>14 DEF vars
<1> QED
  BY <1>1, <1>2, <1>3, <1>4, <1>5, <1>6, <1>7, <1>8, <1>9, <1>11, <1>12, <1>13,
     <1>14 DEF Next, Work

\* However copies are multiplied and redelivered, ScanFailed is published only
\* for a file whose scan failed at every retry count (handleScanFailure).
THEOREM DeadLetterAfterAllRetriesHolds == Spec => []DeadLetterAfterAllRetries
<1>1. Init => LadderInv
  <2> SUFFICES ASSUME Init PROVE LadderInv
    OBVIOUS
  <2>1. "FAILED" \in Outcomes
    BY DEF Outcomes
  <2>2. DeadLetterAfterAllRetries
    BY <2>1 DEF Init, DeadLetterAfterAllRetries
  <2>3. \A f \in Files, n \in Levels : Waiting(f, n) => n = 0
    BY DEF Init, Waiting
  <2>4. Below(0) = {}
    BY ScanPipelineAssumption DEF Below, Levels
  <2> QED
    BY <2>2, <2>3, <2>4 DEF Init, LadderInv
<1>2. LadderInv => DeadLetterAfterAllRetries
  BY DEF LadderInv
<1> QED
  BY <1>1, <1>2, InitTyped, TypeStep, LadderStep, PTL DEF Spec

-----------------------------------------------------------------------------
(* A retry announced is a retry that happens *)

\* The attempt with this count waits, is queued or has been received.
Begun(f, n) == delayed[f][n] > 0 \/ queue[f][n] > 0 \/ n \in tried[f]

AnnounceInv ==
  /\ AnnouncedRetryHappens
  /\ \A w \in Replicas : pc[w] = "notify" => Begun(file[w], level[w] + 1)

\* A step that loses no attempt, announces only attempts that have begun and
\* moves nobody to the announcement without one keeps the invariant.
LEMMA AnnounceFrame ==
  ASSUME TypeInv, AnnounceInv,
         \A f \in Files, n \in Levels : Begun(f, n) => Begun(f, n)',
         \A f \in Files, n \in Levels :
           <<f, n>> \in retrying' => <<f, n>> \in retrying \/ Begun(f, n)',
         \A v \in Replicas : pc'[v] = "notify" =>
           \/ pc[v] = "notify" /\ file'[v] = file[v] /\ level'[v] = level[v]
           \/ Begun(file[v], level[v] + 1)'
  PROVE  AnnounceInv'
<1>1. AnnouncedRetryHappens'
  <2>1. \A f \in Files, n \in Levels : <<f, n>> \in retrying => Begun(f, n)
    BY DEF AnnounceInv, AnnouncedRetryHappens, Begun
  <2>2. \A f \in Files, n \in Levels : <<f, n>> \in retrying' => Begun(f, n)'
    BY <2>1
  <2> QED
    BY <2>2 DEF AnnouncedRetryHappens, Begun
<1>2. ASSUME NEW v \in Replicas, pc'[v] = "notify"
      PROVE  Begun(file[v], level[v] + 1)'
  <2> SUFFICES ASSUME pc[v] = "notify", file'[v] = file[v], level'[v] = level[v]
               PROVE  Begun(file[v], level[v] + 1)'
    BY <1>2
  <2> DEFINE f == file[v]
             n == level[v] + 1
  <2>1. f \in Files /\ n \in Levels
    <3>1. f \in Files /\ level[v] \in Levels /\ level[v] < MaxRetries
      BY DEF TypeInv, TypeOK
    <3> QED
      BY <3>1, ScanPipelineAssumption DEF Levels
  <2>2. delayed[f][n] > 0 \/ queue[f][n] > 0 \/ n \in tried[f]
    BY DEF AnnounceInv, Begun
  <2>3. delayed'[f][n] > 0 \/ queue'[f][n] > 0 \/ n \in tried'[f]
    <3> HIDE DEF f, n
    <3> QED
      BY <2>1, <2>2 DEF Begun
  <2> QED
    BY <2>3 DEF Begun
<1> QED
  BY <1>1, <1>2 DEF AnnounceInv

\* A handler's move to another stage, the copies and announcements as they were.
LEMMA AnnounceMove ==
  ASSUME TypeInv, AnnounceInv, NEW w \in Replicas,
         NEW stage \in Stages \ {"notify"}, Goto(w, stage),
         \A v \in Replicas \ {w} : file'[v] = file[v] /\ level'[v] = level[v],
         \A f \in Files, n \in Levels : Begun(f, n) => Begun(f, n)',
         \A f \in Files, n \in Levels :
           <<f, n>> \in retrying' => <<f, n>> \in retrying \/ Begun(f, n)'
  PROVE  AnnounceInv'
<1>1. \A v \in Replicas : pc'[v] = IF v = w THEN stage ELSE pc[v]
  BY GotoType DEF TypeInv
<1>2. \A v \in Replicas : pc'[v] = "notify" =>
        pc[v] = "notify" /\ file'[v] = file[v] /\ level'[v] = level[v]
  BY <1>1
<1> QED
  BY <1>2, AnnounceFrame

\* A delivery put back adds to the queue.
LEMMA RequeueBegun ==
  ASSUME TypeOK, NEW w \in Replicas, Requeue(w) \/ UNCHANGED queue,
         UNCHANGED <<delayed, tried>>
  PROVE  \A f \in Files, n \in Levels : Begun(f, n) => Begun(f, n)'
<1>1. queue \in [Files -> [Levels -> Nat]] /\ file[w] \in Files /\ level[w] \in Levels
  BY DEF TypeOK
<1>2. \A f \in Files, n \in Levels : queue[f][n] > 0 => queue'[f][n] > 0
  BY <1>1 DEF Requeue
<1> QED
  BY <1>2 DEF Begun

\* One step keeps the invariant.
LEMMA AnnounceStep == TypeInv /\ AnnounceInv /\ [Next]_vars => AnnounceInv'
<1> SUFFICES ASSUME TypeInv, AnnounceInv, [Next]_vars PROVE AnnounceInv'
  OBVIOUS
<1>t. TypeOK
  BY DEF TypeInv
<1> USE DEF broker, cancelling, storage, delivery, sets, memory,
           history, checks
<1>s. {"precheck", "lstat", "open", "reject", "started", "hash", "recheck",
       "clamd", "postcheck", "discard", "remove", "publish", "failed", "ack",
       "nack", "idle"} \subseteq Stages \ {"notify"}
  BY DEF Stages
<1>1. ASSUME NEW w \in Replicas, NEW f \in Files, NEW n \in Levels,
             Receive(w, f, n)
      PROVE  AnnounceInv'
  <2>1. /\ UNCHANGED <<delayed, retrying>>
        /\ queue' = [queue EXCEPT ![f][n] = queue[f][n] - 1]
        /\ tried' = [tried EXCEPT ![f] = tried[f] \cup {n}]
        /\ file' = [file EXCEPT ![w] = f] /\ level' = [level EXCEPT ![w] = n]
    BY <1>1 DEF Receive
  <2>2. /\ queue \in [Files -> [Levels -> Nat]] /\ tried \in [Files -> SUBSET Levels]
        /\ file \in [Replicas -> Files] /\ level \in [Replicas -> Levels]
    BY <1>t DEF TypeOK
  <2>3. ASSUME NEW g \in Files, NEW m \in Levels, Begun(g, m) PROVE Begun(g, m)'
    <3>1. CASE g = f /\ m = n
      BY <2>1, <2>2, <3>1 DEF Begun
    <3>2. CASE ~(g = f /\ m = n)
      <4>1. queue'[g][m] = queue[g][m] /\ tried[g] \subseteq tried'[g]
        BY <2>1, <2>2, <3>2
      <4> QED
        BY <2>1, <2>3, <4>1 DEF Begun
    <3> QED
      BY <3>1, <3>2
  <2>4. \A v \in Replicas \ {w} : file'[v] = file[v] /\ level'[v] = level[v]
    BY <2>1, <2>2
  <2>5. PICK stage \in {"ack", "precheck"} : Goto(w, stage)
    BY <1>1 DEF Receive
  <2> QED
    BY <1>s, <2>1, <2>3, <2>4, <2>5, AnnounceMove
<1>2. ASSUME NEW w \in Replicas,
             \/ PreCheck(w) \/ Lstat(w) \/ Open(w) \/ Reject(w) \/ Start(w)
             \/ Hash(w) \/ Recheck(w) \/ ScanStream(w) \/ PostCheck(w)
             \/ Discard(w) \/ RemoveInfected(w) \/ PublishVerdict(w) \/ DeadLetter(w)
      PROVE  AnnounceInv'
  <2>1. UNCHANGED <<queue, delayed, tried, retrying, file, level>>
    BY <1>2 DEF PreCheck, Lstat, Open, Reject, Start, Hash, Recheck, ScanStream,
                PostCheck, Discard, RemoveInfected, PublishVerdict, DeadLetter
  <2>2. PICK stage \in Stages \ {"notify"} : Goto(w, stage)
    <3>1. CASE PreCheck(w) \/ Lstat(w) \/ Open(w)
      <4>1. \E stage \in {"ack", "lstat", "reject", "open", "started", "hash"} :
              Goto(w, stage)
        BY <3>1 DEF PreCheck, Lstat, Open, Unreadable, Drop
      <4> QED
        BY <1>s, <4>1
    <3>2. CASE Reject(w) \/ Start(w) \/ Hash(w) \/ Recheck(w) \/ ScanStream(w)
      <4>1. \E stage \in {"ack", "hash", "failed", "recheck", "discard", "clamd",
                          "postcheck"} : Goto(w, stage)
        BY <3>2 DEF Reject, Start, Hash, Recheck, ScanStream, Fail, Drop
      <4> QED
        BY <1>s, <4>1
    <3>3. CASE \/ PostCheck(w) \/ Discard(w) \/ RemoveInfected(w)
               \/ PublishVerdict(w) \/ DeadLetter(w)
      <4>1. \E stage \in {"discard", "remove", "publish", "ack", "nack"} :
              Goto(w, stage)
        BY <3>3 DEF PostCheck, Discard, RemoveInfected, PublishVerdict, DeadLetter,
                    Drop
      <4> QED
        BY <1>s, <4>1
    <3> QED
      BY <1>2, <3>1, <3>2, <3>3
  <2>3. \A f \in Files, n \in Levels : Begun(f, n) => Begun(f, n)'
    BY <2>1 DEF Begun
  <2> QED
    BY <2>1, <2>2, <2>3, AnnounceMove
<1>3. ASSUME NEW w \in Replicas, ScheduleRetry(w) PROVE AnnounceInv'
  <2>1. /\ level[w] < MaxRetries
        /\ UNCHANGED <<queue, tried, retrying, file, level>>
    BY <1>3 DEF ScheduleRetry
  <2>2. PICK accepted \in BOOLEAN, failed \in BOOLEAN :
          /\ Publishes(accepted, failed)
          /\ delayed' = IF accepted
                        THEN [delayed EXCEPT ![file[w]][level[w] + 1] =
                                delayed[file[w]][level[w] + 1] + 1]
                        ELSE delayed
          /\ Goto(w, IF failed THEN "nack" ELSE "notify")
    BY <1>3 DEF ScheduleRetry
  <2>3. /\ delayed \in [Files -> [Levels -> Nat]] /\ file[w] \in Files
        /\ level[w] \in Levels
    BY <1>t DEF TypeOK
  <2>4. level[w] + 1 \in Levels
    BY <2>1, <2>3, ScanPipelineAssumption DEF Levels
  <2>5. \A f \in Files, n \in Levels : delayed[f][n] > 0 => delayed'[f][n] > 0
    BY <2>2, <2>3, <2>4
  <2>6. \A f \in Files, n \in Levels : Begun(f, n) => Begun(f, n)'
    BY <2>1, <2>5 DEF Begun
  <2>7. CASE failed
    BY <1>s, <2>1, <2>2, <2>6, <2>7, AnnounceMove
  <2>8. CASE ~failed
    <3>1. accepted
      BY <2>2, <2>8 DEF Publishes
    <3>2. delayed'[file[w]][level[w] + 1] > 0
      BY <2>2, <2>3, <2>4, <3>1
    <3>3. Begun(file[w], level[w] + 1)'
      BY <2>1, <3>2 DEF Begun
    <3>4. \A v \in Replicas : pc'[v] = IF v = w THEN "notify" ELSE pc[v]
      BY <1>t, <2>2, <2>8, GotoType DEF Stages
    <3>5. \A v \in Replicas : pc'[v] = "notify" =>
            \/ pc[v] = "notify" /\ file'[v] = file[v] /\ level'[v] = level[v]
            \/ Begun(file[v], level[v] + 1)'
      BY <2>1, <3>3, <3>4
    <3> QED
      BY <2>1, <2>6, <3>5, AnnounceFrame
  <2> QED
    BY <2>7, <2>8
<1>4. ASSUME NEW w \in Replicas, NotifyRetry(w) PROVE AnnounceInv'
  <2>1. /\ UNCHANGED <<queue, delayed, tried, file, level>>
        /\ pc[w] = "notify" /\ Goto(w, "ack")
        /\ retrying' \subseteq retrying \cup {<<file[w], level[w] + 1>>}
    BY <1>4 DEF NotifyRetry, At
  <2>2. Begun(file[w], level[w] + 1)
    BY <2>1 DEF AnnounceInv
  <2>3. \A f \in Files, n \in Levels : Begun(f, n) => Begun(f, n)'
    BY <2>1 DEF Begun
  <2>4. \A f \in Files, n \in Levels :
          <<f, n>> \in retrying' => <<f, n>> \in retrying \/ Begun(f, n)'
    <3> SUFFICES ASSUME NEW f \in Files, NEW n \in Levels,
                        <<f, n>> \in retrying', <<f, n>> \notin retrying
                 PROVE  Begun(f, n)'
      OBVIOUS
    <3>1. f = file[w] /\ n = level[w] + 1
      BY <2>1
    <3> QED
      BY <2>2, <2>3, <3>1
  <2> QED
    BY <1>s, <2>1, <2>3, <2>4, AnnounceMove
<1>5. ASSUME NEW w \in Replicas, Ack(w) \/ Nack(w) \/ Crash(w) PROVE AnnounceInv'
  <2>1. Idle(w) /\ UNCHANGED <<delayed, tried, retrying>>
    BY <1>5 DEF Ack, Nack, Crash
  <2>2. Requeue(w) \/ UNCHANGED queue
    BY <1>5 DEF Ack, Nack, Crash
  <2>3. \A f \in Files, n \in Levels : Begun(f, n) => Begun(f, n)'
    BY <1>t, <2>1, <2>2, RequeueBegun
  <2>4. \A v \in Replicas \ {w} : file'[v] = file[v] /\ level'[v] = level[v]
    BY <1>t, <2>1, IdleElsewhere
  <2> QED
    BY <1>s, <2>1, <2>3, <2>4, AnnounceMove DEF Idle
<1>6. ASSUME NEW w \in Replicas, ConnectionLost(w) PROVE AnnounceInv'
  <2>1. Requeue(w) /\ UNCHANGED <<delayed, tried, retrying, pc, file, level>>
    BY <1>6 DEF ConnectionLost
  <2>2. \A f \in Files, n \in Levels : Begun(f, n) => Begun(f, n)'
    BY <1>t, <2>1, RequeueBegun
  <2> QED
    BY <2>1, <2>2, AnnounceFrame
<1>7. ASSUME NEW f \in Files, NEW n \in Levels, RetryDue(f, n) PROVE AnnounceInv'
  <2>1. /\ UNCHANGED <<tried, retrying, pc, file, level>>
        /\ delayed' = [delayed EXCEPT ![f][n] = delayed[f][n] - 1]
        /\ queue' = [queue EXCEPT ![f][n] = queue[f][n] + 1]
    BY <1>7 DEF RetryDue
  <2>2. /\ queue \in [Files -> [Levels -> Nat]]
        /\ delayed \in [Files -> [Levels -> Nat]]
    BY <1>t DEF TypeOK
  <2>3. ASSUME NEW g \in Files, NEW m \in Levels, Begun(g, m) PROVE Begun(g, m)'
    <3>1. CASE g = f /\ m = n
      BY <2>1, <2>2, <3>1 DEF Begun
    <3>2. CASE ~(g = f /\ m = n)
      <4>1. queue'[g][m] = queue[g][m] /\ delayed'[g][m] = delayed[g][m]
        BY <2>1, <2>2, <3>2
      <4> QED
        BY <2>1, <2>3, <4>1 DEF Begun
    <3> QED
      BY <3>1, <3>2
  <2> QED
    BY <2>1, <2>3, AnnounceFrame
<1>8. ASSUME UNCHANGED <<queue, delayed, tried, retrying, pc, file, level>>
      PROVE  AnnounceInv'
  BY <1>8 DEF AnnounceInv, AnnouncedRetryHappens, Begun
<1>9. ASSUME NEW w \in Replicas,
              HandlerTimeout(w) \/ ReadSet(w) \/ OtherCaseCancelled(w)
       PROVE  AnnounceInv'
  BY <1>8, <1>9 DEF HandlerTimeout, ReadSet, OtherCaseCancelled
<1>10. ASSUME NEW c \in Cases,
              \/ CancelCase(c) \/ SetRedisKey(c)
              \/ \E w \in Replicas : HandleCancelMessage(w, c) \/ Lapse(w, c)
       PROVE  AnnounceInv'
  BY <1>8, <1>10 DEF CancelCase, SetRedisKey, HandleCancelMessage, Lapse
<1>11. ASSUME NEW f \in Files, NEW d \in Contents \cup {"gone", "symlink"},
              TempPathChanges(f, d)
       PROVE  AnnounceInv'
  BY <1>8, <1>11 DEF TempPathChanges
<1>12. CASE UNCHANGED vars
  BY <1>8, <1>12 DEF vars
<1> QED
  BY <1>1, <1>2, <1>3, <1>4, <1>5, <1>6, <1>7, <1>9, <1>10, <1>11, <1>12
     DEF Next, Work

\* ScanRetrying never announces an attempt the broker does not have: whatever is
\* lost, crashed or redelivered, the announced count waits, is queued or has been
\* received (handleScanFailure publishes the retry before the notification).
THEOREM AnnouncedRetryHappensHolds == Spec => []AnnouncedRetryHappens
<1>1. Init => AnnounceInv
  BY DEF Init, AnnounceInv, AnnouncedRetryHappens
<1>2. AnnounceInv => AnnouncedRetryHappens
  BY DEF AnnounceInv
<1> QED
  BY <1>1, <1>2, InitTyped, TypeStep, AnnounceStep, PTL DEF Spec

=============================================================================
