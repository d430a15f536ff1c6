------------------------- MODULE ScanPipeline_proofs -------------------------
(***************************************************************************)
(* Proofs about the scan pipeline, for any files, cases, replicas, number  *)
(* of retries and number of faults.                                        *)
(***************************************************************************)
EXTENDS ScanPipeline, TLAPS

\* The filler of an idle replica is a file.
LEMMA AnyFileType == AnyFile \in Files
  BY ScanPipelineAssumption DEF AnyFile

\* Updating a Boolean function at one point.
LEMMA BooleanUpdate ==
  ASSUME NEW S, NEW g \in [S -> BOOLEAN], NEW x \in S, NEW b \in BOOLEAN
  PROVE  [g EXCEPT ![x] = b] \in [S -> BOOLEAN]
  OBVIOUS

\* ScanRetrying is published only while retries are left, so the count it
\* announces is one of the retry queues'.
TypeInv ==
  /\ TypeOK
  /\ \A w \in Replicas : pc[w] = "notify" => level[w] < MaxRetries

\* A replica's move to another stage of the handler.
LEMMA GotoType ==
  ASSUME TypeOK, NEW w \in Replicas, NEW stage \in Stages, Goto(w, stage)
  PROVE  /\ pc' \in [Replicas -> Stages]
         /\ \A v \in Replicas : pc'[v] = IF v = w THEN stage ELSE pc[v]
  BY DEF Goto, TypeOK

\* Dropping a message keeps the types and leads to the acknowledgement.
LEMMA DropType ==
  ASSUME TypeOK, NEW w \in Replicas, NEW why \in Reasons, Drop(w, why)
  PROVE  /\ pc' \in [Replicas -> Stages]
         /\ \A v \in Replicas : pc'[v] = IF v = w THEN "ack" ELSE pc[v]
         /\ dropped' \in [Files -> SUBSET Reasons]
<1>1. "ack" \in Stages
  BY DEF Stages
<1>2. Goto(w, "ack")
  BY DEF Drop
<1> QED
  BY <1>1, <1>2, GotoType DEF Drop, TypeOK

\* The fault counter stays within its bound.
LEMMA FaultType ==
  ASSUME TypeOK, Fault \/ UNCHANGED faults
  PROVE  faults' \in 0 .. MaxFaults
  BY ScanPipelineAssumption DEF TypeOK, Fault

\* A publish only touches the fault counter.
LEMMA PublishesType ==
  ASSUME TypeOK, NEW accepted \in BOOLEAN, NEW failed \in BOOLEAN,
         Publishes(accepted, failed)
  PROVE  faults' \in 0 .. MaxFaults
  BY FaultType DEF Publishes

\* A reported outcome is one more terminal message.
LEMMA ReportType ==
  ASSUME TypeOK, NEW f \in Files, NEW o \in Outcomes, NEW accepted \in BOOLEAN,
         Report(f, o, accepted)
  PROVE  results' \in [Files -> [Outcomes -> Nat]]
  BY DEF TypeOK, Report

\* Putting a delivery back keeps the queue's type.
LEMMA RequeueType ==
  ASSUME TypeOK, NEW w \in Replicas, Requeue(w)
  PROVE  queue' \in [Files -> [Levels -> Nat]]
  BY DEF TypeOK, Requeue

\* A lookup keeps the types of the set and of the fault counter.
LEMMA IsCancelledType ==
  ASSUME TypeOK, NEW w \in Replicas, NEW yes \in BOOLEAN, IsCancelled(w, yes)
  PROVE  /\ current' \in [Replicas -> SUBSET Cases]
         /\ prev' \in [Replicas -> SUBSET Cases]
         /\ seen' \in [Replicas -> Findings]
         /\ faults' \in 0 .. MaxFaults
<1>1. /\ current \in [Replicas -> SUBSET Cases]
      /\ prev \in [Replicas -> SUBSET Cases]
      /\ seen \in [Replicas -> Findings] /\ redis \subseteq Cases
  BY DEF TypeOK
<1>2. Fault \/ UNCHANGED faults
  BY DEF IsCancelled
<1>3. \/ UNCHANGED current
      \/ /\ CaseOf[file[w]] \in prev[w] \cup redis
         /\ current' = [current EXCEPT ![w] = @ \cup {CaseOf[file[w]]}]
  BY DEF IsCancelled
<1>4. current' \in [Replicas -> SUBSET Cases]
  BY <1>1, <1>3
<1>5. seen' \in [Replicas -> Findings]
  <2>1. seen' = [seen EXCEPT ![w] = "unread"] /\ "unread" \in Findings
    BY DEF IsCancelled, Findings
  <2> QED
    BY <1>1, <2>1
<1>6. prev' \in [Replicas -> SUBSET Cases]
  BY <1>1 DEF IsCancelled
<1> QED
  BY <1>2, <1>4, <1>5, <1>6, FaultType

\* Deleting a file keeps the types of the storage.
LEMMA RemoveFileType ==
  ASSUME TypeOK, NEW w \in Replicas, RemoveFile(w)
  PROVE  /\ disk' \in [Files -> PathStates]
         /\ orphans' \subseteq Files
         /\ removed' \subseteq
              Files \X (PathStates \cup {"changed"}) \X (Contents \cup {"none"})
         /\ faults' \in 0 .. MaxFaults
<1>1. Fault \/ UNCHANGED faults
  BY DEF RemoveFile
<1>2. faults' \in 0 .. MaxFaults
  BY <1>1, FaultType
<1>3. file[w] \in Files
  BY DEF TypeOK
<1>4. orphans' \subseteq Files
  BY <1>3 DEF RemoveFile, TypeOK
<1>5. disk' \in [Files -> PathStates]
  <2>1. disk' = disk \/ disk' = [disk EXCEPT ![file[w]] = "gone"]
    BY DEF RemoveFile
  <2>2. disk \in [Files -> PathStates] /\ "gone" \in PathStates
    BY DEF TypeOK, PathStates
  <2> QED
    BY <2>1, <2>2
<1>6. removed' \subseteq
        Files \X (PathStates \cup {"changed"}) \X (Contents \cup {"none"})
  <2>1. PICK what \in PathStates \cup {"changed"} :
          removed' = removed \/ removed' = removed \cup {<<file[w], what, opened[w]>>}
    <3>1. disk[file[w]] \in PathStates
      BY <1>3 DEF TypeOK
    <3>2. DEFINE what == IF moved[w] THEN "changed" ELSE disk[file[w]]
    <3>3. /\ what \in PathStates \cup {"changed"}
          /\ removed' = removed \/ removed' = removed \cup {<<file[w], what, opened[w]>>}
      BY <3>1 DEF RemoveFile
    <3> QED
      BY <3>3
  <2>2. opened[w] \in Contents \cup {"none"}
    BY DEF TypeOK
  <2>3. removed \subseteq
          Files \X (PathStates \cup {"changed"}) \X (Contents \cup {"none"})
    BY DEF TypeOK
  <2> QED
    BY <1>3, <2>1, <2>2, <2>3
<1> QED
  BY <1>2, <1>4, <1>5, <1>6

\* Going idle keeps the types of a replica's state.
LEMMA IdleType ==
  ASSUME TypeOK, NEW w \in Replicas, Idle(w)
  PROVE  /\ pc' \in [Replicas -> Stages]
         /\ \A v \in Replicas : pc'[v] = IF v = w THEN "idle" ELSE pc[v]
         /\ file' \in [Replicas -> Files]
         /\ level' \in [Replicas -> Levels]
         /\ \A v \in Replicas \ {w} : level'[v] = level[v]
         /\ held' \in [Replicas -> BOOLEAN]
         /\ expired' \in [Replicas -> BOOLEAN]
         /\ foreseen' \in [Replicas -> BOOLEAN]
         /\ opened' \in [Replicas -> Contents \cup {"none"}]
         /\ moved' \in [Replicas -> BOOLEAN]
         /\ seen' \in [Replicas -> Findings]
         /\ lasts' \in [Replicas -> 0 .. 2]
         /\ knowable' \in [Replicas -> BOOLEAN]
<1>1. "idle" \in Stages /\ Goto(w, "idle")
  BY DEF Stages, Idle
<1>2. 0 \in Levels
  BY ScanPipelineAssumption DEF Levels
<1>3. /\ file' \in [Replicas -> Files]
      /\ level' \in [Replicas -> Levels]
      /\ \A v \in Replicas \ {w} : level'[v] = level[v]
  BY <1>2, AnyFileType DEF Idle, TypeOK
<1>4. held' \in [Replicas -> BOOLEAN] /\ expired' \in [Replicas -> BOOLEAN]
  BY DEF Idle, TypeOK
<1>5. /\ foreseen' \in [Replicas -> BOOLEAN] /\ moved' \in [Replicas -> BOOLEAN]
      /\ knowable' \in [Replicas -> BOOLEAN]
  BY DEF Idle, TypeOK
<1>6. opened' \in [Replicas -> Contents \cup {"none"}]
  BY DEF Idle, TypeOK
<1>7. seen' \in [Replicas -> Findings]
  <2>1. "unread" \in Findings
    BY DEF Findings
  <2> QED
    BY <2>1 DEF Idle, TypeOK
<1>8. lasts' \in [Replicas -> 0 .. 2]
  BY DEF Idle, TypeOK
<1> QED
  BY <1>1, <1>3, <1>4, <1>5, <1>6, <1>7, <1>8, GotoType

\* A failed attempt closes the file.
LEMMA FailType ==
  ASSUME TypeOK, NEW w \in Replicas, Fail(w)
  PROVE  /\ opened' \in [Replicas -> Contents \cup {"none"}]
         /\ moved' \in [Replicas -> BOOLEAN]
<1>1. opened' \in [Replicas -> Contents \cup {"none"}]
  BY DEF Fail, TypeOK
<1>2. moved' \in [Replicas -> BOOLEAN]
  BY DEF Fail, TypeOK
<1> QED
  BY <1>1, <1>2

\* Marking a case keeps the types of the set.
LEMMA MarkCancelledType ==
  ASSUME TypeOK, NEW w \in Replicas, NEW c \in Cases, MarkCancelled(w, c)
  PROVE  /\ current' \in [Replicas -> SUBSET Cases]
         /\ prev' \in [Replicas -> SUBSET Cases]
         /\ lasts' \in [Replicas -> 0 .. 2]
<1>1. /\ current \in [Replicas -> SUBSET Cases]
      /\ prev \in [Replicas -> SUBSET Cases]
      /\ lasts \in [Replicas -> 0 .. 2]
  BY DEF TypeOK
<1>2. \/ UNCHANGED lasts
      \/ lasts' = [lasts EXCEPT ![w] = lasts[w] - 1] /\ lasts[w] > 0
  BY <1>1 DEF MarkCancelled, Turned
<1>3. prev' = prev \/ prev' = [prev EXCEPT ![w] = current[w]]
  BY DEF MarkCancelled
<1>4. current' \in {[current EXCEPT ![w] = current[w] \cup {c}],
                    [current EXCEPT ![w] = {c}]}
  BY DEF MarkCancelled
<1> QED
  BY <1>1, <1>2, <1>3, <1>4

\* The part of the type invariant about the handlers' stages.
StageOK ==
  /\ pc \in [Replicas -> Stages]
  /\ \A w \in Replicas : pc[w] = "notify" => level[w] < MaxRetries

\* Moving a handler to any stage but the notification keeps it.
LEMMA MoveStage ==
  ASSUME TypeInv, NEW w \in Replicas, NEW stage \in Stages \ {"notify"},
         Goto(w, stage), UNCHANGED level
  PROVE  StageOK'
<1>1. TypeOK /\ stage # "notify"
  BY DEF TypeInv
<1> QED
  BY <1>1, GotoType DEF TypeInv, StageOK

\* So does dropping a message.
LEMMA DropStage ==
  ASSUME TypeInv, NEW w \in Replicas, NEW why \in Reasons, Drop(w, why),
         UNCHANGED level
  PROVE  StageOK' /\ dropped' \in [Files -> SUBSET Reasons]
<1>1. TypeOK
  BY DEF TypeInv
<1>2. StageOK'
  BY <1>1, DropType DEF TypeInv, StageOK
<1> QED
  BY <1>1, <1>2, DropType

\* And settling a delivery.
LEMMA IdleStage ==
  ASSUME TypeInv, NEW w \in Replicas, Idle(w)
  PROVE  StageOK'
<1>1. TypeOK
  BY DEF TypeInv
<1>2. \A v \in Replicas : pc'[v] = "notify" => v # w
  BY <1>1, IdleType
<1> QED
  BY <1>1, <1>2, IdleType DEF TypeInv, StageOK

\* Going idle changes the replica's own delivery and nobody else's.
LEMMA IdleElsewhere ==
  ASSUME TypeOK, NEW w \in Replicas, Idle(w)
  PROVE  /\ \A v \in Replicas : pc'[v] = IF v = w THEN "idle" ELSE pc[v]
         /\ \A v \in Replicas \ {w} :
              held'[v] = held[v] /\ file'[v] = file[v] /\ level'[v] = level[v]
         /\ ~held'[w]
<1>1. /\ file' = [file EXCEPT ![w] = AnyFile]
      /\ level' = [level EXCEPT ![w] = 0]
      /\ held' = [held EXCEPT ![w] = FALSE]
  BY DEF Idle
<1>2. /\ file \in [Replicas -> Files]
      /\ level \in [Replicas -> Levels]
      /\ held \in [Replicas -> BOOLEAN]
  BY DEF TypeOK
<1>3. \A v \in Replicas \ {w} : held'[v] = held[v]
  BY <1>1, <1>2
<1>4. \A v \in Replicas \ {w} : file'[v] = file[v]
  BY <1>1, <1>2
<1>5. \A v \in Replicas \ {w} : level'[v] = level[v]
  BY <1>1, <1>2
<1>6. ~held'[w]
  BY <1>1, <1>2
<1>7. \A v \in Replicas : pc'[v] = IF v = w THEN "idle" ELSE pc[v]
  BY IdleType
<1> QED
  BY <1>3, <1>4, <1>5, <1>6, <1>7

\* One step keeps the type invariant.
LEMMA TypeStep == TypeInv /\ [Next]_vars => TypeInv'
<1> SUFFICES ASSUME TypeInv, [Next]_vars PROVE TypeInv'
  OBVIOUS
<1>t. TypeOK
  BY DEF TypeInv
<1>a. ASSUME TypeOK', StageOK' PROVE TypeInv'
  BY <1>a DEF TypeInv, StageOK
<1> USE DEF broker, cancelling, storage, delivery, sets, memory,
           history, checks
<1>1. ASSUME NEW w \in Replicas, NEW f \in Files, NEW n \in Levels,
            Receive(w, f, n)
      PROVE TypeInv'
  <2>1. StageOK'
    <3>1. level' = [level EXCEPT ![w] = n]
      BY <1>1 DEF Receive
    <3>2. PICK stage \in {"ack", "precheck"} : Goto(w, stage)
      BY <1>1 DEF Receive
    <3>3. stage \in Stages
      BY DEF Stages
    <3> QED
      BY <1>t, <3>1, <3>2, <3>3, GotoType DEF TypeInv, TypeOK, StageOK
  <2>2. dropped' \in [Files -> SUBSET Reasons]
    <3>1. \/ UNCHANGED dropped
          \/ dropped' = [dropped EXCEPT ![f] = dropped[f] \cup {"malformed"}]
      BY <1>1 DEF Receive
    <3>2. "malformed" \in Reasons
      BY DEF Reasons
    <3>3. dropped \in [Files -> SUBSET Reasons]
      BY <1>t DEF TypeOK
    <3> QED
      BY <3>1, <3>2, <3>3
  <2>3. queue' \in [Files -> [Levels -> Nat]]
    BY <1>t, <1>1 DEF Receive, TypeOK
  <2>4. /\ file' \in [Replicas -> Files] /\ level' \in [Replicas -> Levels]
        /\ tried' \in [Files -> SUBSET Levels]
    BY <1>t, <1>1 DEF Receive, TypeOK
  <2>5. held' \in [Replicas -> BOOLEAN] /\ foreseen' \in [Replicas -> BOOLEAN]
    BY <1>t, <1>1 DEF Receive, TypeOK
  <2>6. TypeOK'
    BY <1>t, <1>1, <2>1, <2>2, <2>3, <2>4, <2>5 DEF Receive, TypeOK, StageOK
  <2> QED
    BY <1>a, <2>1, <2>6
<1>2. ASSUME NEW w \in Replicas, PreCheck(w) PROVE TypeInv'
  <2>1. UNCHANGED level
    BY <1>2 DEF PreCheck
  <2>2. /\ current' \in [Replicas -> SUBSET Cases]
        /\ prev' \in [Replicas -> SUBSET Cases]
        /\ seen' \in [Replicas -> Findings]
        /\ faults' \in 0 .. MaxFaults
    BY <1>t, <1>2, IsCancelledType DEF PreCheck
  <2>3. StageOK' /\ dropped' \in [Files -> SUBSET Reasons]
    <3>1. ASSUME NEW why \in {"cancelled", "badpath"}, Drop(w, why)
          PROVE StageOK' /\ dropped' \in [Files -> SUBSET Reasons]
      BY <2>1, <3>1, DropStage DEF Reasons
    <3>2. CASE Goto(w, "lstat") /\ UNCHANGED dropped
      <4>1. "lstat" \in Stages \ {"notify"}
        BY DEF Stages
      <4> QED
        BY <1>t, <2>1, <3>2, <4>1, MoveStage DEF TypeOK
    <3> QED
      BY <1>2, <3>1, <3>2 DEF PreCheck
  <2>4. TypeOK'
    BY <1>t, <1>2, <2>2, <2>3 DEF PreCheck, TypeOK, StageOK
  <2> QED
    BY <1>a, <2>3, <2>4
<1>3. ASSUME NEW w \in Replicas, Lstat(w) PROVE TypeInv'
  <2>1. UNCHANGED level
    BY <1>3 DEF Lstat
  <2>2. StageOK' /\ dropped' \in [Files -> SUBSET Reasons]
          /\ faults' \in 0 .. MaxFaults
    <3>1. CASE Unreadable(w)
      <4>1. PICK why \in {"missing", "ioerror"} : Drop(w, why)
        BY <3>1 DEF Unreadable
      <4>2. Fault \/ UNCHANGED faults
        BY <3>1 DEF Unreadable
      <4>3. why \in Reasons
        BY DEF Reasons
      <4> QED
        BY <1>t, <2>1, <4>1, <4>2, <4>3, DropStage, FaultType
    <3>2. CASE ~Unreadable(w)
      <4>1. PICK stage \in {"reject", "open"} : Goto(w, stage)
        BY <1>3, <3>2 DEF Lstat
      <4>2. stage \in Stages \ {"notify"}
        BY DEF Stages
      <4>3. UNCHANGED <<dropped, faults>>
        BY <1>3, <3>2 DEF Lstat
      <4> QED
        BY <1>t, <2>1, <4>1, <4>2, <4>3, MoveStage DEF TypeOK
    <3> QED
      BY <3>1, <3>2
  <2>3. TypeOK'
    BY <1>t, <1>3, <2>2 DEF Lstat, TypeOK, StageOK
  <2> QED
    BY <1>a, <2>2, <2>3
<1>4. ASSUME NEW w \in Replicas, Open(w) PROVE TypeInv'
  <2>1. UNCHANGED level
    BY <1>4 DEF Open
  <2>2. StageOK' /\ dropped' \in [Files -> SUBSET Reasons]
          /\ faults' \in 0 .. MaxFaults
    <3>1. CASE Unreadable(w)
      <4>1. PICK why \in {"missing", "ioerror"} : Drop(w, why)
        BY <3>1 DEF Unreadable
      <4>2. Fault \/ UNCHANGED faults
        BY <3>1 DEF Unreadable
      <4>3. why \in Reasons
        BY DEF Reasons
      <4> QED
        BY <1>t, <2>1, <4>1, <4>2, <4>3, DropStage, FaultType
    <3>2. CASE ~Unreadable(w)
      <4>1. PICK stage \in {"reject", "started", "hash"} : Goto(w, stage)
        BY <1>4, <3>2 DEF Open
      <4>2. stage \in Stages \ {"notify"}
        BY DEF Stages
      <4>3. UNCHANGED <<dropped, faults>>
        BY <1>4, <3>2 DEF Open
      <4> QED
        BY <1>t, <2>1, <4>1, <4>2, <4>3, MoveStage DEF TypeOK
    <3> QED
      BY <3>1, <3>2
  <2>3. opened' \in [Replicas -> Contents \cup {"none"}]
    <3>1. \/ UNCHANGED opened
          \/ /\ disk[file[w]] \in Contents
             /\ opened' = [opened EXCEPT ![w] = disk[file[w]]]
      BY <1>4 DEF Open
    <3>2. opened \in [Replicas -> Contents \cup {"none"}]
      BY <1>t DEF TypeOK
    <3> QED
      BY <3>1, <3>2
  <2>4. TypeOK'
    BY <1>t, <1>4, <2>2, <2>3 DEF Open, TypeOK, StageOK
  <2> QED
    BY <1>a, <2>2, <2>4
<1>5. ASSUME NEW w \in Replicas, Reject(w) PROVE TypeInv'
  <2>1. PICK accepted \in BOOLEAN, failed \in BOOLEAN :
          /\ Publishes(accepted, failed)
          /\ Report(file[w], "ERROR", accepted)
          /\ \/ accepted /\ Goto(w, "ack") /\ UNCHANGED dropped
             \/ ~accepted /\ Drop(w, "unreported")
    BY <1>5 DEF Reject
  <2>2. UNCHANGED level
    BY <1>5 DEF Reject
  <2>3. faults' \in 0 .. MaxFaults
    BY <1>t, <2>1, PublishesType
  <2>4. results' \in [Files -> [Outcomes -> Nat]]
    <3>1. "ERROR" \in Outcomes /\ file[w] \in Files
      BY <1>t DEF Outcomes, TypeOK
    <3> QED
      BY <1>t, <2>1, <3>1, ReportType
  <2>5. StageOK' /\ dropped' \in [Files -> SUBSET Reasons]
    <3>1. "ack" \in Stages \ {"notify"} /\ "unreported" \in Reasons
      BY DEF Stages, Reasons
    <3> QED
      BY <1>t, <2>1, <2>2, <3>1, MoveStage, DropStage DEF TypeOK
  <2>6. TypeOK'
    BY <1>t, <1>5, <2>3, <2>4, <2>5 DEF Reject, TypeOK, StageOK
  <2> QED
    BY <1>a, <2>5, <2>6
<1>6. ASSUME NEW w \in Replicas, Start(w) PROVE TypeInv'
  <2>1. PICK accepted \in BOOLEAN, failed \in BOOLEAN :
          /\ Publishes(accepted, failed)
          /\ started' = IF accepted THEN [started EXCEPT ![file[w]] = @ + 1]
                        ELSE started
    BY <1>6 DEF Start
  <2>2. faults' \in 0 .. MaxFaults
    BY <1>t, <2>1, PublishesType
  <2>3. started' \in [Files -> Nat]
    BY <1>t, <2>1 DEF TypeOK
  <2>4. StageOK'
    <3>1. "hash" \in Stages \ {"notify"} /\ Goto(w, "hash") /\ UNCHANGED level
      BY <1>6 DEF Start, Stages
    <3> QED
      BY <3>1, MoveStage
  <2>5. TypeOK'
    BY <1>t, <1>6, <2>2, <2>3, <2>4 DEF Start, TypeOK, StageOK
  <2> QED
    BY <1>a, <2>4, <2>5
<1>7. ASSUME NEW w \in Replicas, Hash(w) PROVE TypeInv'
  <2>1. UNCHANGED level
    BY <1>7 DEF Hash
  <2>2. failedAt' \in [Files -> SUBSET Levels]
    <3>1. \/ UNCHANGED failedAt
          \/ failedAt' = [failedAt EXCEPT ![file[w]] =
                            failedAt[file[w]] \cup {level[w]}]
      BY <1>7 DEF Hash, Fail
    <3>2. failedAt \in [Files -> SUBSET Levels] /\ level[w] \in Levels
      BY <1>t DEF TypeOK
    <3> QED
      BY <3>1, <3>2
  <2>3. StageOK'
    <3>1. PICK stage \in {"failed", "recheck"} : Goto(w, stage)
      BY <1>7 DEF Hash, Fail
    <3>2. stage \in Stages \ {"notify"}
      BY DEF Stages
    <3> QED
      BY <2>1, <3>1, <3>2, MoveStage
  <2>4. /\ opened' \in [Replicas -> Contents \cup {"none"}]
        /\ moved' \in [Replicas -> BOOLEAN]
    BY <1>t, <1>7, FailType DEF Hash, TypeOK
  <2>5. TypeOK'
    BY <1>t, <1>7, <2>2, <2>3, <2>4 DEF Hash, TypeOK, StageOK
  <2> QED
    BY <1>a, <2>3, <2>5
<1>8. ASSUME NEW w \in Replicas, ScanStream(w) PROVE TypeInv'
  <2>1. UNCHANGED level
    BY <1>8 DEF ScanStream
  <2>2. failedAt' \in [Files -> SUBSET Levels]
    <3>1. \/ UNCHANGED failedAt
          \/ failedAt' = [failedAt EXCEPT ![file[w]] =
                            failedAt[file[w]] \cup {level[w]}]
      BY <1>8 DEF ScanStream, Fail
    <3>2. failedAt \in [Files -> SUBSET Levels] /\ level[w] \in Levels
      BY <1>t DEF TypeOK
    <3> QED
      BY <3>1, <3>2
  <2>3. StageOK'
    <3>1. PICK stage \in {"failed", "postcheck"} : Goto(w, stage)
      BY <1>8 DEF ScanStream, Fail
    <3>2. stage \in Stages \ {"notify"}
      BY DEF Stages
    <3> QED
      BY <2>1, <3>1, <3>2, MoveStage
  <2>4. knowable' \in [Replicas -> BOOLEAN]
    <3>1. \/ UNCHANGED knowable
          \/ knowable' = [knowable EXCEPT ![w] = CaseOf[file[w]] \in redis]
      BY <1>8 DEF ScanStream
    <3>2. knowable \in [Replicas -> BOOLEAN]
      BY <1>t DEF TypeOK
    <3>3. CASE UNCHANGED knowable
      BY <3>2, <3>3
    <3>4. CASE knowable' = [knowable EXCEPT ![w] = CaseOf[file[w]] \in redis]
      <4>1. (CaseOf[file[w]] \in redis) \in BOOLEAN
        OBVIOUS
      <4> QED
        BY <3>2, <3>4, <4>1, BooleanUpdate, Zenon
    <3> QED
      BY <3>1, <3>3, <3>4
  <2>5. lasts' \in [Replicas -> 0 .. 2]
    <3>1. PICK n \in 0 .. 2 : UNCHANGED lasts \/ lasts' = [lasts EXCEPT ![w] = n]
      BY <1>8 DEF ScanStream
    <3>2. lasts \in [Replicas -> 0 .. 2]
      BY <1>t DEF TypeOK
    <3> QED
      BY <3>1, <3>2
  <2>6. /\ opened' \in [Replicas -> Contents \cup {"none"}]
        /\ moved' \in [Replicas -> BOOLEAN]
    BY <1>t, <1>8, FailType DEF ScanStream, TypeOK
  <2>7. TypeOK'
    BY <1>t, <1>8, <2>2, <2>3, <2>4, <2>5, <2>6 DEF ScanStream, TypeOK, StageOK
  <2> QED
    BY <1>a, <2>3, <2>7
<1>9. ASSUME NEW w \in Replicas, Recheck(w) PROVE TypeInv'
  <2>1. UNCHANGED level
    BY <1>9 DEF Recheck
  <2>2. /\ current' \in [Replicas -> SUBSET Cases]
        /\ prev' \in [Replicas -> SUBSET Cases]
        /\ seen' \in [Replicas -> Findings]
        /\ faults' \in 0 .. MaxFaults
    BY <1>t, <1>9, IsCancelledType DEF Recheck
  <2>3. StageOK'
    <3>1. PICK stage \in {"discard", "clamd"} : Goto(w, stage)
      BY <1>9 DEF Recheck
    <3>2. stage \in Stages \ {"notify"}
      BY DEF Stages
    <3> QED
      BY <2>1, <3>1, <3>2, MoveStage
  <2>4. TypeOK'
    BY <1>t, <1>9, <2>2, <2>3 DEF Recheck, TypeOK, StageOK
  <2> QED
    BY <1>a, <2>3, <2>4
<1>10. ASSUME NEW w \in Replicas, PostCheck(w) PROVE TypeInv'
  <2>1. UNCHANGED level
    BY <1>10 DEF PostCheck
  <2>2. /\ current' \in [Replicas -> SUBSET Cases]
        /\ prev' \in [Replicas -> SUBSET Cases]
        /\ seen' \in [Replicas -> Findings]
        /\ faults' \in 0 .. MaxFaults
    BY <1>t, <1>10, IsCancelledType DEF PostCheck
  <2>3. StageOK'
    <3>1. PICK stage \in {"discard", "remove", "publish"} : Goto(w, stage)
      BY <1>10 DEF PostCheck
    <3>2. stage \in Stages \ {"notify"}
      BY DEF Stages
    <3> QED
      BY <2>1, <3>1, <3>2, MoveStage
  <2>4. TypeOK'
    BY <1>t, <1>10, <2>2, <2>3 DEF PostCheck, TypeOK, StageOK
  <2> QED
    BY <1>a, <2>3, <2>4
<1>11. ASSUME NEW w \in Replicas, Discard(w) PROVE TypeInv'
  <2>1. UNCHANGED level /\ RemoveFile(w) /\ Drop(w, "cancelled")
    BY <1>11 DEF Discard
  <2>2. StageOK' /\ dropped' \in [Files -> SUBSET Reasons]
    BY <2>1, DropStage DEF Reasons
  <2>3. TypeOK'
    BY <1>t, <1>11, <2>1, <2>2, RemoveFileType DEF Discard, TypeOK, StageOK
  <2> QED
    BY <1>a, <2>2, <2>3
<1>12. ASSUME NEW w \in Replicas, RemoveInfected(w) PROVE TypeInv'
  <2>1. UNCHANGED level /\ RemoveFile(w) /\ Goto(w, "publish")
    BY <1>12 DEF RemoveInfected
  <2>2. StageOK'
    BY <2>1, MoveStage DEF Stages
  <2>3. TypeOK'
    BY <1>t, <1>12, <2>1, <2>2, RemoveFileType DEF RemoveInfected, TypeOK, StageOK
  <2> QED
    BY <1>a, <2>2, <2>3
<1>13. ASSUME NEW w \in Replicas, PublishVerdict(w) PROVE TypeInv'
  <2>1. PICK accepted \in BOOLEAN, failed \in BOOLEAN, outcome \in Outcomes,
             stage \in {"ack", "nack"} :
          /\ Publishes(accepted, failed)
          /\ Report(file[w], outcome, accepted)
          /\ Goto(w, stage)
    BY <1>13 DEF PublishVerdict, Outcomes
  <2>2. faults' \in 0 .. MaxFaults
    BY <1>t, <2>1, PublishesType
  <2>3. results' \in [Files -> [Outcomes -> Nat]]
    <3>1. file[w] \in Files
      BY <1>t DEF TypeOK
    <3> QED
      BY <1>t, <2>1, <3>1, ReportType
  <2>4. StageOK'
    <3>1. stage \in Stages \ {"notify"} /\ UNCHANGED level
      BY <1>13 DEF PublishVerdict, Stages
    <3> QED
      BY <2>1, <3>1, MoveStage
  <2>5. TypeOK'
    BY <1>t, <1>13, <2>2, <2>3, <2>4 DEF PublishVerdict, TypeOK, StageOK
  <2> QED
    BY <1>a, <2>4, <2>5
<1>14. ASSUME NEW w \in Replicas, DeadLetter(w) PROVE TypeInv'
  <2>1. PICK accepted \in BOOLEAN, failed \in BOOLEAN, outcome \in Outcomes,
             stage \in {"ack", "nack"} :
          /\ Publishes(accepted, failed)
          /\ Report(file[w], outcome, accepted)
          /\ Goto(w, stage)
    BY <1>14 DEF DeadLetter, Outcomes
  <2>2. faults' \in 0 .. MaxFaults
    BY <1>t, <2>1, PublishesType
  <2>3. results' \in [Files -> [Outcomes -> Nat]]
    <3>1. file[w] \in Files
      BY <1>t DEF TypeOK
    <3> QED
      BY <1>t, <2>1, <3>1, ReportType
  <2>4. StageOK'
    <3>1. stage \in Stages \ {"notify"} /\ UNCHANGED level
      BY <1>14 DEF DeadLetter, Stages
    <3> QED
      BY <2>1, <3>1, MoveStage
  <2>5. TypeOK'
    BY <1>t, <1>14, <2>2, <2>3, <2>4 DEF DeadLetter, TypeOK, StageOK
  <2> QED
    BY <1>a, <2>4, <2>5
<1>15. ASSUME NEW w \in Replicas, ScheduleRetry(w) PROVE TypeInv'
  <2>1. PICK accepted \in BOOLEAN, failed \in BOOLEAN,
             stage \in {"nack", "notify"} :
          /\ Publishes(accepted, failed)
          /\ delayed' = IF accepted
                        THEN [delayed EXCEPT ![file[w]][level[w] + 1] = @ + 1]
                        ELSE delayed
          /\ Goto(w, stage)
    BY <1>15 DEF ScheduleRetry
  <2>2. faults' \in 0 .. MaxFaults
    BY <1>t, <2>1, PublishesType
  <2>3. delayed' \in [Files -> [Levels -> Nat]]
    <3>0. level[w] < MaxRetries
      BY <1>15 DEF ScheduleRetry
    <3>1. level[w] \in Levels /\ file[w] \in Files
      BY <1>t DEF TypeOK
    <3>3. level[w] + 1 \in Levels
      BY <3>0, <3>1, ScanPipelineAssumption DEF Levels
    <3>2. delayed \in [Files -> [Levels -> Nat]]
      BY <1>t DEF TypeOK
    <3>4. CASE accepted
      <4>1. delayed' = [delayed EXCEPT ![file[w]][level[w] + 1] = @ + 1]
        BY <2>1, <3>4
      <4> QED
        BY <3>1, <3>2, <3>3, <4>1
    <3> QED
      BY <2>1, <3>2, <3>4
  <2>4. StageOK'
    <3>1. stage \in Stages /\ UNCHANGED level /\ level[w] < MaxRetries
      BY <1>15 DEF ScheduleRetry, Stages
    <3> QED
      BY <1>t, <2>1, <3>1, GotoType DEF TypeInv, StageOK
  <2>5. TypeOK'
    BY <1>t, <1>15, <2>2, <2>3, <2>4 DEF ScheduleRetry, TypeOK, StageOK
  <2> QED
    BY <1>a, <2>4, <2>5
<1>16. ASSUME NEW w \in Replicas, NotifyRetry(w) PROVE TypeInv'
  <2>1. PICK accepted \in BOOLEAN, failed \in BOOLEAN :
          /\ Publishes(accepted, failed)
          /\ retrying' = IF accepted
                         THEN retrying \cup {<<file[w], level[w] + 1>>}
                         ELSE retrying
    BY <1>16 DEF NotifyRetry
  <2>2. faults' \in 0 .. MaxFaults
    BY <1>t, <2>1, PublishesType
  <2>3. retrying' \subseteq Files \X Levels
    <3>1. level[w] + 1 \in Levels /\ file[w] \in Files
      BY <1>t, <1>16, ScanPipelineAssumption
         DEF NotifyRetry, At, TypeInv, TypeOK, Levels
    <3> QED
      BY <1>t, <2>1, <3>1 DEF TypeOK
  <2>4. StageOK'
    <3>1. "ack" \in Stages \ {"notify"} /\ Goto(w, "ack") /\ UNCHANGED level
      BY <1>16 DEF NotifyRetry, Stages
    <3> QED
      BY <3>1, MoveStage
  <2>5. TypeOK'
    BY <1>t, <1>16, <2>2, <2>3, <2>4 DEF NotifyRetry, TypeOK, StageOK
  <2> QED
    BY <1>a, <2>4, <2>5
<1>17. ASSUME NEW w \in Replicas, Ack(w) PROVE TypeInv'
  <2>1. Idle(w)
    BY <1>17 DEF Ack
  <2>2. StageOK'
    BY <2>1, IdleStage
  <2>5. TypeOK'
    BY <1>t, <1>17, <2>1, IdleType DEF Ack, TypeOK
  <2> QED
    BY <1>a, <2>2, <2>5
<1>18. ASSUME NEW w \in Replicas, Nack(w) PROVE TypeInv'
  <2>1. Idle(w)
    BY <1>18 DEF Nack
  <2>2. StageOK'
    BY <2>1, IdleStage
  <2>3. queue' \in [Files -> [Levels -> Nat]]
    BY <1>t, <1>18, RequeueType DEF Nack
  <2>5. TypeOK'
    BY <1>t, <1>18, <2>1, <2>3, IdleType DEF Nack, TypeOK
  <2> QED
    BY <1>a, <2>2, <2>5
<1>19. ASSUME NEW w \in Replicas, Crash(w) PROVE TypeInv'
  <2>1. Idle(w)
    BY <1>19 DEF Crash
  <2>2. StageOK'
    BY <2>1, IdleStage
  <2>3. queue' \in [Files -> [Levels -> Nat]]
    BY <1>t, <1>19, RequeueType DEF Crash
  <2>4. /\ faults' \in 0 .. MaxFaults
        /\ current' \in [Replicas -> SUBSET Cases]
        /\ prev' \in [Replicas -> SUBSET Cases]
    BY <1>t, <1>19, FaultType DEF Crash, TypeOK
  <2>5. TypeOK'
    BY <1>t, <1>19, <2>1, <2>3, <2>4, IdleType DEF Crash, TypeOK
  <2> QED
    BY <1>a, <2>2, <2>5
<1>20. ASSUME NEW w \in Replicas, ConnectionLost(w) PROVE TypeInv'
  <2>1. queue' \in [Files -> [Levels -> Nat]]
    BY <1>t, <1>20, RequeueType DEF ConnectionLost
  <2>2. faults' \in 0 .. MaxFaults
    BY <1>t, <1>20, FaultType DEF ConnectionLost
  <2>3. held' \in [Replicas -> BOOLEAN]
    BY <1>t, <1>20 DEF ConnectionLost, TypeOK
  <2>4. StageOK'
    BY <1>t, <1>20 DEF ConnectionLost, TypeInv, TypeOK, StageOK
  <2>5. TypeOK'
    BY <1>t, <1>20, <2>1, <2>2, <2>3 DEF ConnectionLost, TypeOK
  <2> QED
    BY <1>a, <2>4, <2>5
<1>21. ASSUME NEW w \in Replicas, HandlerTimeout(w) PROVE TypeInv'
  <2>1. expired' \in [Replicas -> BOOLEAN]
    BY <1>t, <1>21 DEF HandlerTimeout, TypeOK
  <2> QED
    BY <1>t, <1>21, <2>1 DEF HandlerTimeout, TypeInv, TypeOK
<1>22. ASSUME NEW c \in Cases, CancelCase(c) \/ SetRedisKey(c) PROVE TypeInv'
  <2>1. /\ cancelQ' \subseteq Cases /\ cancelled' \subseteq Cases
        /\ redis' \subseteq Cases
    BY <1>t, <1>22 DEF CancelCase, SetRedisKey, TypeOK
  <2> QED
    BY <1>t, <1>22, <2>1 DEF CancelCase, SetRedisKey, TypeInv, TypeOK
<1>23. ASSUME NEW w \in Replicas, NEW c \in Cases, HandleCancelMessage(w, c)
      PROVE TypeInv'
  <2>1. cancelQ' \subseteq Cases
    BY <1>t, <1>23 DEF HandleCancelMessage, TypeOK
  <2>2. faults' \in 0 .. MaxFaults
    BY <1>t, <1>23, FaultType DEF HandleCancelMessage
  <2>3. /\ current' \in [Replicas -> SUBSET Cases]
        /\ prev' \in [Replicas -> SUBSET Cases]
        /\ lasts' \in [Replicas -> 0 .. 2]
    BY <1>t, <1>23, MarkCancelledType DEF HandleCancelMessage
  <2> QED
    BY <1>t, <1>23, <2>1, <2>2, <2>3 DEF HandleCancelMessage, TypeInv, TypeOK
<1>24. ASSUME NEW f \in Files, NEW n \in Levels, RetryDue(f, n) PROVE TypeInv'
  <2>1. /\ queue' \in [Files -> [Levels -> Nat]]
        /\ delayed' \in [Files -> [Levels -> Nat]]
    BY <1>t, <1>24 DEF RetryDue, TypeOK
  <2> QED
    BY <1>t, <1>24, <2>1 DEF RetryDue, TypeInv, TypeOK
<1>25. ASSUME NEW f \in Files, NEW d \in Contents \cup {"gone", "symlink"},
             TempPathChanges(f, d)
      PROVE TypeInv'
  <2>1. disk' \in [Files -> PathStates]
    <3>1. d \in PathStates
      BY DEF PathStates
    <3> QED
      BY <1>t, <1>25, <3>1 DEF TempPathChanges, TypeOK
  <2>2. faults' \in 0 .. MaxFaults
    BY <1>t, <1>25, FaultType DEF TempPathChanges
  <2>3. moved' \in [Replicas -> BOOLEAN]
    <3>1. moved' = [v \in Replicas |->
                      moved[v] \/ (file[v] = f /\ opened[v] # "none")]
      BY <1>25 DEF TempPathChanges
    <3>2. \A v \in Replicas :
            (moved[v] \/ (file[v] = f /\ opened[v] # "none")) \in BOOLEAN
      OBVIOUS
    <3> QED
      BY <3>1, <3>2, Zenon
  <2> QED
    BY <1>t, <1>25, <2>1, <2>2, <2>3 DEF TempPathChanges, TypeInv, TypeOK
<1>26. CASE UNCHANGED vars
  BY <1>t, <1>26 DEF vars, TypeInv, TypeOK
<1>27. ASSUME NEW w \in Replicas, ReadSet(w) PROVE TypeInv'
  <2>1. seen' \in [Replicas -> Findings]
    <3>1. Lookup(w, CaseOf[file[w]]) \in Findings
      BY DEF Lookup, Findings
    <3> QED
      BY <1>t, <1>27, <3>1 DEF ReadSet, TypeOK
  <2> QED
    BY <1>t, <1>27, <2>1 DEF ReadSet, TypeInv, TypeOK
<1>28. ASSUME NEW w \in Replicas, OtherCaseCancelled(w) PROVE TypeInv'
  <2>1. /\ current \in [Replicas -> SUBSET Cases]
        /\ prev \in [Replicas -> SUBSET Cases]
        /\ lasts \in [Replicas -> 0 .. 2]
    BY <1>t DEF TypeOK
  <2>2. lasts' \in [Replicas -> 0 .. 2]
    <3>1. \/ UNCHANGED lasts
          \/ lasts' = [lasts EXCEPT ![w] = lasts[w] - 1] /\ lasts[w] > 0
      BY <1>28, <2>1 DEF OtherCaseCancelled, Turned
    <3> QED
      BY <2>1, <3>1
  <2>3. /\ current' \in [Replicas -> SUBSET Cases]
        /\ prev' \in [Replicas -> SUBSET Cases]
    BY <1>28, <2>1 DEF OtherCaseCancelled
  <2> QED
    BY <1>t, <1>28, <2>2, <2>3 DEF OtherCaseCancelled, TypeInv, TypeOK
<1>29. ASSUME NEW w \in Replicas, NEW c \in Cases, Lapse(w, c) PROVE TypeInv'
  <2>1. /\ current \in [Replicas -> SUBSET Cases]
        /\ prev \in [Replicas -> SUBSET Cases]
        /\ lasts \in [Replicas -> 0 .. 2]
    BY <1>t DEF TypeOK
  <2>2. lasts' \in [Replicas -> 0 .. 2]
    <3>1. UNCHANGED lasts \/ lasts' = [lasts EXCEPT ![w] = 0]
      BY <1>29, <2>1 DEF Lapse
    <3> QED
      BY <2>1, <3>1
  <2>3. /\ current' \in [Replicas -> SUBSET Cases]
        /\ prev' \in [Replicas -> SUBSET Cases]
    <3>1. current' = current \/ current' = [current EXCEPT ![w] = current[w] \ {c}]
      BY <1>29 DEF Lapse
    <3>2. prev' = [prev EXCEPT ![w] = prev[w] \ {c}]
      BY <1>29 DEF Lapse
    <3> QED
      BY <2>1, <3>1, <3>2
  <2> QED
    BY <1>t, <1>29, <2>2, <2>3 DEF Lapse, TypeInv, TypeOK
<1> QED
  BY <1>1, <1>2, <1>3, <1>4, <1>5, <1>6, <1>7, <1>8, <1>9, <1>10, <1>11,
     <1>12, <1>13, <1>14, <1>15, <1>16, <1>17, <1>18, <1>19, <1>20, <1>21,
     <1>22, <1>23, <1>24, <1>25, <1>26, <1>27, <1>28, <1>29 DEF Next, Work

\* The pipeline starts well typed.
LEMMA InitTyped == Init => TypeInv
<1> SUFFICES ASSUME Init PROVE TypeInv
  OBVIOUS
<1>1. 0 \in Levels /\ "idle" \in Stages
  BY ScanPipelineAssumption DEF Levels, Stages
<1>2. /\ queue \in [Files -> [Levels -> Nat]]
      /\ delayed \in [Files -> [Levels -> Nat]]
      /\ results \in [Files -> [Outcomes -> Nat]]
      /\ started \in [Files -> Nat]
  BY DEF Init
<1>3. /\ pc \in [Replicas -> Stages] /\ file \in [Replicas -> Files]
      /\ level \in [Replicas -> Levels]
      /\ \A w \in Replicas : pc[w] # "notify"
  BY <1>1, AnyFileType DEF Init
<1>4. /\ held \in [Replicas -> BOOLEAN] /\ expired \in [Replicas -> BOOLEAN]
      /\ foreseen \in [Replicas -> BOOLEAN] /\ moved \in [Replicas -> BOOLEAN]
      /\ knowable \in [Replicas -> BOOLEAN]
  BY DEF Init
<1>5. /\ current \in [Replicas -> SUBSET Cases] /\ prev \in [Replicas -> SUBSET Cases]
      /\ lasts \in [Replicas -> 0 .. 2]
      /\ opened \in [Replicas -> Contents \cup {"none"}]
  BY DEF Init
<1>8. seen \in [Replicas -> Findings]
  BY DEF Init, Findings
<1>6. /\ dropped \in [Files -> SUBSET Reasons]
      /\ failedAt \in [Files -> SUBSET Levels]
      /\ tried \in [Files -> SUBSET Levels]
  BY DEF Init
<1>7. faults \in 0 .. MaxFaults
  BY ScanPipelineAssumption DEF Init
<1> QED
  BY <1>2, <1>3, <1>4, <1>5, <1>6, <1>7, <1>8 DEF Init, TypeInv, TypeOK

\* Every state of the pipeline is well typed: retry counts stay within
\* maxRetries, queues never go negative, handlers stay on their stages.
THEOREM TypeCorrect == Spec => []TypeOK
<1>1. TypeInv => TypeOK
  BY DEF TypeInv
<1> QED
  BY <1>1, InitTyped, TypeStep, PTL DEF Spec

-----------------------------------------------------------------------------
(***************************************************************************)
(* No silent loss.  A delivery is acknowledged only when the file is       *)
(* accounted for, or when a copy with a higher retry count carries it on.  *)
(* "Higher" is what makes the argument work: two handlers of one file can  *)
(* not each rely on the copy the other one is about to acknowledge.        *)
(***************************************************************************)
LiveAbove(f, n) == \E m \in Levels : m > n /\ CopyAt(f, m)

Settling(w) == pc[w] \in {"notify", "ack"}

LossInv ==
  /\ NoSilentLoss
  /\ \A w \in Replicas : pc[w] = "idle" => ~held[w]
  /\ \A w \in Replicas : Settling(w) =>
       Accounted(file[w]) \/ LiveAbove(file[w], level[w])

\* A step that loses no copy and no account, and lets a handler settle only with
\* one or the other, keeps the invariant.
LEMMA LossFrame ==
  ASSUME TypeOK, TypeOK', LossInv,
         \A f \in Files, n \in Levels : CopyAt(f, n) => CopyAt(f, n)',
         \A f \in Files : Accounted(f) => Accounted(f)',
         \A w \in Replicas : pc'[w] = "idle" => ~held'[w],
         \A w \in Replicas : Settling(w)' =>
           \/ Settling(w) /\ file'[w] = file[w] /\ level'[w] = level[w]
           \/ Accounted(file[w])'
           \/ LiveAbove(file[w], level[w])'
  PROVE  LossInv'
<1>1. NoSilentLoss'
  BY DEF LossInv, NoSilentLoss, Live
<1>2. ASSUME NEW w \in Replicas, Settling(w)'
      PROVE  (Accounted(file[w]) \/ LiveAbove(file[w], level[w]))'
  <2>1. CASE Settling(w) /\ file'[w] = file[w] /\ level'[w] = level[w]
    <3>1. file[w] \in Files /\ level[w] \in Levels
      BY DEF TypeOK
    <3>2. Accounted(file[w]) \/ LiveAbove(file[w], level[w])
      BY <2>1 DEF LossInv
    <3>3. ASSUME NEW f \in Files, NEW n \in Levels,
                 f = file'[w], n = level'[w], Accounted(f) \/ LiveAbove(f, n)
          PROVE  (Accounted(file[w]) \/ LiveAbove(file[w], level[w]))'
      <4>1. Accounted(f)' \/ \E m \in Levels : m > n /\ CopyAt(f, m)'
        BY <3>3 DEF LiveAbove
      <4> QED
        BY <3>3, <4>1 DEF LiveAbove, Accounted, CopyAt
    <3> QED
      BY <2>1, <3>1, <3>2, <3>3
  <2> QED
    BY <1>2, <2>1
<1> QED
  BY <1>1, <1>2 DEF LossInv

\* What a step that touches no delivery does to the accounts: published
\* messages stay published, a dropped message stays dropped.
LEMMA AccountsKept ==
  ASSUME TypeOK,
         \A f \in Files : dropped[f] \subseteq dropped'[f],
         \A f \in Files, o \in Outcomes : results[f][o] <= results'[f][o],
         results' \in [Files -> [Outcomes -> Nat]]
  PROVE  \A f \in Files : Accounted(f) => Accounted(f)'
<1> SUFFICES ASSUME NEW f \in Files, Accounted(f) PROVE Accounted(f)'
  OBVIOUS
<1>1. CASE dropped[f] # {}
  BY <1>1 DEF Accounted
<1>2. CASE \E o \in Outcomes : results[f][o] > 0
  <2>1. PICK o \in Outcomes : results[f][o] > 0
    BY <1>2
  <2>2. results[f][o] \in Nat /\ results'[f][o] \in Nat
    BY DEF TypeOK
  <2>3. results'[f][o] > 0
    BY <2>1, <2>2
  <2> QED
    BY <2>3 DEF Accounted
<1> QED
  BY <1>1, <1>2 DEF Accounted

\* A step of one handler, or of none, that moves no delivery.
LEMMA QuietStep ==
  ASSUME TypeOK, TypeOK', LossInv,
         UNCHANGED <<queue, delayed, file, level, held>>,
         \A f \in Files : Accounted(f) => Accounted(f)',
         \A w \in Replicas : pc'[w] = "idle" => pc[w] = "idle",
         \A w \in Replicas : Settling(w)' => Settling(w) \/ Accounted(file[w])'
  PROVE  LossInv'
<1>1. \A f \in Files, n \in Levels : CopyAt(f, n) => CopyAt(f, n)'
  BY DEF CopyAt
<1>2. \A w \in Replicas : pc'[w] = "idle" => ~held'[w]
  BY DEF LossInv
<1> QED
  BY <1>1, <1>2, LossFrame

\* A report keeps every account and, once accepted, gives the file one.
LEMMA ReportAccounts ==
  ASSUME TypeOK, NEW f \in Files, NEW o \in Outcomes, NEW accepted \in BOOLEAN,
         Report(f, o, accepted), UNCHANGED dropped
  PROVE  /\ \A g \in Files : Accounted(g) => Accounted(g)'
         /\ accepted => (results'[f][o] > 0)
<1>1. results' \in [Files -> [Outcomes -> Nat]]
  BY ReportType
<1>2. \A g \in Files, p \in Outcomes : results[g][p] <= results'[g][p]
  BY DEF Report, TypeOK
<1>3. \A g \in Files : dropped[g] \subseteq dropped'[g]
  OBVIOUS
<1>4. accepted => (results'[f][o] > 0)
  BY DEF Report, TypeOK
<1> QED
  BY <1>1, <1>2, <1>3, <1>4, AccountsKept

\* So does dropping the message.
LEMMA DropAccounts ==
  ASSUME TypeOK, NEW w \in Replicas, NEW why \in Reasons, Drop(w, why),
         UNCHANGED <<results, file>>
  PROVE  /\ \A f \in Files : Accounted(f) => Accounted(f)'
         /\ Accounted(file[w])'
         /\ \A v \in Replicas : pc'[v] = IF v = w THEN "ack" ELSE pc[v]
<1>1. file[w] \in Files
  BY DEF TypeOK
<1>2. dropped' = [dropped EXCEPT ![file[w]] = dropped[file[w]] \cup {why}]
  BY DEF Drop
<1>3. \A f \in Files : dropped[f] \subseteq dropped'[f]
  BY <1>2 DEF TypeOK
<1>4. dropped'[file[w]] # {}
  BY <1>1, <1>2 DEF TypeOK
<1>5. Accounted(file[w])'
  BY <1>4 DEF Accounted
<1>6. \A f \in Files : Accounted(f) => Accounted(f)'
  <2>1. results' \in [Files -> [Outcomes -> Nat]]
        /\ \A f \in Files, o \in Outcomes : results[f][o] <= results'[f][o]
    BY DEF TypeOK
  <2> QED
    BY <1>3, <2>1, AccountsKept
<1> QED
  BY <1>5, <1>6, DropType

\* A quiet step that drops the message of its delivery.
LEMMA QuietDrop ==
  ASSUME TypeOK, TypeOK', LossInv, NEW w \in Replicas, NEW why \in Reasons,
         Drop(w, why), UNCHANGED <<queue, delayed, file, level, held, results>>
  PROVE  LossInv'
<1>1. /\ \A f \in Files : Accounted(f) => Accounted(f)'
      /\ Accounted(file[w])'
      /\ \A v \in Replicas : pc'[v] = IF v = w THEN "ack" ELSE pc[v]
  BY DropAccounts
<1>2. \A v \in Replicas : Settling(v)' => Settling(v) \/ Accounted(file[v])'
  BY <1>1 DEF Settling
<1>3. \A v \in Replicas : pc'[v] = "idle" => pc[v] = "idle"
  BY <1>1
<1> QED
  BY <1>1, <1>2, <1>3, QuietStep

\* A quiet step that goes on to a stage where nothing is settled yet.
LEMMA QuietMove ==
  ASSUME TypeOK, TypeOK', LossInv, NEW w \in Replicas,
         NEW stage \in Stages \ {"idle", "ack", "notify"}, Goto(w, stage),
         UNCHANGED <<queue, delayed, file, level, held, results, dropped>>
  PROVE  LossInv'
<1>1. \A v \in Replicas : pc'[v] = IF v = w THEN stage ELSE pc[v]
  BY GotoType
<1>2. \A f \in Files : Accounted(f) => Accounted(f)'
  BY DEF Accounted
<1>3. \A v \in Replicas : Settling(v)' => Settling(v)
  BY <1>1 DEF Settling
<1>4. \A v \in Replicas : pc'[v] = "idle" => pc[v] = "idle"
  BY <1>1
<1> QED
  BY <1>2, <1>3, <1>4, QuietStep

\* A quiet step that leaves the handlers and the accounts alone.
LEMMA QuietRest ==
  ASSUME TypeOK, TypeOK', LossInv,
         UNCHANGED <<pc, queue, delayed, file, level, held, results, dropped>>
  PROVE  LossInv'
<1>1. \A f \in Files : Accounted(f) => Accounted(f)'
  BY DEF Accounted
<1>2. \A v \in Replicas : Settling(v)' => Settling(v)
  BY DEF Settling
<1> QED
  BY <1>1, <1>2, QuietStep

\* A quiet step that publishes a terminal message and then settles: only an
\* accepted message is followed by the acknowledgement.
LEMMA QuietReport ==
  ASSUME TypeOK, TypeOK', LossInv, NEW w \in Replicas, NEW o \in Outcomes,
         NEW accepted \in BOOLEAN, Report(file[w], o, accepted),
         NEW stage \in {"ack", "nack"}, Goto(w, stage),
         stage = "ack" => accepted,
         UNCHANGED <<queue, delayed, file, level, held, dropped>>
  PROVE  LossInv'
<1>1. file[w] \in Files /\ stage \in Stages
  BY DEF TypeOK, Stages
<1>2. /\ \A g \in Files : Accounted(g) => Accounted(g)'
      /\ accepted => (results'[file[w]][o] > 0)
  BY <1>1, ReportAccounts
<1>3. accepted => Accounted(file[w])'
  BY <1>2 DEF Accounted
<1>4. \A v \in Replicas : pc'[v] = IF v = w THEN stage ELSE pc[v]
  BY <1>1, GotoType
<1>5. \A v \in Replicas : Settling(v)' => Settling(v) \/ Accounted(file[v])'
  BY <1>3, <1>4 DEF Settling
<1>6. \A v \in Replicas : pc'[v] = "idle" => pc[v] = "idle"
  BY <1>4
<1> QED
  BY <1>2, <1>5, <1>6, QuietStep

\* A step that puts every held copy it lets go back into the queue.
LEMMA RequeueKeeps ==
  ASSUME TypeOK, TypeOK', NEW w \in Replicas, Requeue(w), UNCHANGED delayed,
         \A v \in Replicas \ {w} :
           held'[v] = held[v] /\ file'[v] = file[v] /\ level'[v] = level[v]
  PROVE  \A f \in Files, n \in Levels : CopyAt(f, n) => CopyAt(f, n)'
<1> SUFFICES ASSUME NEW f \in Files, NEW n \in Levels, CopyAt(f, n)
             PROVE  CopyAt(f, n)'
  OBVIOUS
<1>1. \A g \in Files, m \in Levels : queue[g][m] <= queue'[g][m]
  BY DEF Requeue, TypeOK
<1>2. held[w] => queue'[file[w]][level[w]] > 0
  BY DEF Requeue, TypeOK
<1>3. queue[f][n] \in Nat /\ queue'[f][n] \in Nat
  BY DEF TypeOK
<1>4. CASE queue[f][n] > 0 \/ delayed[f][n] > 0
  BY <1>1, <1>3, <1>4 DEF CopyAt
<1>5. CASE \E v \in Replicas : held[v] /\ file[v] = f /\ level[v] = n
  BY <1>2, <1>5 DEF CopyAt
<1> QED
  BY <1>4, <1>5 DEF CopyAt

\* One step keeps the invariant.
LEMMA LossStep == TypeInv /\ LossInv /\ [Next]_vars => LossInv'
<1> SUFFICES ASSUME TypeInv, LossInv, [Next]_vars PROVE LossInv'
  OBVIOUS
<1>t. TypeOK /\ TypeOK'
  BY TypeStep DEF TypeInv
<1> USE DEF broker, cancelling, storage, delivery, sets, memory,
           history, checks
<1>1. ASSUME NEW w \in Replicas, NEW f \in Files, NEW n \in Levels,
            Receive(w, f, n)
      PROVE LossInv'
  <2>1. /\ pc[w] = "idle" /\ UNCHANGED <<delayed, results>>
        /\ queue' = [queue EXCEPT ![f][n] = queue[f][n] - 1]
        /\ file' = [file EXCEPT ![w] = f] /\ level' = [level EXCEPT ![w] = n]
    BY <1>1 DEF Receive, At
  <2>2. held' = [held EXCEPT ![w] = TRUE]
    BY <1>1 DEF Receive
  <2>3. ~held[w]
    BY <2>1 DEF LossInv
  <2>4. \A v \in Replicas \ {w} :
          held'[v] = held[v] /\ file'[v] = file[v] /\ level'[v] = level[v]
    BY <1>t, <2>1, <2>2 DEF TypeOK
  <2>5. held'[w] /\ file'[w] = f /\ level'[w] = n
    BY <1>t, <2>1, <2>2 DEF TypeOK
  <2>6. \A g \in Files, m \in Levels : CopyAt(g, m) => CopyAt(g, m)'
    <3> SUFFICES ASSUME NEW g \in Files, NEW m \in Levels, CopyAt(g, m)
                 PROVE  CopyAt(g, m)'
      OBVIOUS
    <3>1. CASE g = f /\ m = n
      BY <2>5, <3>1 DEF CopyAt
    <3>2. CASE ~(g = f /\ m = n)
      <4>1. queue'[g][m] = queue[g][m]
        BY <1>t, <2>1, <3>2 DEF TypeOK
      <4> QED
        BY <2>1, <2>3, <2>4, <4>1 DEF CopyAt
    <3> QED
      BY <3>1, <3>2
  <2>7. \/ /\ dropped' = [dropped EXCEPT ![f] = dropped[f] \cup {"malformed"}]
           /\ Goto(w, "ack")
        \/ Goto(w, "precheck") /\ UNCHANGED dropped
    BY <1>1 DEF Receive
  <2>8. \A g \in Files : dropped[g] \subseteq dropped'[g]
    <3>t. dropped \in [Files -> SUBSET Reasons]
      BY <1>t DEF TypeOK
    <3>1. CASE dropped' = [dropped EXCEPT ![f] = dropped[f] \cup {"malformed"}]
      BY <3>t, <3>1
    <3>2. CASE dropped' = dropped
      BY <3>2
    <3> QED
      BY <2>7, <3>1, <3>2
  <2>9. \A g \in Files : Accounted(g) => Accounted(g)'
    <3>1. /\ results' \in [Files -> [Outcomes -> Nat]]
          /\ \A g \in Files, o \in Outcomes : results[g][o] <= results'[g][o]
      BY <1>t, <2>1 DEF TypeOK
    <3> QED
      BY <1>t, <2>8, <3>1, AccountsKept
  <2>10. "ack" \in Stages /\ "precheck" \in Stages
    BY DEF Stages
  <2>11. \A v \in Replicas \ {w} : pc'[v] = pc[v]
    BY <1>t, <2>7, <2>10, GotoType
  <2>12. pc'[w] # "idle" /\ (Settling(w)' => Accounted(file[w])')
    <3>1. CASE Goto(w, "precheck")
      BY <1>t, <2>10, <3>1, GotoType DEF Settling
    <3>2. CASE /\ dropped' = [dropped EXCEPT ![f] = dropped[f] \cup {"malformed"}]
               /\ Goto(w, "ack")
      <4>1. dropped'[f] # {} /\ pc'[w] = "ack"
        BY <1>t, <2>10, <3>2, GotoType DEF TypeOK
      <4> QED
        BY <2>5, <4>1 DEF Accounted
    <3> QED
      BY <2>7, <3>1, <3>2
  <2>13. \A v \in Replicas : pc'[v] = "idle" => ~held'[v]
    BY <2>4, <2>11, <2>12 DEF LossInv
  <2>14. \A v \in Replicas : Settling(v)' =>
           \/ Settling(v) /\ file'[v] = file[v] /\ level'[v] = level[v]
           \/ Accounted(file[v])'
    BY <2>4, <2>11, <2>12 DEF Settling
  <2> QED
    BY <1>t, <2>6, <2>9, <2>13, <2>14, LossFrame
<1>2. ASSUME NEW w \in Replicas, PreCheck(w) PROVE LossInv'
  <2>1. UNCHANGED <<queue, delayed, file, level, held, results>>
    BY <1>2 DEF PreCheck
  <2>2. \/ \E why \in {"cancelled", "badpath"} : Drop(w, why)
        \/ Goto(w, "lstat") /\ UNCHANGED dropped
    BY <1>2 DEF PreCheck
  <2>3. {"cancelled", "badpath"} \subseteq Reasons
          /\ "lstat" \in Stages \ {"idle", "ack", "notify"}
    BY DEF Reasons, Stages
  <2> QED
    BY <1>t, <2>1, <2>2, <2>3, QuietDrop, QuietMove
<1>3. ASSUME NEW w \in Replicas, Lstat(w) PROVE LossInv'
  <2>1. UNCHANGED <<queue, delayed, file, level, held, results>>
    BY <1>3 DEF Lstat
  <2>2. CASE Unreadable(w)
    <3>1. PICK why \in {"missing", "ioerror"} : Drop(w, why)
      BY <2>2 DEF Unreadable
    <3>2. why \in Reasons
      BY DEF Reasons
    <3> QED
      BY <1>t, <2>1, <3>1, <3>2, QuietDrop
  <2>3. CASE ~Unreadable(w)
    <3>1. PICK stage \in {"reject", "open"} : Goto(w, stage)
      BY <1>3, <2>3 DEF Lstat
    <3>2. stage \in Stages \ {"idle", "ack", "notify"} /\ UNCHANGED dropped
      BY <1>3, <2>3 DEF Lstat, Stages
    <3> QED
      BY <1>t, <2>1, <3>1, <3>2, QuietMove
  <2> QED
    BY <2>2, <2>3
<1>4. ASSUME NEW w \in Replicas, Open(w) PROVE LossInv'
  <2>1. UNCHANGED <<queue, delayed, file, level, held, results>>
    BY <1>4 DEF Open
  <2>2. CASE Unreadable(w)
    <3>1. PICK why \in {"missing", "ioerror"} : Drop(w, why)
      BY <2>2 DEF Unreadable
    <3>2. why \in Reasons
      BY DEF Reasons
    <3> QED
      BY <1>t, <2>1, <3>1, <3>2, QuietDrop
  <2>3. CASE ~Unreadable(w)
    <3>1. PICK stage \in {"reject", "started", "hash"} : Goto(w, stage)
      BY <1>4, <2>3 DEF Open
    <3>2. stage \in Stages \ {"idle", "ack", "notify"} /\ UNCHANGED dropped
      BY <1>4, <2>3 DEF Open, Stages
    <3> QED
      BY <1>t, <2>1, <3>1, <3>2, QuietMove
  <2> QED
    BY <2>2, <2>3
<1>5. ASSUME NEW w \in Replicas, Reject(w) PROVE LossInv'
  <2>1. PICK accepted \in BOOLEAN, failed \in BOOLEAN :
          /\ Report(file[w], "ERROR", accepted)
          /\ \/ accepted /\ Goto(w, "ack") /\ UNCHANGED dropped
             \/ ~accepted /\ Drop(w, "unreported")
    BY <1>5 DEF Reject
  <2>2. UNCHANGED <<queue, delayed, file, level, held>>
    BY <1>5 DEF Reject
  <2>3. CASE accepted
    <3>1. "ERROR" \in Outcomes /\ Goto(w, "ack") /\ UNCHANGED dropped
      BY <2>1, <2>3 DEF Outcomes
    <3> QED
      BY <1>t, <2>1, <2>2, <2>3, <3>1, QuietReport
  <2>4. CASE ~accepted
    <3>1. UNCHANGED results /\ Drop(w, "unreported") /\ "unreported" \in Reasons
      BY <2>1, <2>4 DEF Report, Reasons
    <3> QED
      BY <1>t, <2>2, <3>1, QuietDrop
  <2> QED
    BY <2>3, <2>4
<1>6. ASSUME NEW w \in Replicas, Start(w) PROVE LossInv'
  <2>1. UNCHANGED <<queue, delayed, file, level, held, results, dropped>>
    BY <1>6 DEF Start
  <2>2. PICK stage \in {"hash"} : Goto(w, stage)
    BY <1>6 DEF Start
  <2>3. stage \in Stages \ {"idle", "ack", "notify"}
    BY DEF Stages
  <2> QED
    BY <1>t, <2>1, <2>2, <2>3, QuietMove
<1>7. ASSUME NEW w \in Replicas, Hash(w) PROVE LossInv'
  <2>1. UNCHANGED <<queue, delayed, file, level, held, results, dropped>>
    BY <1>7 DEF Hash
  <2>2. PICK stage \in {"failed", "recheck"} : Goto(w, stage)
    BY <1>7 DEF Hash, Fail
  <2>3. stage \in Stages \ {"idle", "ack", "notify"}
    BY DEF Stages
  <2> QED
    BY <1>t, <2>1, <2>2, <2>3, QuietMove
<1>8. ASSUME NEW w \in Replicas, Recheck(w) PROVE LossInv'
  <2>1. UNCHANGED <<queue, delayed, file, level, held, results, dropped>>
    BY <1>8 DEF Recheck
  <2>2. PICK stage \in {"discard", "clamd"} : Goto(w, stage)
    BY <1>8 DEF Recheck
  <2>3. stage \in Stages \ {"idle", "ack", "notify"}
    BY DEF Stages
  <2> QED
    BY <1>t, <2>1, <2>2, <2>3, QuietMove
<1>9. ASSUME NEW w \in Replicas, ScanStream(w) PROVE LossInv'
  <2>1. UNCHANGED <<queue, delayed, file, level, held, results, dropped>>
    BY <1>9 DEF ScanStream
  <2>2. PICK stage \in {"failed", "postcheck"} : Goto(w, stage)
    BY <1>9 DEF ScanStream, Fail
  <2>3. stage \in Stages \ {"idle", "ack", "notify"}
    BY DEF Stages
  <2> QED
    BY <1>t, <2>1, <2>2, <2>3, QuietMove
<1>10. ASSUME NEW w \in Replicas, PostCheck(w) PROVE LossInv'
  <2>1. UNCHANGED <<queue, delayed, file, level, held, results, dropped>>
    BY <1>10 DEF PostCheck
  <2>2. PICK stage \in {"discard", "remove", "publish"} : Goto(w, stage)
    BY <1>10 DEF PostCheck
  <2>3. stage \in Stages \ {"idle", "ack", "notify"}
    BY DEF Stages
  <2> QED
    BY <1>t, <2>1, <2>2, <2>3, QuietMove
<1>11. ASSUME NEW w \in Replicas, RemoveInfected(w) PROVE LossInv'
  <2>1. UNCHANGED <<queue, delayed, file, level, held, results, dropped>>
    BY <1>11 DEF RemoveInfected
  <2>2. PICK stage \in {"publish"} : Goto(w, stage)
    BY <1>11 DEF RemoveInfected
  <2>3. stage \in Stages \ {"idle", "ack", "notify"}
    BY DEF Stages
  <2> QED
    BY <1>t, <2>1, <2>2, <2>3, QuietMove
<1>12. ASSUME NEW w \in Replicas, Discard(w) PROVE LossInv'
  <2>1. /\ UNCHANGED <<queue, delayed, file, level, held, results>>
        /\ Drop(w, "cancelled") /\ "cancelled" \in Reasons
    BY <1>12 DEF Discard, Reasons
  <2> QED
    BY <1>t, <2>1, QuietDrop
<1>13. ASSUME NEW w \in Replicas, PublishVerdict(w) PROVE LossInv'
  <2>1. UNCHANGED <<queue, delayed, file, level, held, dropped>>
    BY <1>13 DEF PublishVerdict
  <2>2. PICK accepted \in BOOLEAN, failed \in BOOLEAN, o \in Outcomes :
          /\ Publishes(accepted, failed)
          /\ Report(file[w], o, accepted)
          /\ Goto(w, IF failed THEN "nack" ELSE "ack")
    BY <1>13 DEF PublishVerdict, Outcomes
  <2>3. PICK stage \in {"ack", "nack"} :
          Goto(w, stage) /\ (stage = "ack" => accepted)
    <3>1. ~failed => accepted
      BY <2>2 DEF Publishes
    <3> QED
      BY <2>2, <3>1
  <2> QED
    BY <1>t, <2>1, <2>2, <2>3, QuietReport
<1>14. ASSUME NEW w \in Replicas, DeadLetter(w) PROVE LossInv'
  <2>1. UNCHANGED <<queue, delayed, file, level, held, dropped>>
    BY <1>14 DEF DeadLetter
  <2>2. PICK accepted \in BOOLEAN, failed \in BOOLEAN, o \in Outcomes :
          /\ Publishes(accepted, failed)
          /\ Report(file[w], o, accepted)
          /\ Goto(w, IF failed THEN "nack" ELSE "ack")
    BY <1>14 DEF DeadLetter, Outcomes
  <2>3. PICK stage \in {"ack", "nack"} :
          Goto(w, stage) /\ (stage = "ack" => accepted)
    <3>1. ~failed => accepted
      BY <2>2 DEF Publishes
    <3> QED
      BY <2>2, <3>1
  <2> QED
    BY <1>t, <2>1, <2>2, <2>3, QuietReport
<1>15. ASSUME NEW w \in Replicas, ScheduleRetry(w) PROVE LossInv'
  <2>1. /\ UNCHANGED <<queue, file, level, held, results, dropped>>
        /\ level[w] < MaxRetries
    BY <1>15 DEF ScheduleRetry
  <2>2. PICK accepted \in BOOLEAN, failed \in BOOLEAN :
          /\ Publishes(accepted, failed)
          /\ delayed' = IF accepted
                        THEN [delayed EXCEPT ![file[w]][level[w] + 1] = @ + 1]
                        ELSE delayed
          /\ Goto(w, IF failed THEN "nack" ELSE "notify")
    BY <1>15 DEF ScheduleRetry
  <2>3. file[w] \in Files /\ level[w] + 1 \in Levels /\ level[w] \in Levels
    <3>1. file[w] \in Files /\ level[w] \in Levels
      BY <1>t DEF TypeOK
    <3> QED
      BY <2>1, <3>1, ScanPipelineAssumption DEF Levels
  <2>4. delayed \in [Files -> [Levels -> Nat]]
    BY <1>t DEF TypeOK
  <2>5. /\ \A f \in Files, n \in Levels : delayed[f][n] > 0 => delayed'[f][n] > 0
        /\ accepted => delayed'[file[w]][level[w] + 1] > 0
    <3>1. CASE accepted
      <4>1. delayed' = [delayed EXCEPT ![file[w]][level[w] + 1] = @ + 1]
        BY <2>2, <3>1
      <4> QED
        BY <2>3, <2>4, <4>1
    <3>2. CASE ~accepted
      BY <2>2, <3>2
    <3> QED
      BY <3>1, <3>2
  <2>6. \A f \in Files, n \in Levels : CopyAt(f, n) => CopyAt(f, n)'
    BY <2>1, <2>5 DEF CopyAt
  <2>7. accepted => LiveAbove(file[w], level[w])'
    <3> SUFFICES ASSUME accepted PROVE LiveAbove(file[w], level[w])'
      OBVIOUS
    <3>1. CopyAt(file[w], level[w] + 1)'
      BY <2>1, <2>5 DEF CopyAt
    <3>2. level[w] + 1 > level[w]
      BY <2>3 DEF Levels
    <3>3. file'[w] = file[w] /\ level'[w] = level[w]
      BY <2>1
    <3> QED
      BY <2>3, <3>1, <3>2, <3>3 DEF LiveAbove
  <2>8. "nack" \in Stages /\ "notify" \in Stages /\ (~failed => accepted)
    BY <2>2 DEF Stages, Publishes
  <2>9. \A v \in Replicas :
          pc'[v] = IF v = w THEN IF failed THEN "nack" ELSE "notify" ELSE pc[v]
    BY <1>t, <2>2, <2>8, GotoType
  <2>10. \A v \in Replicas : pc'[v] = "idle" => ~held'[v]
    BY <2>1, <2>9 DEF LossInv
  <2>11. \A v \in Replicas : Settling(v)' =>
           \/ Settling(v) /\ file'[v] = file[v] /\ level'[v] = level[v]
           \/ LiveAbove(file[v], level[v])'
    BY <2>1, <2>7, <2>8, <2>9 DEF Settling
  <2>12. \A f \in Files : Accounted(f) => Accounted(f)'
    BY <2>1 DEF Accounted
  <2> QED
    BY <1>t, <2>6, <2>10, <2>11, <2>12, LossFrame
<1>16. ASSUME NEW w \in Replicas, NotifyRetry(w) PROVE LossInv'
  <2>1. /\ UNCHANGED <<queue, delayed, file, level, held, results, dropped>>
        /\ pc[w] = "notify" /\ Goto(w, "ack") /\ "ack" \in Stages
    BY <1>16 DEF NotifyRetry, At, Stages
  <2>2. \A v \in Replicas : pc'[v] = IF v = w THEN "ack" ELSE pc[v]
    BY <1>t, <2>1, GotoType
  <2>3. \A v \in Replicas : Settling(v)' => Settling(v)
    BY <2>1, <2>2 DEF Settling
  <2>4. \A f \in Files : Accounted(f) => Accounted(f)'
    BY <2>1 DEF Accounted
  <2>5. \A v \in Replicas : pc'[v] = "idle" => pc[v] = "idle"
    BY <2>2
  <2> QED
    BY <1>t, <2>1, <2>3, <2>4, <2>5, QuietStep
<1>17. ASSUME NEW w \in Replicas, Ack(w) PROVE LossInv'
  <2>1. /\ UNCHANGED <<queue, delayed, results, dropped>> /\ pc[w] = "ack"
    BY <1>17 DEF Ack, At
  <2>2. Idle(w)
    BY <1>17 DEF Ack
  <2>3. /\ \A v \in Replicas : pc'[v] = IF v = w THEN "idle" ELSE pc[v]
        /\ \A v \in Replicas \ {w} :
             held'[v] = held[v] /\ file'[v] = file[v] /\ level'[v] = level[v]
        /\ ~held'[w]
    BY <1>t, <2>2, IdleElsewhere
  <2>4. \A f \in Files : Accounted(f) <=> Accounted(f)'
    BY <2>1 DEF Accounted
  <2>5. file[w] \in Files /\ level[w] \in Levels
    BY <1>t DEF TypeOK
  <2>6. Accounted(file[w]) \/ LiveAbove(file[w], level[w])
    BY <2>1 DEF LossInv, Settling
  <2>7. \A f \in Files, n \in Levels :
          CopyAt(f, n) => CopyAt(f, n)' \/ (f = file[w] /\ n = level[w])
    BY <2>1, <2>3 DEF CopyAt
  <2>8. ASSUME NEW f \in Files, NEW n \in Levels, LiveAbove(f, n)
        PROVE  Accounted(f)' \/ \E m \in Levels : m > n /\ CopyAt(f, m)'
    <3>1. PICK m \in Levels : m > n /\ CopyAt(f, m)
      BY <2>8 DEF LiveAbove
    <3>2. CASE f = file[w] /\ m = level[w] /\ ~Accounted(f)
      <4>1. PICK l \in Levels : l > m /\ CopyAt(f, l)
        BY <2>6, <3>2 DEF LiveAbove
      <4>2. l > n /\ l # level[w]
        BY <3>1, <3>2, <4>1, ScanPipelineAssumption DEF Levels
      <4> QED
        BY <2>7, <4>1, <4>2
    <3> QED
      BY <2>4, <2>7, <3>1, <3>2
  <2>9. NoSilentLoss'
    <3> SUFFICES ASSUME NEW f \in Files PROVE (Live(f) \/ Accounted(f))'
      BY DEF NoSilentLoss
    <3>1. CASE Accounted(f)
      BY <2>4, <3>1
    <3>2. CASE \E n \in Levels : CopyAt(f, n) /\ ~Accounted(f)
      <4>1. PICK n \in Levels : CopyAt(f, n) /\ ~Accounted(f)
        BY <3>2
      <4>2. CASE f = file[w] /\ n = level[w]
        <5>1. Accounted(f)' \/ \E m \in Levels : m > n /\ CopyAt(f, m)'
          BY <2>6, <2>8, <4>1, <4>2
        <5> QED
          BY <5>1 DEF Live
      <4>3. CASE ~(f = file[w] /\ n = level[w])
        BY <2>7, <4>1, <4>3 DEF Live
      <4> QED
        BY <4>2, <4>3
    <3> QED
      BY <3>1, <3>2 DEF LossInv, NoSilentLoss, Live
  <2>10. \A v \in Replicas : pc'[v] = "idle" => ~held'[v]
    BY <2>3 DEF LossInv
  <2>11. ASSUME NEW v \in Replicas, Settling(v)'
         PROVE  (Accounted(file[v]) \/ LiveAbove(file[v], level[v]))'
    <3>1. v # w /\ Settling(v)
      BY <2>3, <2>11 DEF Settling
    <3>2. file'[v] = file[v] /\ level'[v] = level[v]
      BY <2>3, <3>1
    <3>3. file[v] \in Files /\ level[v] \in Levels
      BY <1>t DEF TypeOK
    <3>4. Accounted(file[v]) \/ LiveAbove(file[v], level[v])
      BY <3>1 DEF LossInv
    <3>5. ASSUME NEW f \in Files, NEW n \in Levels,
                 f = file'[v], n = level'[v], Accounted(f) \/ LiveAbove(f, n)
          PROVE  (Accounted(file[v]) \/ LiveAbove(file[v], level[v]))'
      <4>1. Accounted(f)' \/ \E m \in Levels : m > n /\ CopyAt(f, m)'
        BY <2>4, <2>8, <3>5
      <4> QED
        BY <3>5, <4>1 DEF LiveAbove, Accounted, CopyAt
    <3> QED
      BY <3>2, <3>3, <3>4, <3>5
  <2> QED
    BY <2>9, <2>10, <2>11 DEF LossInv
<1>18. ASSUME NEW w \in Replicas, Nack(w) \/ Crash(w) PROVE LossInv'
  <2>1. UNCHANGED <<delayed, results, dropped>> /\ Requeue(w) /\ Idle(w)
    BY <1>18 DEF Nack, Crash
  <2>2. /\ \A v \in Replicas : pc'[v] = IF v = w THEN "idle" ELSE pc[v]
        /\ \A v \in Replicas \ {w} :
             held'[v] = held[v] /\ file'[v] = file[v] /\ level'[v] = level[v]
        /\ ~held'[w]
    BY <1>t, <2>1, IdleElsewhere
  <2>3. \A f \in Files, n \in Levels : CopyAt(f, n) => CopyAt(f, n)'
    BY <1>t, <2>1, <2>2, RequeueKeeps
  <2>4. \A f \in Files : Accounted(f) => Accounted(f)'
    BY <2>1 DEF Accounted
  <2>5. \A v \in Replicas : pc'[v] = "idle" => ~held'[v]
    BY <2>2 DEF LossInv
  <2>6. \A v \in Replicas : Settling(v)' =>
          Settling(v) /\ file'[v] = file[v] /\ level'[v] = level[v]
    BY <2>2 DEF Settling
  <2> QED
    BY <1>t, <2>3, <2>4, <2>5, <2>6, LossFrame
<1>19. ASSUME NEW w \in Replicas, ConnectionLost(w) PROVE LossInv'
  <2>1. /\ UNCHANGED <<delayed, results, dropped, pc, file, level>> /\ Requeue(w)
        /\ held' = [held EXCEPT ![w] = FALSE]
    BY <1>19 DEF ConnectionLost
  <2>2. \A v \in Replicas : held'[v] = IF v = w THEN FALSE ELSE held[v]
    BY <1>t, <2>1 DEF TypeOK
  <2>3. \A f \in Files, n \in Levels : CopyAt(f, n) => CopyAt(f, n)'
    BY <1>t, <2>1, <2>2, RequeueKeeps
  <2>4. \A f \in Files : Accounted(f) => Accounted(f)'
    BY <2>1 DEF Accounted
  <2>5. \A v \in Replicas : pc'[v] = "idle" => ~held'[v]
    BY <2>1, <2>2 DEF LossInv
  <2>6. \A v \in Replicas : Settling(v)' =>
          Settling(v) /\ file'[v] = file[v] /\ level'[v] = level[v]
    BY <2>1 DEF Settling
  <2> QED
    BY <1>t, <2>3, <2>4, <2>5, <2>6, LossFrame
<1>20. ASSUME NEW f \in Files, NEW n \in Levels, RetryDue(f, n) PROVE LossInv'
  <2>1. /\ UNCHANGED <<results, dropped, pc, file, level, held>>
        /\ delayed' = [delayed EXCEPT ![f][n] = @ - 1]
        /\ queue' = [queue EXCEPT ![f][n] = @ + 1]
    BY <1>20 DEF RetryDue
  <2>2. /\ \A g \in Files, m \in Levels : queue[g][m] > 0 => queue'[g][m] > 0
        /\ queue'[f][n] > 0
        /\ \A g \in Files, m \in Levels :
             ~(g = f /\ m = n) => delayed'[g][m] = delayed[g][m]
    BY <1>t, <2>1 DEF TypeOK
  <2>3. \A g \in Files, m \in Levels : CopyAt(g, m) => CopyAt(g, m)'
    BY <2>1, <2>2 DEF CopyAt
  <2>4. \A g \in Files : Accounted(g) => Accounted(g)'
    BY <2>1 DEF Accounted
  <2>5. \A v \in Replicas : pc'[v] = "idle" => ~held'[v]
    BY <2>1 DEF LossInv
  <2>6. \A v \in Replicas : Settling(v)' =>
          Settling(v) /\ file'[v] = file[v] /\ level'[v] = level[v]
    BY <2>1 DEF Settling
  <2> QED
    BY <1>t, <2>3, <2>4, <2>5, <2>6, LossFrame
<1>21. ASSUME NEW w \in Replicas, HandlerTimeout(w) PROVE LossInv'
  <2>1. UNCHANGED <<pc, queue, delayed, file, level, held, results, dropped>>
    BY <1>21 DEF HandlerTimeout
  <2> QED
    BY <1>t, <2>1, QuietRest
<1>22. ASSUME NEW c \in Cases, CancelCase(c) \/ SetRedisKey(c) PROVE LossInv'
  <2>1. UNCHANGED <<pc, queue, delayed, file, level, held, results, dropped>>
    BY <1>22 DEF CancelCase, SetRedisKey
  <2> QED
    BY <1>t, <2>1, QuietRest
<1>23. ASSUME NEW w \in Replicas, NEW c \in Cases, HandleCancelMessage(w, c)
       PROVE LossInv'
  <2>1. UNCHANGED <<pc, queue, delayed, file, level, held, results, dropped>>
    BY <1>23 DEF HandleCancelMessage
  <2> QED
    BY <1>t, <2>1, QuietRest
<1>24. ASSUME NEW f \in Files, NEW d \in Contents \cup {"gone", "symlink"},
             TempPathChanges(f, d)
       PROVE LossInv'
  <2>1. UNCHANGED <<pc, queue, delayed, file, level, held, results, dropped>>
    BY <1>24 DEF TempPathChanges
  <2> QED
    BY <1>t, <2>1, QuietRest
<1>25. CASE UNCHANGED vars
  BY <1>t, <1>25, QuietRest DEF vars
<1>26. ASSUME NEW w \in Replicas,
              \/ ReadSet(w) \/ OtherCaseCancelled(w)
              \/ \E c \in Cases : Lapse(w, c)
       PROVE  LossInv'
  <2>1. UNCHANGED <<pc, queue, delayed, file, level, held, results, dropped>>
    BY <1>26 DEF ReadSet, OtherCaseCancelled, Lapse
  <2> QED
    BY <1>t, <2>1, QuietRest
<1> QED
  BY <1>1, <1>2, <1>3, <1>4, <1>5, <1>6, <1>7, <1>8, <1>9, <1>10, <1>11,
     <1>12, <1>13, <1>14, <1>15, <1>16, <1>17, <1>18, <1>19, <1>20, <1>21,
     <1>22, <1>23, <1>24, <1>25, <1>26 DEF Next, Work

\* Whatever fails, no uploaded file disappears from the system without a
\* published result or one of the discards of the code.
THEOREM NoSilentLossHolds == Spec => []NoSilentLoss
<1>1. Init => TypeInv
  BY InitTyped
<1>2. Init => LossInv
  <2> SUFFICES ASSUME Init PROVE LossInv
    OBVIOUS
  <2>1. 0 \in Levels
    BY ScanPipelineAssumption DEF Levels
  <2>2. \A f \in Files : queue[f][0] > 0
    BY <2>1 DEF Init
  <2>3. NoSilentLoss
    BY <2>1, <2>2 DEF NoSilentLoss, Live, CopyAt
  <2> QED
    BY <2>3 DEF Init, LossInv, Settling
<1>3. LossInv => NoSilentLoss
  BY DEF LossInv
<1> QED
  BY <1>1, <1>2, <1>3, TypeStep, LossStep, PTL DEF Spec
=============================================================================
