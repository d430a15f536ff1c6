---------------------- MODULE ScanPipelineCause_proofs ----------------------
(***************************************************************************)
(* The service deletes a temp file only for cause.  The decision to delete *)
(* is taken at one step (PostCheck, Recheck) and carried out at a later    *)
(* one (RemoveInfected, Discard), with cancellations, crashes, other       *)
(* replicas and other users of the share in between; CauseInv carries the  *)
(* reason, and what is known of the path, from one to the other.           *)
(*                                                                         *)
(* The converse is at the end: a cancellation the replica's set held when  *)
(* clamd answered keeps the verdict from being published for as long as    *)
(* the set can be expected to hold it.  HonourInv carries the knowledge    *)
(* from ScanStream through the two steps of the last lookup.               *)
(***************************************************************************)
EXTENDS ScanPipeline_proofs

\* Stages with the file opened and its fate not yet decided, or decided by a
\* cancellation.
Reading == {"started", "hash", "recheck", "clamd", "postcheck", "discard"}

\* The set, and what a running lookup has read of it, is of real cancellations.
Informed(w) ==
  /\ current[w] \cup prev[w] \subseteq cancelled
  /\ seen[w] \in {"current", "prev"} => CaseOf[file[w]] \in cancelled

\* What is at the path is what was opened, unless that changed.
Judged(w) ==
  opened[w] # "none" /\ ~moved[w] => disk[file[w]] \in {opened[w], "gone"}

\* What the stage says of the file and of the lookup.
Staged(w) ==
  /\ pc[w] = "idle" => opened[w] = "none" /\ seen[w] = "unread"
  /\ pc[w] \in Reading => opened[w] # "none"
  /\ pc[w] = "remove" => opened[w] = "infected"
  /\ pc[w] = "discard" => CaseOf[file[w]] \in cancelled

CauseInv ==
  /\ RemovedForCause
  /\ redis \subseteq cancelled /\ cancelQ \subseteq cancelled
  /\ \A w \in Replicas : Informed(w) /\ Judged(w) /\ Staged(w)

\* The step leaves the replica alone; its path may become empty.
Untouched(v) ==
  /\ pc'[v] = pc[v] /\ file'[v] = file[v]
  /\ opened'[v] = opened[v] /\ moved'[v] = moved[v]
  /\ seen'[v] = seen[v] /\ current'[v] = current[v] /\ prev'[v] = prev[v]
  /\ disk'[file[v]] \in {disk[file[v]], "gone"}

\* A step keeps the invariant when it deletes for cause, forgets no cancellation,
\* and every replica it touches has what the invariant asks for.
LEMMA CauseFrame ==
  ASSUME CauseInv, RemovedForCause', cancelled \subseteq cancelled',
         redis' \subseteq cancelled', cancelQ' \subseteq cancelled',
         \A v \in Replicas :
           Untouched(v) \/ (Informed(v)' /\ Judged(v)' /\ Staged(v)')
  PROVE  CauseInv'
<1>1. ASSUME NEW v \in Replicas, Untouched(v)
      PROVE  Informed(v)' /\ Judged(v)' /\ Staged(v)'
  <2>1. Informed(v) /\ Judged(v) /\ Staged(v)
    BY DEF CauseInv
  <2>2. Informed(v)'
    BY <1>1, <2>1 DEF Informed, Untouched
  <2>3. Judged(v)'
    BY <1>1, <2>1 DEF Judged, Untouched
  <2>4. Staged(v)'
    BY <1>1, <2>1 DEF Staged, Untouched
  <2> QED
    BY <2>2, <2>3, <2>4
<1> QED
  BY <1>1 DEF CauseInv

\* A handler's move: what it asks of the acting replica alone.
LEMMA CauseMove ==
  ASSUME TypeOK, CauseInv, RemovedForCause', NEW w \in Replicas,
         NEW stage \in Stages \ {"idle"}, Goto(w, stage),
         UNCHANGED <<cancelled, redis, cancelQ, file>>,
         \A f \in Files : disk'[f] \in {disk[f], "gone"},
         \A v \in Replicas \ {w} :
           /\ opened'[v] = opened[v] /\ moved'[v] = moved[v]
           /\ seen'[v] = seen[v] /\ current'[v] = current[v] /\ prev'[v] = prev[v],
         Informed(w)', Judged(w)',
         stage \in Reading => opened'[w] # "none",
         stage = "remove" => opened'[w] = "infected",
         stage = "discard" => CaseOf[file[w]] \in cancelled
  PROVE  CauseInv'
<1>1. \A v \in Replicas : pc'[v] = IF v = w THEN stage ELSE pc[v]
  BY GotoType
<1>2. \A v \in Replicas : file[v] \in Files
  BY DEF TypeOK
<1>3. \A v \in Replicas \ {w} : Untouched(v)
  BY <1>1, <1>2 DEF Untouched
<1>4. Staged(w)'
  BY <1>1 DEF Staged
<1>5. redis \subseteq cancelled /\ cancelQ \subseteq cancelled
  BY DEF CauseInv
<1> QED
  BY <1>3, <1>4, <1>5, CauseFrame

\* A move that looks at neither the set nor the path.
LEMMA BlindMove ==
  ASSUME TypeOK, CauseInv, NEW w \in Replicas,
         NEW stage \in Stages \ {"idle", "remove", "discard"}, Goto(w, stage),
         UNCHANGED <<cancelled, redis, cancelQ, file, disk, removed, opened, moved,
                     current, prev, seen>>,
         stage \in Reading => opened[w] # "none"
  PROVE  CauseInv'
<1>1. RemovedForCause'
  BY DEF CauseInv, RemovedForCause
<1>2. Informed(w)' /\ Judged(w)'
  BY DEF CauseInv, Informed, Judged
<1>3. stage # "remove" /\ stage # "discard" /\ stage \in Stages \ {"idle"}
  OBVIOUS
<1> QED
  BY <1>1, <1>2, <1>3, CauseMove

\* A failed attempt.
LEMMA FailMove ==
  ASSUME TypeOK, CauseInv, NEW w \in Replicas, Fail(w),
         UNCHANGED <<cancelled, redis, cancelQ, file, disk, removed, current, prev,
                     seen>>
  PROVE  CauseInv'
<1>1. RemovedForCause'
  BY DEF CauseInv, RemovedForCause
<1>2. opened'[w] = "none" /\ Goto(w, "failed") /\ "failed" \in Stages \ {"idle"}
  BY DEF Fail, TypeOK, Stages
<1>3. Informed(w)' /\ Judged(w)'
  BY <1>2 DEF CauseInv, Informed, Judged
<1>4. \A v \in Replicas \ {w} : opened'[v] = opened[v] /\ moved'[v] = moved[v]
  <2>1. /\ opened' = [opened EXCEPT ![w] = "none"]
        /\ moved' = [moved EXCEPT ![w] = FALSE]
    BY DEF Fail
  <2>2. /\ opened \in [Replicas -> Contents \cup {"none"}]
        /\ moved \in [Replicas -> BOOLEAN]
    BY DEF TypeOK
  <2>3. \A v \in Replicas \ {w} : opened'[v] = opened[v]
    BY <2>1, <2>2
  <2>4. \A v \in Replicas \ {w} : moved'[v] = moved[v]
    BY <2>1, <2>2
  <2> QED
    BY <2>3, <2>4
<1>5. /\ ("failed" \in Reading => opened'[w] # "none")
      /\ ("failed" = "remove" => opened'[w] = "infected")
      /\ ("failed" = "discard" => CaseOf[file[w]] \in cancelled)
  BY DEF Reading
<1> QED
  BY <1>1, <1>2, <1>3, <1>4, <1>5, CauseMove

\* A replica that becomes idle, its set kept or emptied.
LEMMA IdleMove ==
  ASSUME TypeOK, CauseInv, NEW w \in Replicas, Idle(w),
         UNCHANGED <<cancelled, redis, cancelQ, disk, removed>>,
         current'[w] \cup prev'[w] \subseteq cancelled,
         \A v \in Replicas \ {w} : current'[v] = current[v] /\ prev'[v] = prev[v]
  PROVE  CauseInv'
<1>1. \A v \in Replicas : pc'[v] = IF v = w THEN "idle" ELSE pc[v]
  BY IdleType
<1>2. /\ opened' = [opened EXCEPT ![w] = "none"]
      /\ moved' = [moved EXCEPT ![w] = FALSE]
      /\ seen' = [seen EXCEPT ![w] = "unread"]
      /\ file' = [file EXCEPT ![w] = AnyFile]
  BY DEF Idle
<1>3. /\ opened \in [Replicas -> Contents \cup {"none"}]
      /\ moved \in [Replicas -> BOOLEAN]
      /\ seen \in [Replicas -> Findings]
      /\ file \in [Replicas -> Files]
  BY DEF TypeOK
<1>4. \A v \in Replicas \ {w} : moved'[v] = moved[v]
  BY <1>2, <1>3
<1>5. \A v \in Replicas \ {w} :
        opened'[v] = opened[v] /\ seen'[v] = seen[v] /\ file'[v] = file[v]
  BY <1>2, <1>3
<1>6. opened'[w] = "none" /\ seen'[w] = "unread"
  BY <1>2, <1>3
<1>7. \A v \in Replicas \ {w} : Untouched(v)
  BY <1>1, <1>4, <1>5 DEF Untouched
<1>8. Informed(w)' /\ Judged(w)'
  BY <1>6 DEF Informed, Judged
<1>9. Staged(w)'
  BY <1>1, <1>6 DEF Staged, Reading
<1>10. redis \subseteq cancelled /\ cancelQ \subseteq cancelled /\ RemovedForCause'
  BY DEF CauseInv, RemovedForCause
<1> QED
  BY <1>7, <1>8, <1>9, <1>10, CauseFrame

\* A lookup learns of real cancellations only, and answers yes only to one.
LEMMA LookupSound ==
  ASSUME TypeOK, CauseInv, NEW w \in Replicas, NEW yes \in BOOLEAN,
         IsCancelled(w, yes), UNCHANGED <<cancelled, file>>
  PROVE  /\ Informed(w)'
         /\ \A v \in Replicas \ {w} :
              seen'[v] = seen[v] /\ current'[v] = current[v] /\ prev'[v] = prev[v]
         /\ yes => CaseOf[file[w]] \in cancelled
<1>1. /\ current \in [Replicas -> SUBSET Cases]
      /\ seen \in [Replicas -> Findings]
  BY DEF TypeOK
<1>2. /\ current[w] \cup prev[w] \subseteq cancelled /\ redis \subseteq cancelled
      /\ seen[w] \in {"current", "prev"} => CaseOf[file[w]] \in cancelled
  BY DEF CauseInv, Informed
<1>3. UNCHANGED prev /\ seen' = [seen EXCEPT ![w] = "unread"]
  BY DEF IsCancelled
<1>4. \/ UNCHANGED current
      \/ /\ current' = [current EXCEPT ![w] = current[w] \cup {CaseOf[file[w]]}]
         /\ CaseOf[file[w]] \in prev[w] \cup redis
  BY DEF IsCancelled
<1>5. yes => CaseOf[file[w]] \in prev[w] \cup redis \/ seen[w] = "current"
  BY DEF IsCancelled
<1>6. \A v \in Replicas \ {w} :
        seen'[v] = seen[v] /\ current'[v] = current[v] /\ prev'[v] = prev[v]
  BY <1>1, <1>3, <1>4
<1>7. current'[w] \subseteq cancelled /\ seen'[w] = "unread"
  BY <1>1, <1>2, <1>3, <1>4
<1> QED
  BY <1>2, <1>3, <1>5, <1>6, <1>7 DEF Informed

\* Deleting the file of a delivery, with a reason.
LEMMA DeleteForCause ==
  ASSUME TypeOK, CauseInv, NEW w \in Replicas, RemoveFile(w),
         opened[w] # "none",
         opened[w] = "infected" \/ CaseOf[file[w]] \in cancelled,
         NEW stage \in {"ack", "publish"}, Goto(w, stage),
         UNCHANGED <<cancelled, redis, cancelQ, file, opened, moved, current, prev,
                     seen>>
  PROVE  CauseInv'
<1>1. /\ stage \in Stages \ {"idle"} /\ stage \notin Reading
      /\ stage # "remove" /\ stage # "discard"
  BY DEF Stages, Reading
<1>2. disk \in [Files -> PathStates] /\ file[w] \in Files
  BY DEF TypeOK
<1>3. \A f \in Files : disk'[f] \in {disk[f], "gone"}
  <2>1. disk' = disk \/ disk' = [disk EXCEPT ![file[w]] = "gone"]
    BY DEF RemoveFile
  <2> QED
    BY <1>2, <2>1
<1>4. Judged(w) /\ Informed(w)
  BY DEF CauseInv
<1>5. Judged(w)' /\ Informed(w)'
  BY <1>2, <1>3, <1>4 DEF Judged, Informed
<1>6. RemovedForCause'
  <2>1. DEFINE what == IF moved[w] THEN "changed" ELSE disk[file[w]]
  <2>2. \/ removed' = removed
        \/ disk[file[w]] # "gone" /\ removed' = removed \cup {<<file[w], what, opened[w]>>}
    BY DEF RemoveFile
  <2>3. disk[file[w]] # "gone" => what \in {opened[w], "changed"}
    BY <1>4 DEF Judged
  <2> HIDE DEF what
  <2>4. ASSUME NEW r \in removed'
        PROVE  /\ r[3] = "infected" \/ CaseOf[r[1]] \in cancelled'
               /\ r[2] \in {r[3], "changed"}
    <3>1. CASE r \in removed
      BY <3>1 DEF CauseInv, RemovedForCause
    <3>2. CASE r \notin removed
      BY <2>2, <2>3, <3>2
    <3> QED
      BY <3>1, <3>2
  <2> QED
    BY <2>4 DEF RemovedForCause
<1> QED
  BY <1>1, <1>3, <1>5, <1>6, CauseMove

\* One step keeps the invariant.
LEMMA CauseStep == TypeOK /\ CauseInv /\ [Next]_vars => CauseInv'
<1> SUFFICES ASSUME TypeOK, CauseInv, [Next]_vars PROVE CauseInv'
  OBVIOUS
<1> USE DEF broker, cancelling, storage, delivery, sets, memory, history, checks
<1>p. {"precheck", "lstat", "open", "reject", "started", "hash", "recheck",
       "clamd", "postcheck", "publish", "failed", "notify", "ack", "nack"}
        \subseteq Stages \ {"idle", "remove", "discard"}
  BY DEF Stages
<1>q. \A v \in Replicas : Informed(v) /\ Judged(v) /\ Staged(v)
  BY DEF CauseInv
<1>r. redis \subseteq cancelled /\ cancelQ \subseteq cancelled /\ RemovedForCause
  BY DEF CauseInv
<1>1. ASSUME NEW w \in Replicas, NEW f \in Files, NEW n \in Levels,
             Receive(w, f, n)
      PROVE  CauseInv'
  <2>1. PICK stage \in {"ack", "precheck"} : Goto(w, stage)
    BY <1>1 DEF Receive
  <2>2. \A v \in Replicas : pc'[v] = IF v = w THEN stage ELSE pc[v]
    <3>1. stage \in Stages
      BY <1>p, <2>1
    <3> QED
      BY <2>1, <3>1, GotoType
  <2>3. \A v \in Replicas \ {w} : file'[v] = file[v]
    <3>1. file' = [file EXCEPT ![w] = f] /\ file \in [Replicas -> Files]
      BY <1>1 DEF Receive, TypeOK
    <3> QED
      BY <3>1
  <2>4. /\ UNCHANGED <<cancelled, redis, cancelQ, removed, disk, opened, moved,
                       seen, current, prev>>
        /\ pc[w] = "idle"
    BY <1>1 DEF Receive, At
  <2>5. \A v \in Replicas \ {w} : Untouched(v)
    BY <2>2, <2>3, <2>4 DEF Untouched
  <2>6. opened'[w] = "none" /\ seen'[w] = "unread"
    BY <1>q, <2>4 DEF Staged
  <2>7. Informed(w)' /\ Judged(w)'
    BY <1>q, <2>4, <2>6 DEF Informed, Judged
  <2>8. Staged(w)'
    BY <2>2, <2>6 DEF Staged, Reading
  <2>9. RemovedForCause'
    BY <1>r, <2>4 DEF RemovedForCause
  <2> QED
    BY <1>r, <2>4, <2>5, <2>7, <2>8, <2>9, CauseFrame
<1>2. ASSUME NEW w \in Replicas, NEW yes \in BOOLEAN, IsCancelled(w, yes),
             NEW stage \in Stages \ {"idle"}, Goto(w, stage),
             UNCHANGED <<cancelled, redis, cancelQ, file, disk, removed, opened,
                         moved>>,
             stage \in Reading => opened[w] # "none",
             stage = "remove" => opened[w] = "infected",
             stage = "discard" => yes
      PROVE  CauseInv'
  <2>1. /\ Informed(w)'
        /\ \A v \in Replicas \ {w} :
             seen'[v] = seen[v] /\ current'[v] = current[v] /\ prev'[v] = prev[v]
        /\ yes => CaseOf[file[w]] \in cancelled
    BY <1>2, LookupSound
  <2>2. Judged(w)'
    BY <1>2, <1>q DEF Judged
  <2>3. RemovedForCause'
    BY <1>2, <1>r DEF RemovedForCause
  <2> QED
    BY <1>2, <2>1, <2>2, <2>3, CauseMove
<1>3. ASSUME NEW w \in Replicas, PreCheck(w) PROVE CauseInv'
  <2>1. PICK yes \in BOOLEAN, stage \in {"ack", "lstat"} :
          IsCancelled(w, yes) /\ Goto(w, stage)
    BY <1>3 DEF PreCheck, Drop
  <2>2. stage \in Stages \ {"idle"} /\ stage \notin Reading
          /\ stage # "remove" /\ stage # "discard"
    BY <2>1 DEF Stages, Reading
  <2>3. UNCHANGED <<cancelled, redis, cancelQ, file, disk, removed, opened, moved>>
    BY <1>3 DEF PreCheck
  <2> QED
    BY <1>2, <2>1, <2>2, <2>3
<1>4. ASSUME NEW w \in Replicas, Recheck(w) \/ PostCheck(w) PROVE CauseInv'
  <2>1. UNCHANGED <<cancelled, redis, cancelQ, file, disk, removed, opened, moved>>
    BY <1>4 DEF Recheck, PostCheck
  <2>2. opened[w] # "none"
    BY <1>4, <1>q DEF Recheck, PostCheck, At, Staged, Reading
  <2>3. PICK yes \in BOOLEAN, stage \in {"discard", "clamd", "remove", "publish"} :
          /\ IsCancelled(w, yes) /\ Goto(w, stage)
          /\ stage = "discard" => yes
          /\ stage = "remove" => opened[w] = "infected"
    <3>1. CASE Recheck(w)
      <4>1. CASE IsCancelled(w, TRUE) /\ Goto(w, "discard")
        BY <4>1
      <4>2. CASE IsCancelled(w, FALSE) /\ Goto(w, "clamd")
        BY <4>2
      <4> QED
        BY <3>1, <4>1, <4>2 DEF Recheck
    <3>2. CASE PostCheck(w)
      <4>1. CASE IsCancelled(w, TRUE) /\ Goto(w, "discard")
        BY <4>1
      <4>2. CASE /\ IsCancelled(w, FALSE)
                 /\ Goto(w, IF opened[w] = "infected" THEN "remove" ELSE "publish")
        BY <4>2
      <4> QED
        BY <3>2, <4>1, <4>2 DEF PostCheck
    <3> QED
      BY <1>4, <3>1, <3>2
  <2>4. stage \in Stages \ {"idle"}
    BY DEF Stages
  <2> QED
    BY <1>2, <2>1, <2>2, <2>3, <2>4
<1>5. ASSUME NEW w \in Replicas,
             \/ Lstat(w) \/ Reject(w) \/ Start(w) \/ PublishVerdict(w)
             \/ ScheduleRetry(w) \/ NotifyRetry(w) \/ DeadLetter(w)
      PROVE  CauseInv'
  <2>1. UNCHANGED <<cancelled, redis, cancelQ, file, disk, removed, opened, moved,
                    current, prev, seen>>
    BY <1>5 DEF Lstat, Reject, Start, PublishVerdict, ScheduleRetry, NotifyRetry,
                DeadLetter
  <2>2. CASE Start(w)
    <3>1. Goto(w, "hash") /\ opened[w] # "none"
      BY <1>q, <2>2 DEF Start, At, Staged, Reading
    <3> QED
      BY <1>p, <2>1, <3>1, BlindMove
  <2>3. CASE ~Start(w)
    <3>1. PICK stage \in {"ack", "nack", "notify", "reject", "open"} :
            Goto(w, stage)
      <4>1. CASE Lstat(w) \/ Reject(w)
        BY <4>1 DEF Lstat, Reject, Unreadable, Drop
      <4>2. CASE \/ PublishVerdict(w) \/ ScheduleRetry(w) \/ NotifyRetry(w)
                 \/ DeadLetter(w)
        BY <4>2 DEF PublishVerdict, ScheduleRetry, NotifyRetry, DeadLetter
      <4> QED
        BY <1>5, <2>3, <4>1, <4>2
    <3>2. stage \notin Reading
      BY DEF Reading
    <3> QED
      BY <1>p, <2>1, <3>1, <3>2, BlindMove
  <2> QED
    BY <2>2, <2>3
<1>6. ASSUME NEW w \in Replicas, Hash(w) \/ ScanStream(w) PROVE CauseInv'
  <2>1. UNCHANGED <<cancelled, redis, cancelQ, file, disk, removed, current, prev,
                    seen>>
    BY <1>6 DEF Hash, ScanStream
  <2>2. CASE Fail(w)
    BY <2>1, <2>2, FailMove
  <2>3. CASE ~Fail(w)
    <3>1. PICK stage \in {"recheck", "postcheck"} :
            Goto(w, stage) /\ UNCHANGED <<opened, moved>>
      BY <1>6, <2>3 DEF Hash, ScanStream
    <3>2. opened[w] # "none"
      BY <1>6, <1>q DEF Hash, ScanStream, At, Staged, Reading
    <3> QED
      BY <1>p, <2>1, <3>1, <3>2, BlindMove
  <2> QED
    BY <2>2, <2>3
<1>7. ASSUME NEW w \in Replicas, Open(w) PROVE CauseInv'
  <2>1. UNCHANGED <<cancelled, redis, cancelQ, file, disk, removed, moved, current,
                    prev, seen>>
    BY <1>7 DEF Open
  <2>2. CASE UNCHANGED opened /\ \E stage \in {"ack", "reject"} : Goto(w, stage)
    <3>1. PICK stage \in {"ack", "reject"} : Goto(w, stage)
      BY <2>2
    <3>2. stage \notin Reading
      BY DEF Reading
    <3> QED
      BY <1>p, <2>1, <2>2, <3>1, <3>2, BlindMove
  <2>3. CASE /\ disk[file[w]] \in Contents
             /\ opened' = [opened EXCEPT ![w] = disk[file[w]]]
             /\ Goto(w, IF level[w] = 0 THEN "started" ELSE "hash")
    <3>1. opened \in [Replicas -> Contents \cup {"none"}]
      BY DEF TypeOK
    <3>2. /\ opened'[w] = disk[file[w]]
          /\ \A v \in Replicas \ {w} : opened'[v] = opened[v]
      BY <2>3, <3>1
    <3>3. opened'[w] # "none"
      BY <2>3, <3>2 DEF Contents
    <3>4. PICK stage \in {"started", "hash"} : Goto(w, stage)
      BY <2>3
    <3>5. stage \in Stages \ {"idle"} /\ stage # "remove" /\ stage # "discard"
      BY <3>4 DEF Stages
    <3>6. Judged(w)' /\ Informed(w)'
      BY <1>q, <2>1, <3>2 DEF Judged, Informed
    <3>7. RemovedForCause'
      BY <1>r, <2>1 DEF RemovedForCause
    <3> QED
      BY <2>1, <3>2, <3>3, <3>4, <3>5, <3>6, <3>7, CauseMove
  <2> QED
    BY <1>7, <2>2, <2>3 DEF Open, Unreadable, Drop
<1>8. ASSUME NEW w \in Replicas, Discard(w) \/ RemoveInfected(w) PROVE CauseInv'
  <2>1. PICK stage \in {"ack", "publish"} : Goto(w, stage)
    BY <1>8 DEF Discard, RemoveInfected, Drop
  <2>2. /\ RemoveFile(w)
        /\ UNCHANGED <<cancelled, redis, cancelQ, file, opened, moved, current, prev,
                       seen>>
    BY <1>8 DEF Discard, RemoveInfected
  <2>3. /\ opened[w] # "none"
        /\ opened[w] = "infected" \/ CaseOf[file[w]] \in cancelled
    BY <1>8, <1>q DEF Discard, RemoveInfected, At, Staged, Reading
  <2> QED
    BY <2>1, <2>2, <2>3, DeleteForCause
<1>9. ASSUME NEW w \in Replicas, Ack(w) \/ Nack(w) \/ Crash(w) PROVE CauseInv'
  <2>1. Idle(w) /\ UNCHANGED <<cancelled, redis, cancelQ, disk, removed>>
    BY <1>9 DEF Ack, Nack, Crash
  <2>2. \/ UNCHANGED <<current, prev>>
        \/ /\ current' = [current EXCEPT ![w] = {}]
           /\ prev' = [prev EXCEPT ![w] = {}]
    BY <1>9 DEF Ack, Nack, Crash
  <2>3. /\ current \in [Replicas -> SUBSET Cases]
        /\ prev \in [Replicas -> SUBSET Cases]
    BY DEF TypeOK
  <2>4. /\ current'[w] \cup prev'[w] \subseteq cancelled
        /\ \A v \in Replicas \ {w} : current'[v] = current[v] /\ prev'[v] = prev[v]
    BY <1>q, <2>2, <2>3 DEF Informed
  <2> QED
    BY <2>1, <2>4, IdleMove
<1>10. ASSUME UNCHANGED <<pc, file, opened, moved, disk, removed>>,
              \A v \in Replicas : Informed(v)',
              \A v \in Replicas : pc[v] = "idle" => seen'[v] = "unread",
              cancelled \subseteq cancelled',
              redis' \subseteq cancelled', cancelQ' \subseteq cancelled'
       PROVE  CauseInv'
  <2>1. RemovedForCause'
    BY <1>10, <1>r DEF RemovedForCause
  <2>2. \A v \in Replicas : Judged(v)' /\ Staged(v)'
    BY <1>10, <1>q DEF Judged, Staged
  <2> QED
    BY <1>10, <2>1, <2>2, CauseFrame
<1>11. ASSUME NEW w \in Replicas, ReadSet(w) PROVE CauseInv'
  <2>1. /\ UNCHANGED <<pc, file, opened, moved, disk, removed, cancelled, redis,
                       cancelQ, current, prev>>
        /\ seen' = [seen EXCEPT ![w] = Lookup(w, CaseOf[file[w]])]
        /\ pc[w] # "idle"
    BY <1>11 DEF ReadSet
  <2>2. seen \in [Replicas -> Findings]
    BY DEF TypeOK
  <2>3. /\ seen'[w] = Lookup(w, CaseOf[file[w]])
        /\ \A v \in Replicas \ {w} : seen'[v] = seen[v]
    BY <2>1, <2>2
  <2>4. Lookup(w, CaseOf[file[w]]) \in {"current", "prev"} =>
          CaseOf[file[w]] \in current[w] \cup prev[w]
    BY DEF Lookup
  <2>5. \A v \in Replicas : Informed(v)'
    BY <1>q, <2>1, <2>3, <2>4 DEF Informed
  <2>6. \A v \in Replicas : pc[v] = "idle" => seen'[v] = "unread"
    BY <1>q, <2>1, <2>3 DEF Staged
  <2> QED
    BY <1>10, <1>r, <2>1, <2>5, <2>6
<1>12. ASSUME NEW w \in Replicas,
              \/ OtherCaseCancelled(w)
              \/ \E c \in Cases : HandleCancelMessage(w, c) \/ Lapse(w, c)
       PROVE  CauseInv'
  <2>1. /\ UNCHANGED <<pc, file, opened, moved, disk, removed, cancelled, redis, seen>>
        /\ cancelQ' \subseteq cancelQ
    BY <1>12 DEF OtherCaseCancelled, HandleCancelMessage, Lapse
  <2>2. PICK K \in SUBSET cancelled :
          /\ current' = [current EXCEPT ![w] = K]
          /\ prev' \in {prev, [prev EXCEPT ![w] = current[w]]}
               \/ \E c \in Cases : prev' = [prev EXCEPT ![w] = prev[w] \ {c}]
    <3>1. current[w] \subseteq cancelled /\ current \in [Replicas -> SUBSET Cases]
      BY <1>q DEF Informed, TypeOK
    <3>2. CASE OtherCaseCancelled(w)
      <4>1. {} \in SUBSET cancelled
        OBVIOUS
      <4> QED
        BY <3>2, <4>1 DEF OtherCaseCancelled
    <3>3. ASSUME NEW c \in Cases, HandleCancelMessage(w, c)
          PROVE  \E K \in SUBSET cancelled :
                   /\ current' = [current EXCEPT ![w] = K]
                   /\ prev' \in {prev, [prev EXCEPT ![w] = current[w]]}
      <4>1. c \in cancelled
        BY <1>r, <3>3 DEF HandleCancelMessage
      <4>2. {c} \in SUBSET cancelled /\ current[w] \cup {c} \in SUBSET cancelled
        BY <3>1, <4>1
      <4>3. MarkCancelled(w, c)
        BY <3>3 DEF HandleCancelMessage
      <4> QED
        BY <4>2, <4>3 DEF MarkCancelled
    <3>4. ASSUME NEW c \in Cases, Lapse(w, c)
          PROVE  \E K \in SUBSET cancelled :
                   /\ current' = [current EXCEPT ![w] = K]
                   /\ prev' = [prev EXCEPT ![w] = prev[w] \ {c}]
      <4>1. current[w] \ {c} \in SUBSET cancelled /\ current[w] \in SUBSET cancelled
        BY <3>1
      <4>2. current = [current EXCEPT ![w] = current[w]]
        BY <3>1
      <4> QED
        BY <3>4, <4>1, <4>2 DEF Lapse
    <3> QED
      BY <1>12, <3>2, <3>3, <3>4
  <2>3. /\ current \in [Replicas -> SUBSET Cases]
        /\ prev \in [Replicas -> SUBSET Cases]
    BY DEF TypeOK
  <2>4. \A v \in Replicas : current'[v] \cup prev'[v] \subseteq cancelled
    <3>1. \A v \in Replicas : current[v] \subseteq cancelled /\ prev[v] \subseteq cancelled
      BY <1>q DEF Informed
    <3>2. \A v \in Replicas : current'[v] \subseteq cancelled
      BY <2>2, <2>3, <3>1
    <3>3. \A v \in Replicas : prev'[v] \subseteq cancelled
      BY <2>2, <2>3, <3>1
    <3> QED
      BY <3>2, <3>3
  <2>5. \A v \in Replicas : Informed(v)'
    BY <1>q, <2>1, <2>4 DEF Informed
  <2>6. \A v \in Replicas : pc[v] = "idle" => seen'[v] = "unread"
    BY <1>q, <2>1 DEF Staged
  <2> QED
    BY <1>10, <1>r, <2>1, <2>5, <2>6
<1>13. ASSUME UNCHANGED <<pc, file, opened, moved, disk, removed, seen, current, prev>>,
              cancelled \subseteq cancelled',
              redis' \subseteq cancelled', cancelQ' \subseteq cancelled'
       PROVE  CauseInv'
  <2>1. \A v \in Replicas : Informed(v)'
    BY <1>13, <1>q DEF Informed
  <2>2. \A v \in Replicas : pc[v] = "idle" => seen'[v] = "unread"
    BY <1>13, <1>q DEF Staged
  <2> QED
    BY <1>10, <1>13, <2>1, <2>2
<1>14. ASSUME NEW c \in Cases, CancelCase(c) \/ SetRedisKey(c) PROVE CauseInv'
  BY <1>13, <1>14, <1>r DEF CancelCase, SetRedisKey
<1>15. ASSUME NEW w \in Replicas, ConnectionLost(w) \/ HandlerTimeout(w)
       PROVE  CauseInv'
  BY <1>13, <1>15, <1>r DEF ConnectionLost, HandlerTimeout
<1>16. ASSUME NEW f \in Files, NEW n \in Levels, RetryDue(f, n) PROVE CauseInv'
  BY <1>13, <1>16, <1>r DEF RetryDue
<1>17. ASSUME NEW f \in Files, NEW d \in Contents \cup {"gone", "symlink"},
              TempPathChanges(f, d)
       PROVE  CauseInv'
  <2>1. /\ UNCHANGED <<pc, file, opened, removed, cancelled, redis, cancelQ, seen,
                       current, prev>>
        /\ disk' = [disk EXCEPT ![f] = d]
    BY <1>17 DEF TempPathChanges
  <2>2. \A v \in Replicas :
          moved'[v] <=> (moved[v] \/ (file[v] = f /\ opened[v] # "none"))
    BY <1>17 DEF TempPathChanges
  <2>3. RemovedForCause'
    BY <1>r, <2>1 DEF RemovedForCause
  <2>4. ASSUME NEW v \in Replicas PROVE Judged(v)'
    <3>1. disk \in [Files -> PathStates] /\ file[v] \in Files
      BY DEF TypeOK
    <3>2. opened[v] # "none" /\ ~moved'[v] => file[v] # f /\ ~moved[v]
      BY <2>2
    <3>3. file[v] # f => disk'[file[v]] = disk[file[v]]
      BY <2>1, <3>1
    <3> QED
      BY <1>q, <2>1, <3>2, <3>3 DEF Judged
  <2>5. \A v \in Replicas : Informed(v)' /\ Staged(v)'
    BY <1>q, <2>1 DEF Informed, Staged
  <2> QED
    BY <1>r, <2>1, <2>3, <2>4, <2>5, CauseFrame
<1>18. CASE UNCHANGED vars
  BY <1>13, <1>18, <1>r DEF vars
<1> QED
  BY <1>1, <1>3, <1>4, <1>5, <1>6, <1>7, <1>8, <1>9, <1>11, <1>12, <1>14, <1>15,
     <1>16, <1>17, <1>18 DEF Next, Work

\* Across all replicas, redeliveries, cancellations and changes of the share, the
\* service deletes only after it found the file infected or its case cancelled,
\* and deletes the file it judged unless the path was changed after the open
\* (removeFileWithRetry, called from runScan alone).
THEOREM RemovedForCauseHolds == Spec => []RemovedForCause
<1>1. Init => CauseInv
  <2> SUFFICES ASSUME Init PROVE CauseInv
    OBVIOUS
  <2>1. \A w \in Replicas : Informed(w) /\ Judged(w) /\ Staged(w)
    BY DEF Init, Informed, Judged, Staged, Reading
  <2> QED
    BY <2>1 DEF Init, CauseInv, RemovedForCause
<1>2. CauseInv => RemovedForCause
  BY DEF CauseInv
<1> QED
  BY <1>1, <1>2, TypeCorrect, CauseStep, PTL DEF Spec

-----------------------------------------------------------------------------
(* A cancellation known in time is honoured *)

\* As long as the set can be expected to hold the case, a lookup that has not
\* begun will find it, and one that has begun will say yes.
StillHeld(w) ==
  LET c == CaseOf[file[w]]
  IN /\ seen[w] # "absent"
     /\ seen[w] = "unread" => /\ c \in current[w] \cup prev[w]
                              /\ lasts[w] = 2 => c \in current[w]
     /\ seen[w] = "prev" => c \in prev[w] /\ lasts[w] = 1

\* What holds of a replica at the last check.
Aware(w) ==
  /\ lasts[w] > 0 => StillHeld(w)
  /\ knowable[w] => CaseOf[file[w]] \in redis

Honoured(w) ==
  /\ lasts[w] = 0
  /\ RedisEnabled /\ knowable[w] => faults > 0 \/ expired[w]

HonourOf(w) ==
  /\ pc[w] = "clamd" => seen[w] = "unread"
  /\ pc[w] = "postcheck" => Aware(w)
  /\ Deciding(w) => Honoured(w)

HonourInv == \A w \in Replicas : HonourOf(w)

\* The step leaves the replica's delivery and its set alone.
Kept(v) ==
  /\ pc'[v] = pc[v] /\ file'[v] = file[v]
  /\ current'[v] = current[v] /\ prev'[v] = prev[v] /\ seen'[v] = seen[v]
  /\ lasts'[v] = lasts[v] /\ knowable'[v] = knowable[v]
  /\ expired[v] => expired'[v]

\* A step keeps the invariant when every replica it touches has what the
\* invariant asks for.
LEMMA HonourFrame ==
  ASSUME TypeOK, TypeOK', HonourInv, redis \subseteq redis', faults <= faults',
         \A v \in Replicas : Kept(v) \/ HonourOf(v)'
  PROVE  HonourInv'
<1>1. ASSUME NEW v \in Replicas, Kept(v) PROVE HonourOf(v)'
  <2>1. HonourOf(v)
    BY DEF HonourInv
  <2>2. faults > 0 => faults' > 0
    BY ScanPipelineAssumption DEF TypeOK
  <2>3. pc'[v] = "clamd" => seen'[v] = "unread"
    BY <1>1, <2>1 DEF HonourOf, Kept
  <2>4. pc'[v] = "postcheck" => Aware(v)'
    BY <1>1, <2>1 DEF HonourOf, Kept, Aware, StillHeld
  <2>5. Deciding(v)' => Honoured(v)'
    BY <1>1, <2>1, <2>2 DEF HonourOf, Kept, Honoured, Deciding
  <2> QED
    BY <2>3, <2>4, <2>5 DEF HonourOf
<1> QED
  BY <1>1 DEF HonourInv

\* Stages of which the invariant says nothing.
Quiet == Stages \ {"clamd", "postcheck", "remove", "publish"}

\* A handler's move: what it asks of the other replicas.
LEMMA HonourMove ==
  ASSUME TypeOK, TypeOK', HonourInv, redis \subseteq redis', faults <= faults',
         NEW w \in Replicas, NEW stage \in Stages, Goto(w, stage),
         \A v \in Replicas \ {w} :
           /\ file'[v] = file[v] /\ seen'[v] = seen[v] /\ current'[v] = current[v]
           /\ prev'[v] = prev[v] /\ lasts'[v] = lasts[v]
           /\ knowable'[v] = knowable[v] /\ (expired[v] => expired'[v]),
         stage \in Quiet \/ HonourOf(w)'
  PROVE  HonourInv'
<1>1. \A v \in Replicas : pc'[v] = IF v = w THEN stage ELSE pc[v]
  BY GotoType
<1>2. stage \in Quiet => HonourOf(w)'
  BY <1>1 DEF Quiet, HonourOf, Deciding
<1>3. \A v \in Replicas \ {w} : Kept(v)
  BY <1>1 DEF Kept
<1> QED
  BY <1>2, <1>3, HonourFrame

\* A quiet move that looks at no set.
LEMMA QuietGoto ==
  ASSUME TypeOK, TypeOK', HonourInv, faults <= faults',
         NEW w \in Replicas, NEW stage \in Quiet, Goto(w, stage),
         UNCHANGED <<redis, file, seen, current, prev, lasts, knowable, expired>>
  PROVE  HonourInv'
<1>1. stage \in Stages
  BY DEF Quiet
<1> QED
  BY <1>1, HonourMove

\* Faults are only counted up.
LEMMA FaultsGrow ==
  ASSUME TypeOK, Fault \/ UNCHANGED faults
  PROVE  faults <= faults'
  BY ScanPipelineAssumption DEF TypeOK, Fault

\* A lookup touches its own replica's set, and says no to a case it can be
\* expected to hold never, and to one that Redis holds only after a fault or with
\* an expired context.
LEMMA LookupHonest ==
  ASSUME TypeOK, NEW w \in Replicas, NEW yes \in BOOLEAN, IsCancelled(w, yes)
  PROVE  /\ \A v \in Replicas \ {w} :
              seen'[v] = seen[v] /\ current'[v] = current[v] /\ prev'[v] = prev[v]
         /\ seen'[w] = "unread"
         /\ faults <= faults'
         /\ ~yes => /\ ~StillHeld(w)
                    /\ RedisEnabled /\ CaseOf[file[w]] \in redis =>
                         faults' > 0 \/ expired[w]
<1>1. /\ current \in [Replicas -> SUBSET Cases] /\ faults \in Nat
      /\ seen \in [Replicas -> Findings]
  BY ScanPipelineAssumption DEF TypeOK
<1>2. /\ \/ current' = current
         \/ current' = [current EXCEPT ![w] = current[w] \cup {CaseOf[file[w]]}]
      /\ seen' = [seen EXCEPT ![w] = "unread"] /\ UNCHANGED prev
  BY DEF IsCancelled
<1>3. /\ seen'[w] = "unread"
      /\ \A v \in Replicas \ {w} :
           seen'[v] = seen[v] /\ current'[v] = current[v] /\ prev'[v] = prev[v]
  BY <1>1, <1>2
<1>4. faults <= faults'
  BY FaultsGrow DEF IsCancelled
<1>5. ASSUME ~yes
      PROVE  /\ seen[w] # "unread" /\ seen[w] # "current"
             /\ ~(seen[w] = "prev" /\ CaseOf[file[w]] \in prev[w])
             /\ RedisEnabled /\ CaseOf[file[w]] \in redis =>
                  Fault \/ expired[w]
  BY <1>5 DEF IsCancelled
<1>6. Fault => faults' > 0
  BY <1>1 DEF Fault
<1>7. seen[w] \in {"unread", "current", "prev", "absent"}
  BY <1>1 DEF Findings
<1>8. ~yes => ~StillHeld(w)
  BY <1>5, <1>7 DEF StillHeld
<1> QED
  BY <1>3, <1>4, <1>5, <1>6, <1>8

\* A swap, a new entry and a lapse lose no case before its time.
LEMMA SetKeeps ==
  ASSUME TypeOK, HonourInv, NEW w \in Replicas,
         pc[w] = "postcheck",
         UNCHANGED <<pc, file, seen, knowable, redis>>,
         \/ /\ lasts'[w] = lasts[w]
            /\ current[w] \subseteq current'[w] /\ prev[w] \subseteq prev'[w]
         \/ /\ lasts'[w] = lasts[w]
            /\ \E c : /\ c # CaseOf[file[w]]
                      /\ current[w] \ {c} \subseteq current'[w]
                      /\ prev[w] \ {c} \subseteq prev'[w]
         \/ /\ lasts'[w] = IF lasts[w] > 0 THEN lasts[w] - 1 ELSE 0
            /\ prev'[w] = current[w]
         \/ lasts'[w] = 0
  PROVE  HonourOf(w)'
<1>1. lasts[w] \in 0 .. 2 /\ Aware(w) /\ pc'[w] = "postcheck"
  BY DEF TypeOK, HonourInv, HonourOf
<1>2. knowable'[w] => CaseOf[file'[w]] \in redis'
  BY <1>1 DEF Aware
<1>3. ASSUME lasts'[w] > 0 PROVE StillHeld(w)'
  <2>1. CASE lasts'[w] = lasts[w]
    <3>1. StillHeld(w)
      BY <1>1, <1>3, <2>1 DEF Aware
    <3>2. lasts[w] > 0
      BY <1>3, <2>1
    <3>3. \/ /\ CaseOf[file[w]] \in current[w] => CaseOf[file[w]] \in current'[w]
             /\ CaseOf[file[w]] \in prev[w] => CaseOf[file[w]] \in prev'[w]
          \/ lasts'[w] # lasts[w]
      BY <1>1, <2>1, <3>2
    <3> QED
      BY <2>1, <3>1, <3>3 DEF StillHeld
  <2>2. CASE lasts'[w] # lasts[w]
    <3>1. lasts[w] = 2 /\ lasts'[w] = 1 /\ prev'[w] = current[w]
      BY <1>1, <1>3, <2>2
    <3>2. StillHeld(w)
      BY <1>1, <3>1 DEF Aware
    <3> QED
      BY <3>1, <3>2 DEF StillHeld
  <2> QED
    BY <2>1, <2>2
<1>4. Aware(w)'
  BY <1>2, <1>3 DEF Aware
<1> QED
  BY <1>1, <1>4 DEF HonourOf, Deciding

\* One step keeps the invariant.
LEMMA HonourStep == TypeInv /\ HonourInv /\ [Next]_vars => HonourInv'
<1> SUFFICES ASSUME TypeInv, HonourInv, [Next]_vars PROVE HonourInv'
  OBVIOUS
<1>t. TypeOK /\ TypeOK'
  BY TypeStep DEF TypeInv
<1> USE DEF broker, cancelling, storage, delivery, sets, memory, history, checks
<1>s. {"precheck", "lstat", "open", "reject", "started", "hash", "recheck",
       "discard", "failed", "notify", "ack", "nack", "idle"} \subseteq Quiet
  BY DEF Quiet, Stages
<1>u. Quiet \subseteq Stages
  BY DEF Quiet
<1>1. ASSUME NEW w \in Replicas, NEW f \in Files, NEW n \in Levels,
             Receive(w, f, n)
      PROVE  HonourInv'
  <2>1. PICK stage \in {"ack", "precheck"} : Goto(w, stage)
    BY <1>1 DEF Receive
  <2>2. /\ UNCHANGED <<redis, faults, seen, current, prev, lasts, knowable, expired>>
        /\ file' = [file EXCEPT ![w] = f]
    BY <1>1 DEF Receive
  <2>3. \A v \in Replicas \ {w} : file'[v] = file[v]
    <3>1. file \in [Replicas -> Files]
      BY <1>t DEF TypeOK
    <3> QED
      BY <2>2, <3>1
  <2>4. faults <= faults'
    BY <1>t, <2>2, FaultsGrow
  <2>5. stage \in Quiet /\ stage \in Stages
    BY <1>s, <1>u, <2>1
  <2> QED
    BY <1>t, <2>1, <2>2, <2>3, <2>4, <2>5, HonourMove
<1>2. ASSUME NEW w \in Replicas, PreCheck(w) \/ Recheck(w) PROVE HonourInv'
  <2>1. UNCHANGED <<redis, file, lasts, knowable, expired>>
    BY <1>2 DEF PreCheck, Recheck
  <2>2. PICK yes \in BOOLEAN : IsCancelled(w, yes)
    BY <1>2 DEF PreCheck, Recheck
  <2>3. /\ \A v \in Replicas \ {w} :
             seen'[v] = seen[v] /\ current'[v] = current[v] /\ prev'[v] = prev[v]
        /\ seen'[w] = "unread" /\ faults <= faults'
    BY <1>t, <2>2, LookupHonest
  <2>4. PICK stage \in {"ack", "lstat", "discard", "clamd"} : Goto(w, stage)
    BY <1>2 DEF PreCheck, Recheck, Drop
  <2>5. stage \in Stages
    BY <2>4 DEF Stages
  <2>6. stage \in Quiet \/ HonourOf(w)'
    <3>1. CASE stage = "clamd"
      <4>1. pc'[w] = "clamd"
        BY <1>t, <2>4, <2>5, <3>1, GotoType
      <4> QED
        BY <2>3, <4>1 DEF HonourOf, Deciding
    <3>2. CASE stage # "clamd"
      BY <1>s, <2>4, <3>2
    <3> QED
      BY <3>1, <3>2
  <2> QED
    BY <1>t, <2>1, <2>3, <2>4, <2>5, <2>6, HonourMove
<1>3. ASSUME NEW w \in Replicas,
             \/ Lstat(w) \/ Open(w) \/ Reject(w) \/ Start(w) \/ Hash(w)
             \/ Discard(w) \/ PublishVerdict(w) \/ ScheduleRetry(w)
             \/ NotifyRetry(w) \/ DeadLetter(w)
      PROVE  HonourInv'
  <2>1. UNCHANGED <<redis, file, seen, current, prev, lasts, knowable, expired>>
    BY <1>3 DEF Lstat, Open, Reject, Start, Hash, Discard, PublishVerdict,
                ScheduleRetry, NotifyRetry, DeadLetter
  <2>2. faults <= faults'
    <3>1. Fault \/ UNCHANGED faults
      BY <1>3 DEF Lstat, Open, Reject, Start, Hash, Discard, PublishVerdict,
                  ScheduleRetry, NotifyRetry, DeadLetter, Unreadable, RemoveFile,
                  Publishes
    <3> QED
      BY <1>t, <3>1, FaultsGrow
  <2>3. PICK stage \in Quiet : Goto(w, stage)
    <3>1. CASE Lstat(w) \/ Open(w)
      <4>1. \E stage \in {"ack", "reject", "open", "started", "hash"} :
              Goto(w, stage)
        BY <3>1 DEF Lstat, Open, Unreadable, Drop
      <4> QED
        BY <1>s, <4>1
    <3>2. CASE Reject(w) \/ Start(w) \/ Hash(w) \/ Discard(w)
      <4>1. \E stage \in {"ack", "hash", "failed", "recheck"} : Goto(w, stage)
        BY <3>2 DEF Reject, Start, Hash, Discard, Fail, Drop
      <4> QED
        BY <1>s, <4>1
    <3>3. CASE \/ PublishVerdict(w) \/ ScheduleRetry(w) \/ NotifyRetry(w)
               \/ DeadLetter(w)
      <4>1. \E stage \in {"ack", "nack", "notify"} : Goto(w, stage)
        BY <3>3 DEF PublishVerdict, ScheduleRetry, NotifyRetry, DeadLetter
      <4> QED
        BY <1>s, <4>1
    <3> QED
      BY <1>3, <3>1, <3>2, <3>3
  <2> QED
    BY <1>t, <2>1, <2>2, <2>3, QuietGoto
<1>4. ASSUME NEW w \in Replicas, ScanStream(w) PROVE HonourInv'
  <2>1. UNCHANGED <<redis, file, expired, current, prev, seen, faults>>
    BY <1>4 DEF ScanStream
  <2>2. faults <= faults'
    BY <1>t, <2>1, FaultsGrow
  <2>3. CASE Fail(w) /\ UNCHANGED <<lasts, knowable>>
    <3>1. Goto(w, "failed") /\ "failed" \in Quiet
      BY <1>s, <2>3 DEF Fail
    <3> QED
      BY <1>t, <2>1, <2>2, <2>3, <3>1, QuietGoto
  <2>4. CASE /\ Goto(w, "postcheck")
             /\ lasts' = [lasts EXCEPT ![w] =
                            IF CaseOf[file[w]] \in current[w] THEN 2
                            ELSE IF CaseOf[file[w]] \in prev[w] THEN 1 ELSE 0]
             /\ knowable' = [knowable EXCEPT ![w] = CaseOf[file[w]] \in redis]
    <3>1. lasts \in [Replicas -> 0 .. 2] /\ knowable \in [Replicas -> BOOLEAN]
      BY <1>t DEF TypeOK
    <3>2. /\ lasts'[w] = IF CaseOf[file[w]] \in current[w] THEN 2
                         ELSE IF CaseOf[file[w]] \in prev[w] THEN 1 ELSE 0
          /\ \A v \in Replicas \ {w} : lasts'[v] = lasts[v]
      BY <2>4, <3>1
    <3>3. /\ knowable'[w] <=> CaseOf[file[w]] \in redis
          /\ \A v \in Replicas \ {w} : knowable'[v] = knowable[v]
      BY <2>4, <3>1
    <3>4. pc[w] = "clamd" /\ seen'[w] = "unread"
      BY <1>4, <2>1 DEF ScanStream, At, HonourInv, HonourOf
    <3>5. Aware(w)'
      BY <2>1, <3>2, <3>3, <3>4 DEF Aware, StillHeld
    <3>6. pc'[w] = "postcheck" /\ "postcheck" \in Stages
      BY <1>t, <2>4, GotoType DEF Stages
    <3>7. HonourOf(w)'
      BY <3>5, <3>6 DEF HonourOf, Deciding
    <3> QED
      BY <1>t, <2>1, <2>2, <2>4, <3>2, <3>3, <3>6, <3>7, HonourMove
  <2> QED
    BY <1>4, <2>3, <2>4 DEF ScanStream
<1>5. ASSUME NEW w \in Replicas, PostCheck(w) PROVE HonourInv'
  <2>1. /\ UNCHANGED <<redis, file, lasts, knowable, expired>>
        /\ pc[w] = "postcheck"
    BY <1>5 DEF PostCheck, At
  <2>2. ASSUME NEW yes \in BOOLEAN, IsCancelled(w, yes), NEW stage \in Stages,
               Goto(w, stage), stage \in Quiet \/ HonourOf(w)'
        PROVE  HonourInv'
    <3>1. /\ \A v \in Replicas \ {w} :
               seen'[v] = seen[v] /\ current'[v] = current[v] /\ prev'[v] = prev[v]
          /\ faults <= faults'
      BY <1>t, <2>2, LookupHonest
    <3> QED
      BY <1>t, <2>1, <2>2, <3>1, HonourMove
  <2>3. CASE IsCancelled(w, TRUE) /\ Goto(w, "discard")
    BY <1>s, <1>u, <2>2, <2>3
  <2>4. CASE /\ IsCancelled(w, FALSE)
             /\ Goto(w, IF opened[w] = "infected" THEN "remove" ELSE "publish")
    <3>1. /\ ~StillHeld(w)
          /\ RedisEnabled /\ CaseOf[file[w]] \in redis => faults' > 0 \/ expired[w]
      BY <1>t, <2>4, LookupHonest
    <3>2. PICK stage \in {"remove", "publish"} : Goto(w, stage)
      BY <2>4
    <3>3. pc'[w] = stage /\ stage \in Stages
      BY <1>t, <3>2, GotoType DEF Stages
    <3>4. Aware(w) /\ lasts[w] \in 0 .. 2
      BY <1>t, <2>1 DEF HonourInv, HonourOf, TypeOK
    <3>5. Honoured(w)'
      BY <2>1, <3>1, <3>4 DEF Honoured, Aware
    <3>6. HonourOf(w)'
      BY <3>2, <3>3, <3>5 DEF HonourOf
    <3> QED
      BY <2>2, <2>4, <3>2, <3>3, <3>6
  <2> QED
    BY <1>5, <2>3, <2>4 DEF PostCheck
<1>6. ASSUME NEW w \in Replicas, RemoveInfected(w) PROVE HonourInv'
  <2>1. /\ UNCHANGED <<redis, file, seen, current, prev, lasts, knowable, expired>>
        /\ pc[w] = "remove" /\ Goto(w, "publish") /\ RemoveFile(w)
    BY <1>6 DEF RemoveInfected, At
  <2>2. faults <= faults'
    BY <1>t, <2>1, FaultsGrow DEF RemoveFile
  <2>3. pc'[w] = "publish" /\ "publish" \in Stages
    BY <1>t, <2>1, GotoType DEF Stages
  <2>4. Honoured(w)
    BY <2>1 DEF HonourInv, HonourOf, Deciding
  <2>5. faults > 0 => faults' > 0
    BY <1>t, <2>2, ScanPipelineAssumption DEF TypeOK
  <2>6. HonourOf(w)'
    BY <2>1, <2>3, <2>4, <2>5 DEF HonourOf, Honoured
  <2> QED
    BY <1>t, <2>1, <2>2, <2>3, <2>6, HonourMove
<1>7. ASSUME NEW w \in Replicas, Ack(w) \/ Nack(w) \/ Crash(w) PROVE HonourInv'
  <2>1. Idle(w) /\ UNCHANGED redis
    BY <1>7 DEF Ack, Nack, Crash
  <2>2. faults <= faults'
    BY <1>7, <1>t, FaultsGrow DEF Ack, Nack, Crash
  <2>3. /\ file \in [Replicas -> Files] /\ lasts \in [Replicas -> 0 .. 2]
        /\ seen \in [Replicas -> Findings]
        /\ current \in [Replicas -> SUBSET Cases]
        /\ prev \in [Replicas -> SUBSET Cases]
    BY <1>t DEF TypeOK
  <2>4. knowable \in [Replicas -> BOOLEAN] /\ expired \in [Replicas -> BOOLEAN]
    BY <1>t DEF TypeOK
  <2>5. \A v \in Replicas \ {w} :
          file'[v] = file[v] /\ seen'[v] = seen[v] /\ lasts'[v] = lasts[v]
    BY <2>1, <2>3 DEF Idle
  <2>6. \A v \in Replicas \ {w} :
          knowable'[v] = knowable[v] /\ expired'[v] = expired[v]
    BY <2>1, <2>4 DEF Idle
  <2>7. \A v \in Replicas \ {w} : current'[v] = current[v] /\ prev'[v] = prev[v]
    <3>1. \/ UNCHANGED <<current, prev>>
          \/ /\ current' = [current EXCEPT ![w] = {}]
             /\ prev' = [prev EXCEPT ![w] = {}]
      BY <1>7 DEF Ack, Nack, Crash
    <3> QED
      BY <2>3, <3>1
  <2>8. Goto(w, "idle") /\ "idle" \in Quiet /\ "idle" \in Stages
    BY <1>s, <1>u, <2>1 DEF Idle
  <2> QED
    BY <1>t, <2>1, <2>2, <2>5, <2>6, <2>7, <2>8, HonourMove
<1>8. ASSUME NEW w \in Replicas, ReadSet(w) PROVE HonourInv'
  <2>1. /\ UNCHANGED <<redis, faults, pc, file, current, prev, lasts, knowable,
                       expired>>
        /\ seen' = [seen EXCEPT ![w] = Lookup(w, CaseOf[file[w]])]
        /\ pc[w] \in {"precheck", "recheck", "postcheck"} /\ seen[w] = "unread"
    BY <1>8 DEF ReadSet
  <2>2. seen \in [Replicas -> Findings] /\ lasts[w] \in 0 .. 2
    BY <1>t DEF TypeOK
  <2>3. /\ seen'[w] = Lookup(w, CaseOf[file[w]])
        /\ \A v \in Replicas \ {w} : seen'[v] = seen[v]
    BY <2>1, <2>2
  <2>4. \A v \in Replicas \ {w} : Kept(v)
    BY <2>1, <2>3 DEF Kept
  <2>5. pc'[w] = "postcheck" => Aware(w)'
    <3>1. pc[w] = "postcheck" => Aware(w)
      BY DEF HonourInv, HonourOf
    <3> QED
      BY <2>1, <2>2, <2>3, <3>1 DEF Aware, StillHeld, Lookup
  <2>6. HonourOf(w)'
    BY <2>1, <2>5 DEF HonourOf, Deciding
  <2>7. faults <= faults'
    BY <1>t, <2>1, FaultsGrow
  <2> QED
    BY <1>t, <2>1, <2>4, <2>6, <2>7, HonourFrame
<1>9. ASSUME NEW w \in Replicas,
             \/ OtherCaseCancelled(w)
             \/ \E c \in Cases : HandleCancelMessage(w, c) \/ Lapse(w, c)
      PROVE  HonourInv'
  <2>1. /\ UNCHANGED <<redis, pc, file, seen, knowable, expired>>
        /\ Fault \/ UNCHANGED faults
    BY <1>9 DEF OtherCaseCancelled, HandleCancelMessage, Lapse
  <2>2. faults <= faults'
    BY <1>t, <2>1, FaultsGrow
  <2>3. /\ current \in [Replicas -> SUBSET Cases]
        /\ prev \in [Replicas -> SUBSET Cases]
        /\ lasts \in [Replicas -> 0 .. 2]
    BY <1>t DEF TypeOK
  <2>4. \A v \in Replicas \ {w} :
          current'[v] = current[v] /\ prev'[v] = prev[v] /\ lasts'[v] = lasts[v]
    BY <1>9, <2>3 DEF OtherCaseCancelled, HandleCancelMessage, MarkCancelled,
                      Turned, Lapse
  <2>5. pc[w] # "postcheck" => lasts'[w] = lasts[w]
    BY <1>9, <2>3 DEF OtherCaseCancelled, HandleCancelMessage, MarkCancelled,
                      Turned, Lapse, At
  <2>6. CASE pc[w] = "postcheck"
    <3>1. Turned(w)[w] = IF lasts[w] > 0 THEN lasts[w] - 1 ELSE 0
      BY <2>3, <2>6 DEF Turned, At
    <3>2. ASSUME OtherCaseCancelled(w) PROVE HonourOf(w)'
      <4>1. lasts'[w] = Turned(w)[w] /\ prev'[w] = current[w]
        BY <2>3, <3>2 DEF OtherCaseCancelled
      <4> QED
        BY <1>t, <2>1, <2>6, <3>1, <4>1, SetKeeps
    <3>3. ASSUME NEW c \in Cases, HandleCancelMessage(w, c) PROVE HonourOf(w)'
      <4>1. MarkCancelled(w, c)
        BY <3>3 DEF HandleCancelMessage
      <4>2. \/ /\ lasts'[w] = lasts[w]
               /\ current[w] \subseteq current'[w] /\ prev[w] \subseteq prev'[w]
            \/ lasts'[w] = Turned(w)[w] /\ prev'[w] = current[w]
        BY <2>3, <4>1 DEF MarkCancelled
      <4> QED
        BY <1>t, <2>1, <2>6, <3>1, <4>2, SetKeeps
    <3>4. ASSUME NEW c \in Cases, Lapse(w, c) PROVE HonourOf(w)'
      <4>1. CASE c = CaseOf[file[w]]
        <5>1. lasts'[w] = 0
          BY <2>3, <2>6, <3>4, <4>1 DEF Lapse, At
        <5> QED
          BY <1>t, <2>1, <2>6, <5>1, SetKeeps
      <4>2. CASE c # CaseOf[file[w]]
        <5>1. /\ lasts'[w] = lasts[w]
              /\ current[w] \ {c} \subseteq current'[w]
              /\ prev[w] \ {c} \subseteq prev'[w]
          BY <2>3, <2>6, <3>4, <4>2 DEF Lapse, At
        <5> QED
          BY <1>t, <2>1, <2>6, <4>2, <5>1, SetKeeps
      <4> QED
        BY <4>1, <4>2
    <3>5. HonourOf(w)'
      BY <1>9, <3>2, <3>3, <3>4
    <3>6. \A v \in Replicas \ {w} : Kept(v)
      BY <2>1, <2>4 DEF Kept
    <3> QED
      BY <1>t, <2>1, <2>2, <3>5, <3>6, HonourFrame
  <2>7. CASE pc[w] # "postcheck"
    <3>1. HonourOf(w)'
      <4>1. HonourOf(w)
        BY DEF HonourInv
      <4>2. faults > 0 => faults' > 0
        BY <1>t, <2>2, ScanPipelineAssumption DEF TypeOK
      <4> QED
        BY <2>1, <2>5, <2>7, <4>1, <4>2 DEF HonourOf, Deciding, Honoured
    <3>2. \A v \in Replicas \ {w} : Kept(v)
      BY <2>1, <2>4 DEF Kept
    <3> QED
      BY <1>t, <2>1, <2>2, <3>1, <3>2, HonourFrame
  <2> QED
    BY <2>6, <2>7
<1>10. ASSUME UNCHANGED <<pc, file, seen, current, prev, lasts, knowable>>,
              redis \subseteq redis', Fault \/ UNCHANGED faults,
              \A v \in Replicas : expired[v] => expired'[v]
       PROVE  HonourInv'
  <2>1. \A v \in Replicas : Kept(v)
    BY <1>10 DEF Kept
  <2>2. faults <= faults'
    BY <1>10, <1>t, FaultsGrow
  <2> QED
    BY <1>10, <1>t, <2>1, <2>2, HonourFrame
<1>11. ASSUME NEW w \in Replicas, ConnectionLost(w) PROVE HonourInv'
  BY <1>10, <1>11 DEF ConnectionLost
<1>12. ASSUME NEW w \in Replicas, HandlerTimeout(w) PROVE HonourInv'
  <2>1. \A v \in Replicas : expired[v] => expired'[v]
    <3>1. expired \in [Replicas -> BOOLEAN]
      BY <1>t DEF TypeOK
    <3> QED
      BY <1>12, <3>1 DEF HandlerTimeout
  <2> QED
    BY <1>10, <1>12, <2>1 DEF HandlerTimeout
<1>13. ASSUME NEW c \in Cases, CancelCase(c) \/ SetRedisKey(c) PROVE HonourInv'
  BY <1>10, <1>13 DEF CancelCase, SetRedisKey
<1>14. ASSUME NEW f \in Files, NEW n \in Levels, RetryDue(f, n) PROVE HonourInv'
  BY <1>10, <1>14 DEF RetryDue
<1>15. ASSUME NEW f \in Files, NEW d \in Contents \cup {"gone", "symlink"},
              TempPathChanges(f, d)
       PROVE  HonourInv'
  BY <1>10, <1>15 DEF TempPathChanges
<1>16. CASE UNCHANGED vars
  BY <1>10, <1>16 DEF vars
<1> QED
  BY <1>1, <1>2, <1>3, <1>4, <1>5, <1>6, <1>7, <1>8, <1>9, <1>11, <1>12, <1>13,
     <1>14, <1>15, <1>16 DEF Next, Work

\* Whatever runs between clamd's answer and the publication, and between the two
\* locks of the last lookup: a verdict is about to be published for a case the
\* replica's own set held when clamd answered only if the set has let it go since,
\* by as many swaps as its generation allows or by the TTL, and for one that Redis
\* held only with a fault or an expired handler context (the check after the scan
\* in runScan, isCancelled, MarkCancelled).
THEOREM CancellationHonouredHolds == Spec => []CancellationHonoured
<1>1. Init => HonourInv
  BY DEF Init, HonourInv, HonourOf, Deciding
<1>2. HonourInv => CancellationHonoured
  BY DEF HonourInv, HonourOf, Honoured, CancellationHonoured
<1> QED
  BY <1>1, <1>2, InitTyped, TypeStep, HonourStep, PTL DEF Spec

=============================================================================
