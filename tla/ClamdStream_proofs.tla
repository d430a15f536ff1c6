------------------------- MODULE ClamdStream_proofs -------------------------
(***************************************************************************)
(* Theorems about ClamdStream, for files and databases of any size: type   *)
(* correctness, the truth of every verdict, and that the call implements   *)
(* the abstract one of ScanCall.                                           *)
(***************************************************************************)
EXTENDS ClamdStream, SequenceTheorems, TLAPS

\* The first n chunks of the file are what clamd has.
Prefix(n) ==
  /\ Len(received) = n
  /\ \A i \in 1 .. n : received[i] = content[i]

\* How far the stream is, stage by stage.  Between reading a chunk and sending
\* it clamd is one behind.
StreamInv ==
  /\ pc \in {"new", "command"} => pos = 0 /\ frame = "none" /\ received = <<>>
  /\ pc \in {"read", "terminator"} => Prefix(pos)
  /\ pc \in {"length", "data"} => pos > 0 /\ Prefix(pos - 1)
  /\ pc \in {"length", "data"} /\ last = "eof" => pos = Len(content)
  /\ pc = "terminator" => pos = Len(content)
  /\ frame = "ended" => received = content /\ pc \in {"response", "done"}

\* What the line of clamd may contain and what the client has of it.
ReplyInv ==
  /\ \A i \in 1 .. Len(reply) : reply[i] = "OK" => content \notin Infected
  /\ \A i \in 3 .. Len(reply) : reply[i] = "FOUND" => content \in Infected
  /\ Len(got) <= Len(reply)
  /\ \A i \in 1 .. Len(got) : got[i] = reply[i]

\* The inductive invariant.
CallInv ==
  /\ TypeOK
  /\ StreamInv
  /\ ReplyInv
  /\ pc # "done" => outcome = "none"
  /\ VerdictIsTrue

-----------------------------------------------------------------------------
(* Parsing *)

\* Trimming a line keeps the words before its end.
LEMMA TrimmedWords ==
  ASSUME NEW line \in Seq(Words)
  PROVE  /\ Trimmed(line) \in Seq(Words)
         /\ Len(Trimmed(line)) <= Len(line)
         /\ \A i \in 1 .. Len(Trimmed(line)) : Trimmed(line)[i] = line[i]
<1>1. CASE line # <<>> /\ line[Len(line)] = "\n"
  <2>1. Trimmed(line) = SubSeq(line, 1, Len(line) - 1)
    BY <1>1 DEF Trimmed
  <2>2. Len(line) \in Nat /\ Len(line) > 0
    BY <1>1, EmptySeq, LenProperties
  <2>3. /\ SubSeq(line, 1, Len(line) - 1) \in Seq(Words)
        /\ Len(SubSeq(line, 1, Len(line) - 1)) = Len(line) - 1
        /\ \A i \in 1 .. Len(line) - 1 :
             SubSeq(line, 1, Len(line) - 1)[i] = line[i]
    <3>1. \A i \in 1 .. Len(line) - 1 : line[i] \in Words
      BY <2>2, ElementOfSeq
    <3> DEFINE k == Len(line) - 1
    <3>2. k \in Nat /\ k \in Int /\ 1 \in Int /\ \A i \in 1 .. k : line[i] \in Words
      BY <2>2, <3>1
    <3>3. /\ SubSeq(line, 1, k) \in Seq(Words)
          /\ Len(SubSeq(line, 1, k)) = IF 1 <= k THEN k - 1 + 1 ELSE 0
          /\ \A i \in 1 .. k - 1 + 1 : SubSeq(line, 1, k)[i] = line[1 + i - 1]
      <4> HIDE DEF k
      <4> QED
        BY <3>2, SubSeqProperties
    <3>4. Len(SubSeq(line, 1, k)) = k
      <4> HIDE DEF k
      <4>1. (IF 1 <= k THEN k - 1 + 1 ELSE 0) = k
        BY <3>2
      <4> QED
        BY <3>3, <4>1
    <3>5. ASSUME NEW i \in 1 .. k PROVE SubSeq(line, 1, k)[i] = line[i]
      <4>1. i \in 1 .. k - 1 + 1 /\ 1 + i - 1 = i
        BY <3>2
      <4> QED
        BY <3>3, <4>1
    <3> QED
      BY <3>3, <3>4, <3>5
  <2> QED
    BY <2>1, <2>2, <2>3
<1>2. CASE ~(line # <<>> /\ line[Len(line)] = "\n")
  <2>1. Trimmed(line) = line
    BY <1>2 DEF Trimmed
  <2> QED
    BY <2>1
<1> QED
  BY <1>1, <1>2

\* A clean result needs the word OK, an infected one the word FOUND at the third
\* place or later.
LEMMA ParsedWords ==
  ASSUME NEW line \in Seq(Words)
  PROVE  /\ parseScanResponse(line) \in {"OK", "found", "error", "panic"}
         /\ parseScanResponse(line) = "OK" =>
              \E i \in 1 .. Len(line) : line[i] = "OK"
         /\ parseScanResponse(line) = "found" =>
              \E i \in 3 .. Len(line) : line[i] = "FOUND"
<1> DEFINE words == Trimmed(line)
           n == Len(words)
<1>1. /\ n \in Nat /\ n <= Len(line) /\ Len(line) \in Nat
      /\ \A i \in 1 .. n : words[i] = line[i]
  BY TrimmedWords, LenProperties
<1>2. parseScanResponse(line) \in {"OK", "found", "error", "panic"}
  BY DEF parseScanResponse
<1>3. ASSUME parseScanResponse(line) = "OK"
      PROVE  \E i \in 1 .. Len(line) : line[i] = "OK"
  <2>1. n > 1 /\ words[n] = "OK"
    BY <1>3 DEF parseScanResponse, Clean, EndsWith
  <2> QED
    BY <1>1, <2>1
<1>4. ASSUME parseScanResponse(line) = "found"
      PROVE  \E i \in 3 .. Len(line) : line[i] = "FOUND"
  <2>1. n > 1 /\ words[n] = "FOUND" /\ \E i \in 1 .. n - 2 : words[i] = "stream:"
    BY <1>4 DEF parseScanResponse, Clean, EndsWith
  <2>2. n >= 3
    BY <1>1, <2>1
  <2> QED
    BY <1>1, <2>1, <2>2
<1> QED
  BY <1>2, <1>3, <1>4

\* The same of the result of read and its caller.
LEMMA ResultWords ==
  ASSUME NEW line \in Seq(Words)
  PROVE  /\ Result(line) \in {"OK", "found", "line", "error", "panic"}
         /\ Result(line) = "OK" => \E i \in 1 .. Len(line) : line[i] = "OK"
         /\ Result(line) = "found" => \E i \in 3 .. Len(line) : line[i] = "FOUND"
<1>1. Result(line) \in {"error", "line", parseScanResponse(line)}
  BY DEF Result
<1> QED
  BY <1>1, ParsedWords
-----------------------------------------------------------------------------
(* The steps *)

\* A result of what the client has of clamd's line is true.
LEMMA ResultTrue ==
  ASSUME TypeOK, ReplyInv
  PROVE  /\ Result(got) \in {"OK", "found", "line", "error", "panic"}
         /\ Result(got) = "OK" => content \notin Infected
         /\ Result(got) = "found" => content \in Infected
<1>1. got \in Seq(Words) /\ reply \in Seq(Words)
  BY DEF TypeOK
<1>2. Len(got) \in Nat /\ Len(reply) \in Nat
  BY <1>1, LenProperties
<1>3. ASSUME NEW i \in 1 .. Len(got)
      PROVE  i \in 1 .. Len(reply) /\ reply[i] = got[i]
  BY <1>2 DEF ReplyInv
<1>4. Result(got) = "OK" => content \notin Infected
  <2>1. SUFFICES ASSUME NEW i \in 1 .. Len(got), got[i] = "OK"
                 PROVE  content \notin Infected
    BY <1>1, ResultWords
  <2> QED
    BY <1>3, <2>1 DEF ReplyInv
<1>5. Result(got) = "found" => content \in Infected
  <2>1. SUFFICES ASSUME NEW i \in 3 .. Len(got), got[i] = "FOUND"
                 PROVE  content \in Infected
    BY <1>1, ResultWords
  <2>2. i \in 1 .. Len(got) /\ i \in 3 .. Len(reply)
    BY <1>2, <2>1 DEF ReplyInv
  <2> QED
    BY <1>3, <2>1, <2>2 DEF ReplyInv
<1> QED
  BY <1>1, <1>4, <1>5, ResultWords

\* The lengths the arithmetic is about.
LEMMA Lengths ==
  ASSUME TypeOK
  PROVE  /\ content \in Seq(Chunks) /\ Len(content) \in Nat
         /\ received \in Seq(Chunks) /\ Len(received) \in Nat
         /\ got \in Seq(Words) /\ Len(got) \in Nat
         /\ reply \in Seq(Words) /\ Len(reply) \in Nat
         /\ pos \in Nat /\ pos <= Len(content)
<1>1. content \in Seq(Chunks) /\ received \in Seq(Chunks)
      /\ got \in Seq(Words) /\ reply \in Seq(Words)
  BY ClamdStreamAssumption DEF TypeOK
<1>2. /\ Len(content) \in Nat /\ Len(received) \in Nat
      /\ Len(got) \in Nat /\ Len(reply) \in Nat
  BY <1>1, LenProperties
<1>3. pos \in Nat /\ pos <= Len(content)
  BY <1>2 DEF TypeOK
<1> QED
  BY <1>1, <1>2, <1>3

\* The initial states satisfy the invariant.
LEMMA CallInit == Init => CallInv
<1> SUFFICES ASSUME Init PROVE CallInv
  OBVIOUS
<1>1. content \in Seq(Chunks) /\ Len(content) \in Nat
  BY ClamdStreamAssumption, LenProperties DEF Init
<1>2. /\ <<>> \in Seq(Words) /\ <<>> \in Seq(Chunks)
      /\ reply = <<>> /\ got = <<>> /\ received = <<>> /\ Len(reply) = 0
  BY DEF Init
<1>a. deadline \in BOOLEAN /\ expired \in BOOLEAN
  BY Zenon DEF Init
<1>b. pos \in 0 .. Len(content)
  BY <1>1 DEF Init
<1>3. TypeOK
  BY <1>2, <1>a, <1>b DEF Init, TypeOK, Ops
<1>4. StreamInv
  BY DEF Init, StreamInv
<1>5. ReplyInv
  BY <1>2 DEF ReplyInv
<1> QED
  BY <1>3, <1>4, <1>5 DEF Init, CallInv, VerdictIsTrue

\* Whatever clamd sends is made of words.
LEMMA LinesOfWords ==
  /\ <<"text", "\n">> \in Seq(Words)
  /\ <<"stream:", "name", "FOUND", "\n">> \in Seq(Words)
  /\ <<"stream:", "OK", "\n">> \in Seq(Words)
  /\ OddLines \subseteq Seq(Words)
<1>w. /\ "stream:" \in Words /\ "OK" \in Words /\ "name" \in Words
      /\ "FOUND" \in Words /\ "ERROR" \in Words /\ "text" \in Words
      /\ "\n" \in Words
  BY DEF Words
<1>1. <<"\n">> \in Seq(Words) /\ <<"text", "\n">> \in Seq(Words)
  BY <1>w
<1>2. /\ <<"stream:", "OK", "\n">> \in Seq(Words)
      /\ <<"text", "ERROR", "\n">> \in Seq(Words)
      /\ <<"text", "FOUND", "\n">> \in Seq(Words)
      /\ <<"stream:", "FOUND", "\n">> \in Seq(Words)
  BY <1>w
<1>3. <<"stream:", "name", "FOUND", "\n">> \in Seq(Words)
  BY <1>w
<1>4. <<"text", "text", "text", "text", "text", "\n">> \in Seq(Words)
  BY <1>w
<1> QED
  BY <1>1, <1>2, <1>3, <1>4 DEF OddLines

\* Client steps that leave the reply and what was read of it alone.
LEMMA ReplyFrame ==
  ASSUME ReplyInv, UNCHANGED <<content, reply, got>>
  PROVE  ReplyInv'
  BY DEF ReplyInv

\* A call that goes on has no outcome yet; one that returns an error has one
\* that claims nothing.
LEMMA OutcomeFrame ==
  ASSUME CallInv, UNCHANGED content,
         NEW from, from # "done", NEW to, to # "done",
         Step(from, to) \/ Return(from, "error")
  PROVE  /\ outcome' \in {"none", "OK", "found", "line", "error", "panic"}
         /\ pc' # "done" => outcome' = "none"
         /\ VerdictIsTrue'
  BY DEF CallInv, Step, Return, VerdictIsTrue, TypeOK

\* One step keeps the invariant.
LEMMA CallStep == CallInv /\ [Next]_vars => CallInv'
<1> SUFFICES ASSUME CallInv, [Next]_vars PROVE CallInv'
  OBVIOUS
<1>t. TypeOK /\ StreamInv /\ ReplyInv /\ VerdictIsTrue
  BY DEF CallInv
<1>l. /\ content \in Seq(Chunks) /\ Len(content) \in Nat
      /\ received \in Seq(Chunks) /\ Len(received) \in Nat
      /\ got \in Seq(Words) /\ Len(got) \in Nat
      /\ reply \in Seq(Words) /\ Len(reply) \in Nat
      /\ pos \in Nat /\ pos <= Len(content)
  BY <1>t, Lengths
<1> USE DEF file, client, clamd
<1>1. CASE newClamdClient
  <2>1. /\ Step("new", "command") \/ Return("new", "error")
        /\ deadline' = TRUE \/ deadline' = deadline
        /\ UNCHANGED <<file, pos, last, got, expired, clamd>>
    BY <1>1 DEF newClamdClient, Connect, SetDeadline
  <2>2. deadline' \in BOOLEAN
    BY <1>t, <2>1, Zenon DEF TypeOK
  <2>3. /\ outcome' \in {"none", "OK", "found", "line", "error", "panic"}
        /\ pc' # "done" => outcome' = "none"
        /\ VerdictIsTrue'
    BY <2>1, OutcomeFrame
  <2>4. TypeOK'
    BY <1>t, <2>1, <2>2, <2>3 DEF TypeOK, Step, Return
  <2>5. StreamInv'
    BY <1>t, <2>1 DEF StreamInv, Step, Return
  <2> QED
    BY <1>t, <2>1, <2>3, <2>4, <2>5, ReplyFrame DEF CallInv
<1>2. CASE SendCommand
  <2>1. /\ \/ Step("command", "read") /\ frame' = "command"
           \/ Step("command", "response") /\ frame' = "command"
           \/ Return("command", "error") /\ frame' = frame
        /\ UNCHANGED <<file, pos, last, got, deadline, expired, peer, received,
                       reply>>
    BY <1>2 DEF SendCommand
  <2>3. /\ outcome' \in {"none", "OK", "found", "line", "error", "panic"}
        /\ pc' # "done" => outcome' = "none"
        /\ VerdictIsTrue'
    BY <2>1, OutcomeFrame
  <2>4. TypeOK'
    BY <1>t, <2>1, <2>3 DEF TypeOK, Step, Return
  <2>5. pos = 0 /\ received = <<>> /\ frame = "none"
    BY <1>t, <2>1 DEF StreamInv, Step, Return
  <2>6. Prefix(0)'
    BY <2>1, <2>5 DEF Prefix
  <2>7. StreamInv'
    BY <2>1, <2>5, <2>6 DEF StreamInv, Step, Return
  <2> QED
    BY <1>t, <2>1, <2>3, <2>4, <2>7, ReplyFrame DEF CallInv
<1>3. CASE ReadChunk
  <2>1. /\ UNCHANGED <<file, got, deadline, expired, clamd>>
        /\ last' \in {"more", "eof", "error"}
        /\ \/ /\ Step("read", "length") /\ pos < Len(content) /\ pos' = pos + 1
              /\ last' = "eof" => pos' = Len(content)
           \/ Step("read", "terminator") /\ pos = Len(content) /\ pos' = pos
           \/ Return("read", "error") /\ pos' = pos
    BY <1>3 DEF ReadChunk, More, AtEnd
  <2>3. /\ outcome' \in {"none", "OK", "found", "line", "error", "panic"}
        /\ pc' # "done" => outcome' = "none"
        /\ VerdictIsTrue'
    BY <2>1, OutcomeFrame
  <2>a. pos' \in 0 .. Len(content)
    BY <1>l, <2>1
  <2>4. TypeOK'
    BY <1>t, <2>1, <2>3, <2>a DEF TypeOK, Step, Return
  <2>5. Prefix(pos) /\ frame # "ended"
    BY <1>t, <2>1 DEF StreamInv, Step, Return
  <2>6. ASSUME pos' = pos + 1, Step("read", "length") PROVE StreamInv'
    <3>1. pos' > 0 /\ pos' - 1 = pos
      BY <1>l, <2>6
    <3>2. Prefix(pos - 1)'
      BY <2>1, <2>5, <3>1 DEF Prefix
    <3>3. last' = "eof" => pos' = Len(content)'
      BY <2>1, <2>6 DEF Step, Return
    <3> QED
      BY <2>1, <2>5, <2>6, <3>1, <3>2, <3>3 DEF StreamInv, Step
  <2>7. ASSUME Step("read", "terminator"), pos = Len(content), pos' = pos
        PROVE  StreamInv'
    <3>1. Prefix(pos)'
      BY <2>1, <2>5, <2>7 DEF Prefix
    <3> QED
      BY <2>1, <2>5, <2>7, <3>1 DEF StreamInv, Step
  <2>8. ASSUME Return("read", "error") PROVE StreamInv'
    BY <2>1, <2>5, <2>8 DEF StreamInv, Return
  <2>9. StreamInv'
    BY <2>1, <2>6, <2>7, <2>8
  <2> QED
    BY <1>t, <2>1, <2>3, <2>4, <2>9, ReplyFrame DEF CallInv
<1>4. CASE SendLength
  <2>1. /\ \/ Step("length", "data") /\ frame' = "length"
           \/ Return("length", "error") /\ frame' = frame
        /\ UNCHANGED <<file, pos, last, got, deadline, expired, peer, received,
                       reply>>
    BY <1>4 DEF SendLength
  <2>3. /\ outcome' \in {"none", "OK", "found", "line", "error", "panic"}
        /\ pc' # "done" => outcome' = "none"
        /\ VerdictIsTrue'
    BY <2>1, OutcomeFrame
  <2>4. TypeOK'
    BY <1>t, <2>1, <2>3 DEF TypeOK, Step, Return
  <2>5. /\ pos > 0 /\ Prefix(pos - 1) /\ frame # "ended"
        /\ last = "eof" => pos = Len(content)
    BY <1>t, <2>1 DEF StreamInv, Step, Return
  <2>6. Prefix(pos - 1)'
    BY <2>1, <2>5 DEF Prefix
  <2>7. StreamInv'
    BY <2>1, <2>5, <2>6 DEF StreamInv, Step, Return
  <2> QED
    BY <1>t, <2>1, <2>3, <2>4, <2>7, ReplyFrame DEF CallInv
<1>5. CASE SendData
  <2>1. /\ UNCHANGED <<file, pos, last, got, deadline, expired, peer, reply>>
        /\ \/ /\ \/ last = "more" /\ Step("data", "read")
                 \/ last = "eof" /\ Step("data", "terminator")
                 \/ last = "error" /\ Return("data", "error")
              /\ frame' = "chunk"
              /\ received' = Append(received, content[pos])
           \/ Return("data", "error") /\ UNCHANGED <<frame, received>>
    BY <1>5 DEF SendData
  <2>2. \/ Step("data", "read") \/ Step("data", "terminator")
        \/ Return("data", "error")
    BY <2>1
  <2>3. /\ outcome' \in {"none", "OK", "found", "line", "error", "panic"}
        /\ pc' # "done" => outcome' = "none"
        /\ VerdictIsTrue'
    <3>1. UNCHANGED content
      BY <2>1
    <3>2. CASE Step("data", "read") \/ Return("data", "error")
      BY <3>1, <3>2, OutcomeFrame
    <3>3. CASE Step("data", "terminator")
      BY <3>1, <3>3, OutcomeFrame
    <3> QED
      BY <2>2, <3>2, <3>3
  <2>5. /\ pos > 0 /\ Prefix(pos - 1) /\ frame # "ended"
        /\ last = "eof" => pos = Len(content)
    BY <1>t, <2>1 DEF StreamInv, Step, Return
  <2>a. content[pos] \in Chunks
    BY <1>l, <2>5, ElementOfSeq
  <2>b. /\ Append(received, content[pos]) \in Seq(Chunks)
        /\ Len(Append(received, content[pos])) = Len(received) + 1
        /\ \A i \in 1 .. Len(received) :
             Append(received, content[pos])[i] = received[i]
        /\ Append(received, content[pos])[Len(received) + 1] = content[pos]
    BY <1>l, <2>a, AppendProperties
  <2>4. TypeOK'
    <3>1. received' \in Seq(Chunks)
      BY <1>l, <2>1, <2>b
    <3> QED
      BY <1>t, <2>1, <2>3, <3>1 DEF TypeOK, Step, Return
  <2>6. /\ frame' # "ended" /\ pc' \in {"read", "terminator", "done"}
        /\ pc' = "terminator" => pos = Len(content)
        /\ pc' # "done" => received' = Append(received, content[pos])
    BY <2>1, <2>5 DEF Step, Return
  <2>7. ASSUME received' = Append(received, content[pos]) PROVE Prefix(pos)'
    <3>1. Len(received) = pos - 1 /\ \A i \in 1 .. pos - 1 : received[i] = content[i]
      BY <2>5 DEF Prefix
    <3>2. Len(received') = pos
      BY <1>l, <2>7, <2>b, <3>1
    <3>3. ASSUME NEW i \in 1 .. pos PROVE received'[i] = content[i]
      <4>1. CASE i = pos
        BY <1>l, <2>7, <2>b, <3>1, <4>1
      <4>2. CASE i \in 1 .. pos - 1
        BY <2>7, <2>b, <3>1, <4>2
      <4> QED
        BY <1>l, <4>1, <4>2
    <3> QED
      BY <2>1, <3>2, <3>3 DEF Prefix
  <2>8. StreamInv'
    BY <2>1, <2>6, <2>7 DEF StreamInv
  <2> QED
    BY <1>t, <2>1, <2>3, <2>4, <2>8, ReplyFrame DEF CallInv
<1>6. CASE SendTerminator
  <2>1. /\ \/ Step("terminator", "response") /\ frame' = "ended"
           \/ Return("terminator", "error") /\ frame' = frame
        /\ UNCHANGED <<file, pos, last, got, deadline, expired, peer, received,
                       reply>>
    BY <1>6 DEF SendTerminator
  <2>3. /\ outcome' \in {"none", "OK", "found", "line", "error", "panic"}
        /\ pc' # "done" => outcome' = "none"
        /\ VerdictIsTrue'
    BY <2>1, OutcomeFrame
  <2>4. TypeOK'
    BY <1>t, <2>1, <2>3 DEF TypeOK, Step, Return
  <2>5. Prefix(pos) /\ pos = Len(content) /\ frame # "ended"
    BY <1>t, <2>1 DEF StreamInv, Step, Return
  <2>6. received = content
    BY <1>l, <2>5, SeqEqual DEF Prefix
  <2>7. StreamInv'
    BY <2>1, <2>5, <2>6 DEF StreamInv, Step, Return
  <2> QED
    BY <1>t, <2>1, <2>3, <2>4, <2>7, ReplyFrame DEF CallInv
<1>7. CASE ReadWord
  <2>1. /\ UNCHANGED <<file, pos, last, deadline, expired, clamd>>
        /\ Len(got) < Len(reply)
        /\ got' = Append(got, reply[Len(got) + 1])
        /\ pc = "response"
        /\ \/ pc' = "done" /\ outcome' = Result(got')
           \/ pc' = "response" /\ outcome' = outcome
    BY <1>7 DEF ReadWord, Step, Return
  <2>2. reply[Len(got) + 1] \in Words
    <3>1. Len(got) + 1 \in 1 .. Len(reply)
      BY <1>l, <2>1
    <3> QED
      BY <1>l, <3>1, ElementOfSeq
  <2>3. /\ got' \in Seq(Words) /\ Len(got') = Len(got) + 1
        /\ \A i \in 1 .. Len(got) : got'[i] = got[i]
        /\ got'[Len(got) + 1] = reply[Len(got) + 1]
    BY <1>l, <2>1, <2>2, AppendProperties
  <2>4. ReplyInv'
    <3>1. Len(got') <= Len(reply)
      BY <1>l, <2>1, <2>3
    <3>2. ASSUME NEW i \in 1 .. Len(got') PROVE got'[i] = reply[i]
      <4>1. i \in 1 .. Len(got) \/ i = Len(got) + 1
        BY <1>l, <2>3
      <4> QED
        BY <1>t, <2>3, <4>1 DEF ReplyInv
    <3> QED
      BY <1>t, <2>1, <3>1, <3>2 DEF ReplyInv
  <2>5. /\ Result(got)' \in {"OK", "found", "line", "error", "panic"}
        /\ Result(got)' = "OK" => content \notin Infected
        /\ Result(got)' = "found" => content \in Infected
    <3>1. Result(got)' = Result(got')
      BY <2>1 DEF Result
    <3>2. \A i \in 1 .. Len(got') : i \in 1 .. Len(reply) /\ got'[i] = reply[i]
      BY <1>l, <2>1, <2>3, <2>4 DEF ReplyInv
    <3>3. Result(got') = "OK" => content \notin Infected
      BY <1>t, <2>3, <3>2, ResultWords DEF ReplyInv
    <3>4. \A i \in 3 .. Len(got') : i \in 1 .. Len(got') /\ i \in 3 .. Len(reply)
      BY <1>l, <2>1, <2>3
    <3>5. Result(got') = "found" => content \in Infected
      BY <1>t, <2>3, <3>2, <3>4, ResultWords DEF ReplyInv
    <3> QED
      BY <2>3, <3>1, <3>3, <3>5, ResultWords
  <2>6. outcome' = Result(got)' \/ outcome' = outcome
    BY <2>1 DEF Result
  <2>7. outcome = "none"
    BY <2>1 DEF CallInv
  <2>8. TypeOK'
    BY <1>t, <2>1, <2>3, <2>5, <2>6 DEF TypeOK
  <2>9. StreamInv'
    BY <1>t, <2>1 DEF StreamInv
  <2>10. VerdictIsTrue'
    BY <1>t, <2>1, <2>5, <2>6 DEF VerdictIsTrue
  <2> QED
    BY <2>1, <2>4, <2>7, <2>8, <2>9, <2>10 DEF CallInv
<1>8. CASE ReadEnds
  <2>1. /\ UNCHANGED <<file, pos, last, got, deadline, expired, clamd>>
        /\ pc = "response" /\ pc' = "done" /\ outcome' = Result(got)
    BY <1>8 DEF ReadEnds, Return
  <2>2. /\ Result(got) \in {"OK", "found", "line", "error", "panic"}
        /\ Result(got) = "OK" => content \notin Infected
        /\ Result(got) = "found" => content \in Infected
    BY <1>t, ResultTrue
  <2>3. TypeOK'
    BY <1>t, <2>1, <2>2 DEF TypeOK
  <2>4. StreamInv' /\ VerdictIsTrue'
    BY <1>t, <2>1, <2>2 DEF StreamInv, VerdictIsTrue
  <2> QED
    BY <1>t, <2>1, <2>3, <2>4, ReplyFrame DEF CallInv
<1>9. CASE Answer
  <2>1. UNCHANGED <<file, client, deadline, expired, peer, frame, received>>
    BY <1>9 DEF Answer
  <2>2. op # "version" => Judged = content
    BY <1>9, <1>t DEF Answer, Asked, Judged, StreamInv
  <2>3. \/ reply' = <<"text", "\n">>
        \/ reply' = <<"stream:", "name", "FOUND", "\n">> /\ content \in Infected
        \/ reply' = <<"stream:", "OK", "\n">> /\ content \notin Infected
    BY <1>9, <2>2 DEF Answer
  <2>4. reply' \in Seq(Words)
    BY <2>3, LinesOfWords
  <2>5. got = <<>>
    BY <1>9, <1>t, <1>l, EmptySeq DEF Answer, ReplyInv
  <2>6. ReplyInv'
    BY <2>1, <2>3, <2>5 DEF ReplyInv
  <2>7. TypeOK'
    BY <1>t, <2>1, <2>4 DEF TypeOK
  <2>8. StreamInv' /\ VerdictIsTrue'
    BY <1>t, <2>1 DEF StreamInv, VerdictIsTrue, Prefix
  <2> QED
    BY <2>1, <2>6, <2>7, <2>8 DEF CallInv
<1>10. CASE Complain
  <2>1. /\ UNCHANGED <<file, client, deadline, expired, peer, frame, received>>
        /\ reply' \in OddLines
    BY <1>10 DEF Complain
  <2>4. reply' \in Seq(Words)
    BY <2>1, LinesOfWords
  <2>5. got = <<>>
    BY <1>10, <1>t, <1>l, EmptySeq DEF Complain, ReplyInv
  <2>6. ReplyInv'
    BY <2>1, <2>5 DEF ReplyInv, OddLines
  <2>7. TypeOK'
    BY <1>t, <2>1, <2>4 DEF TypeOK
  <2>8. StreamInv' /\ VerdictIsTrue'
    BY <1>t, <2>1 DEF StreamInv, VerdictIsTrue, Prefix
  <2> QED
    BY <2>1, <2>6, <2>7, <2>8 DEF CallInv
<1>11. CASE HangUp
  <2>1. /\ UNCHANGED <<file, client, deadline, expired, frame, received>>
        /\ peer' = "closed"
    BY <1>11 DEF HangUp
  <2>2. PICK n \in Len(got) .. Len(reply), cut \in {0, 1} :
          reply' = [i \in 1 .. n + cut |-> IF i <= n THEN reply[i] ELSE "part"]
    BY <1>11 DEF HangUp
  <2>3. /\ reply' \in Seq(Words)
        /\ Len(reply') = n + cut
        /\ \A i \in 1 .. n + cut : reply'[i] = IF i <= n THEN reply[i] ELSE "part"
    <3>1. n + cut \in Nat /\ n \in Nat /\ n <= Len(reply)
      BY <1>l
    <3>2. \A i \in 1 .. n + cut : (IF i <= n THEN reply[i] ELSE "part") \in Words
      <4>1. \A i \in 1 .. n : reply[i] \in Words
        BY <1>l, <3>1, ElementOfSeq
      <4>2. "part" \in Words
        BY DEF Words
      <4> QED
        BY <3>1, <4>1, <4>2
    <3>3. reply' \in [1 .. n + cut -> Words]
      BY <2>2, <3>2
    <3>4. reply' \in Seq(Words)
      BY <3>1, <3>3, SeqDef
    <3>5. Len(reply') = n + cut
      BY <3>1, <3>3, <3>4, LenProperties
    <3> QED
      BY <2>2, <3>4, <3>5
  <2>4. ReplyInv'
    <3>1. n \in Nat /\ n <= Len(reply) /\ Len(got) <= n /\ n + cut \in Nat
      BY <1>l
    <3>2. ASSUME NEW i \in 1 .. n + cut, reply'[i] # "part"
          PROVE  i \in 1 .. Len(reply) /\ reply'[i] = reply[i]
      BY <1>l, <2>3, <3>1, <3>2
    <3>3. ASSUME NEW i \in 1 .. Len(got)
          PROVE  i \in 1 .. n + cut /\ i <= n
      BY <1>l, <3>1
    <3>4. \A i \in 1 .. Len(reply') : reply'[i] = "OK" => content \notin Infected
      BY <1>t, <2>3, <3>2 DEF ReplyInv
    <3>5. ASSUME NEW i \in 3 .. Len(reply'), reply'[i] = "FOUND"
          PROVE  content \in Infected
      <4>1. i \in 1 .. n + cut /\ i >= 3
        BY <2>3, <3>1
      <4>2. i \in 3 .. Len(reply) /\ reply[i] = "FOUND"
        BY <1>l, <3>2, <3>5, <4>1
      <4> QED
        BY <1>t, <4>2 DEF ReplyInv
    <3>6. Len(got) <= Len(reply')
      BY <1>l, <2>3, <3>1
    <3>7. \A i \in 1 .. Len(got) : got[i] = reply'[i]
      BY <1>t, <2>3, <3>3 DEF ReplyInv
    <3> QED
      BY <2>1, <3>4, <3>5, <3>6, <3>7 DEF ReplyInv
  <2>7. TypeOK'
    BY <1>t, <2>1, <2>3 DEF TypeOK
  <2>8. StreamInv' /\ VerdictIsTrue'
    BY <1>t, <2>1 DEF StreamInv, VerdictIsTrue, Prefix
  <2> QED
    BY <2>1, <2>4, <2>7, <2>8 DEF CallInv
<1>12. CASE DeadlinePasses
  <2>1. UNCHANGED <<file, client, deadline, clamd>> /\ expired' = TRUE
    BY <1>12 DEF DeadlinePasses
  <2>2. expired' \in BOOLEAN
    BY <2>1, Zenon
  <2>7. TypeOK'
    BY <1>t, <2>1, <2>2 DEF TypeOK
  <2>8. StreamInv' /\ VerdictIsTrue'
    BY <1>t, <2>1 DEF StreamInv, VerdictIsTrue, Prefix
  <2> QED
    BY <1>t, <2>1, <2>7, <2>8, ReplyFrame DEF CallInv
<1>13. CASE UNCHANGED vars
  <2>1. UNCHANGED <<file, client, deadline, expired, clamd>>
    BY <1>13 DEF vars
  <2>7. TypeOK'
    BY <1>t, <2>1 DEF TypeOK
  <2>8. StreamInv' /\ VerdictIsTrue'
    BY <1>t, <2>1 DEF StreamInv, VerdictIsTrue, Prefix
  <2> QED
    BY <1>t, <2>1, <2>7, <2>8, ReplyFrame DEF CallInv
<1> QED
  BY <1>1, <1>2, <1>3, <1>4, <1>5, <1>6, <1>7, <1>8, <1>9, <1>10, <1>11, <1>12,
     <1>13 DEF Next, Client

-----------------------------------------------------------------------------
(* The theorems *)

\* The inductive invariant holds throughout.
THEOREM CallInvariant == Spec => []CallInv
  BY CallInit, CallStep, PTL DEF Spec

\* Type correctness: the client never reads past the file (More) and its states
\* and results are the ones the code has.
THEOREM TypeCorrect == Spec => []TypeOK
<1>1. CallInv => TypeOK
  BY DEF CallInv
<1> QED
  BY <1>1, CallInvariant, PTL

\* ScanStream and ScanFile return OK only for clean content and a signature only
\* for infected content, for every file, every answer of clamd and every failure.
THEOREM VerdictsTrue == Spec => []VerdictIsTrue
<1>1. CallInv => VerdictIsTrue
  BY DEF CallInv
<1> QED
  BY <1>1, CallInvariant, PTL

\* A step of the client or of clamd is a step of the abstract call, or none.
LEMMA AbstractStep == CallInv /\ CallInv' /\ [Next]_vars => [Abstract!Next]_(Abstract!vars)
<1> SUFFICES ASSUME CallInv, CallInv', [Next]_vars
             PROVE  Abstract!Next \/ UNCHANGED <<content, Call>>
  BY DEF Abstract!vars
<1> USE DEF file, client, clamd
<1>1. UNCHANGED content
  BY DEF Next, Client, newClamdClient, SendCommand, ReadChunk, SendLength,
         SendData, SendTerminator, ReadWord, ReadEnds, Answer, Complain, HangUp,
         DeadlinePasses, vars
<1>2. pc = "done" => UNCHANGED <<pc, outcome>>
  BY DEF Next, Client, newClamdClient, Connect, SendCommand, ReadChunk, SendLength,
         SendData, SendTerminator, ReadWord, ReadEnds, Step, Return, vars
<1>3. CASE pc = "done" \/ pc' # "done"
  <2>1. UNCHANGED Call
    BY <1>2, <1>3 DEF Call
  <2> QED
    BY <1>1, <2>1
<1>4. CASE pc # "done" /\ pc' = "done"
  <2>1. Call = "pending"
    BY <1>4 DEF Call
  <2>2. VerdictIsTrue'
    BY DEF CallInv
  <2>3. \/ Call' = "none"
        \/ Call' = "clean" /\ content \notin Infected
        \/ Call' = "infected" /\ content \in Infected
    BY <1>1, <1>4, <2>2 DEF Call, VerdictIsTrue
  <2> QED
    BY <1>1, <2>1, <2>3 DEF Abstract!Next, Abstract!Verdict, Abstract!NoVerdict
<1> QED
  BY <1>3, <1>4

\* The client implements the safety part of the abstract call: it returns at
\* most once, and a verdict it returns is true of the whole file.
THEOREM ImplementsSafety == Spec => Abstract!Safety
<1>1. Init => Abstract!Init
  BY DEF Init, Abstract!Init, Call
<1> QED
  BY <1>1, AbstractStep, CallInvariant, PTL DEF Spec, Abstract!Safety

=============================================================================
