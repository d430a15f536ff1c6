---------------------------- MODULE ClamdStream ----------------------------
(***************************************************************************)
(* One call of the clamd client (src/pkg/service/clamd/client.go and       *)
(* scan.go) against a clamd that may be slow, answer early, answer in      *)
(* pieces or go away: ScanStream (INSTREAM in chunks), ScanFile (SCAN by   *)
(* path) and Version.  The caller closes the connection as soon as the     *)
(* call returns.                                                           *)
(*                                                                         *)
(* A step is one Read or Write.  A file is a sequence of chunks.  A line   *)
(* of clamd is a sequence of words, "\n" its terminator; "name" stands for *)
(* a signature name that does not begin with OK, "text" for any other      *)
(* word and "part" for a word whose rest was lost.  clamd is external.     *)
(*                                                                         *)
(* A definition X_Y is X with the bug Y: no specification uses it, the     *)
(* mutation checks put it in the place of X.                               *)
(***************************************************************************)
EXTENDS Integers, Sequences

CONSTANTS
  Chunks,    \* what Read may return
  Contents,  \* what the file may hold, as sequences of chunks
  Infected,  \* the contents that clamd's database recognises
  MaxLine    \* clamdMaxSingleLineBytes, in words

ASSUME ClamdStreamAssumption ==
  /\ Contents \subseteq Seq(Chunks)
  /\ MaxLine \in Nat

VARIABLES
  op,        \* the call
  content,   \* what the file holds
  addrs,     \* the addresses configured
  pc,
  outcome,   \* what the call returned
  pos,       \* chunks read from the file
  last,      \* what Read returned beside the last one
  got,       \* words of the response that read has
  deadline,  \* SetDeadline was called
  expired,   \* and has passed
  \* clamd
  peer,      \* its end of the connection
  frame,     \* how far the request is
  received,  \* the chunks it has
  reply      \* the line it sends

file == <<op, content, addrs>>
client == <<pc, outcome, pos, last, got>>
clamd == <<peer, frame, received, reply>>
vars == <<file, client, deadline, expired, clamd>>

Ops == {"stream", "file", "version"}
Words == {"stream:", "OK", "name", "FOUND", "ERROR", "text", "part", "\n"}

TypeOK ==
  /\ op \in Ops
  /\ content \in Contents
  /\ addrs \subseteq {"tcp", "unix"}
  /\ pc \in {"new", "command", "read", "length", "data", "terminator",
             "response", "done"}
  /\ outcome \in {"none", "OK", "found", "line", "error", "panic"}
  /\ pos \in 0 .. Len(content)
  /\ last \in {"more", "eof", "error"}
  /\ got \in Seq(Words)
  /\ deadline \in BOOLEAN /\ expired \in BOOLEAN
  /\ peer \in {"up", "closed"}
  /\ frame \in {"none", "command", "length", "chunk", "ended"}
  /\ received \in Seq(Chunks)
  /\ reply \in Seq(Words)

Init ==
  /\ op \in Ops
  /\ content \in Contents
  /\ addrs \in SUBSET {"tcp", "unix"}
  /\ pc = "new" /\ outcome = "none"
  /\ pos = 0 /\ last = "more"
  /\ got = <<>>
  /\ deadline = FALSE /\ expired = FALSE
  /\ peer = "up" /\ frame = "none" /\ received = <<>> /\ reply = <<>>

-----------------------------------------------------------------------------
(* Reading an answer *)

Trimmed(line) ==
  IF line # <<>> /\ line[Len(line)] = "\n" THEN SubSeq(line, 1, Len(line) - 1)
  ELSE line

\* " X" is a suffix of the line.
EndsWith(words, x) == Len(words) > 1 /\ words[Len(words)] = x

Clean_Otherwise(words) == words # <<>>

\* Only an explicit OK is clean.
Clean(words) == EndsWith(words, "OK")

\* The name starts after the last ": ".  When nothing stands between that and
\* " FOUND" the slice bounds cross and the function panics.
parseScanResponse(line) ==
  LET words == Trimmed(line)
      n == Len(words)
  IN IF n = 0 \/ EndsWith(words, "ERROR") THEN "error"
     ELSE IF EndsWith(words, "FOUND")
          THEN IF words[n - 1] = "stream:" THEN "panic"
               ELSE IF \E i \in 1 .. n - 2 : words[i] = "stream:" THEN "found"
               ELSE "error"
     ELSE IF Clean(words) THEN "OK"
     ELSE "error"

\* What ReadBytes leaves becomes the result: nothing at all is an error and so
\* is a line at the limit, but a line without its end is taken.
Result(line) ==
  IF line = <<>> \/ Len(line) >= MaxLine THEN "error"
  ELSE IF op = "version" THEN "line"
  ELSE parseScanResponse(line)

-----------------------------------------------------------------------------
(* The client *)

Step(from, to) == pc = from /\ pc' = to /\ UNCHANGED outcome

Return(from, result) == pc = from /\ pc' = "done" /\ outcome' = result

\* A Write that clamd may still read, and one that fails.
Sends == ~expired
SendFails == expired \/ peer = "closed"

SetDeadline_Forgotten == UNCHANGED deadline

SetDeadline == deadline' = TRUE

\* Dial, then one deadline for all that follows.
Connect ==
  \/ Step("new", "command") /\ SetDeadline
  \/ Return("new", "error") /\ UNCHANGED deadline

newClamdClient ==
  /\ \/ addrs # {} /\ Connect
     \/ addrs = {} /\ Return("new", "error") /\ UNCHANGED deadline
  /\ UNCHANGED <<file, pos, last, got, expired, clamd>>

\* The command line of ScanStream, ScanFile, which wants an absolute path, or
\* sendAndReceive.
SendCommand ==
  /\ \/ /\ Sends
        /\ Step("command", IF op = "stream" THEN "read" ELSE "response")
        /\ frame' = "command"
     \/ /\ SendFails \/ op = "file"
        /\ Return("command", "error")
        /\ UNCHANGED frame
  /\ UNCHANGED <<file, pos, last, got, deadline, expired, peer, received, reply>>

More_OffByOne == pos <= Len(content)

AtEnd_AnyError == TRUE

\* Where Read finds another chunk, and where it finds only io.EOF.
More == pos < Len(content)
AtEnd == pos = Len(content)

\* r.Read: a chunk, with or without an error beside it, or only an error.
ReadChunk ==
  /\ \/ /\ Step("read", "length")
        /\ More
        /\ pos' = pos + 1
        /\ last' \in {"more", "error"} \cup {e \in {"eof"} : pos' = Len(content)}
     \/ /\ Step("read", "terminator")
        /\ AtEnd
        /\ last' = "eof"
        /\ UNCHANGED pos
     \/ /\ Return("read", "error")
        /\ last' = "error"
        /\ UNCHANGED pos
  /\ UNCHANGED <<file, got, deadline, expired, clamd>>

\* The four bytes of the length.
SendLength ==
  /\ \/ Sends /\ Step("length", "data") /\ frame' = "length"
     \/ SendFails /\ Return("length", "error") /\ UNCHANGED frame
  /\ UNCHANGED <<file, pos, last, got, deadline, expired, peer, received, reply>>

\* The chunk itself; the error Read returned beside it is looked at only now.
SendData ==
  /\ \/ /\ Sends
        /\ \/ last = "more" /\ Step("data", "read")
           \/ last = "eof" /\ Step("data", "terminator")
           \/ last = "error" /\ Return("data", "error")
        /\ frame' = "chunk"
        /\ received' = Append(received, content[pos])
     \/ /\ SendFails
        /\ Return("data", "error")
        /\ UNCHANGED <<frame, received>>
  /\ UNCHANGED <<file, pos, last, got, deadline, expired, peer, reply>>

SendTerminator ==
  /\ \/ Sends /\ Step("terminator", "response") /\ frame' = "ended"
     \/ SendFails /\ Return("terminator", "error") /\ UNCHANGED frame
  /\ UNCHANGED <<file, pos, last, got, deadline, expired, peer, received, reply>>

\* read gets one more word.  What is in the buffer is read even past the
\* deadline.
ReadWord ==
  /\ Len(got) < Len(reply)
  /\ got' = Append(got, reply[Len(got) + 1])
  /\ \/ /\ reply[Len(got) + 1] = "\n" \/ Len(got') >= MaxLine
        /\ Return("response", Result(got'))
     \/ /\ reply[Len(got) + 1] # "\n" /\ Len(got') < MaxLine
        /\ Step("response", "response")
  /\ UNCHANGED <<file, pos, last, deadline, expired, clamd>>

\* read meets the end of the connection or the deadline.
ReadEnds ==
  /\ expired \/ (peer = "closed" /\ Len(got) >= Len(reply))
  /\ Return("response", Result(got))
  /\ UNCHANGED <<file, pos, last, got, deadline, expired, clamd>>

-----------------------------------------------------------------------------
(* clamd and the clock *)

\* clamd has the whole request.
Asked == frame = IF op = "stream" THEN "ended" ELSE "command"

\* What it has to judge: the stream it got, or the file at the path.
Judged == IF op = "stream" THEN received ELSE content

Answer ==
  /\ peer = "up" /\ reply = <<>> /\ Asked
  /\ reply' = IF op = "version" THEN <<"text", "\n">>
              ELSE IF Judged \in Infected THEN <<"stream:", "name", "FOUND", "\n">>
              ELSE <<"stream:", "OK", "\n">>
  /\ UNCHANGED <<file, client, deadline, expired, peer, frame, received>>

\* An error (the size limit, a missing file) or something unexpected, at any
\* time after the command.
OddLines ==
  { <<"\n">>, <<"text", "\n">>, <<"text", "ERROR", "\n">>,
    <<"text", "FOUND", "\n">>, <<"stream:", "FOUND", "\n">>,
    <<"text", "text", "text", "text", "text", "\n">> }

Complain ==
  /\ peer = "up" /\ reply = <<>> /\ frame # "none"
  /\ reply' \in OddLines
  /\ UNCHANGED <<file, client, deadline, expired, peer, frame, received>>

\* The connection ends; what the client has not read may be lost, from any byte
\* on.
HangUp ==
  /\ peer = "up"
  /\ peer' = "closed"
  /\ \E n \in Len(got) .. Len(reply), cut \in {0, 1} :
       /\ cut = 1 => n < Len(reply)
       /\ reply' = [i \in 1 .. n + cut |-> IF i <= n THEN reply[i] ELSE "part"]
  /\ UNCHANGED <<file, client, deadline, expired, frame, received>>

DeadlinePasses ==
  /\ deadline /\ ~expired
  /\ expired' = TRUE
  /\ UNCHANGED <<file, client, deadline, clamd>>

-----------------------------------------------------------------------------

Client ==
  \/ newClamdClient \/ SendCommand \/ ReadChunk \/ SendLength \/ SendData
  \/ SendTerminator \/ ReadWord \/ ReadEnds

Next == Client \/ (pc # "done" /\ (Answer \/ Complain \/ HangUp \/ DeadlinePasses))

Spec == Init /\ [][Next]_vars

\* The client runs on and the clock of the deadline does.  Nothing is assumed of
\* clamd.
FairSpec == Spec /\ WF_vars(Client) /\ WF_vars(pc # "done" /\ DeadlinePasses)

-----------------------------------------------------------------------------
(* Properties *)

\* A verdict is about the whole file: OK only if the content is clean, a name
\* only if it is infected, however the file, the connection or clamd fails.
VerdictIsTrue ==
  /\ outcome = "OK" => content \notin Infected
  /\ outcome = "found" => content \in Infected

\* The call as its caller sees it.
Call ==
  IF pc # "done" THEN "pending"
  ELSE IF outcome = "OK" THEN "clean"
  ELSE IF outcome = "found" THEN "infected"
  ELSE "none"

Abstract == INSTANCE ScanCall WITH call <- Call

\* The call implements the abstract one: it returns, once, and with a verdict
\* only if that verdict is true.
ImplementsScanCall == Abstract!Spec

=============================================================================
