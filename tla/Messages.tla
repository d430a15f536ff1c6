------------------------------ MODULE Messages ------------------------------
(***************************************************************************)
(* The data path of one message: what HandleScanMessage reads from it, how *)
(* its count and identifiers survive the retry queues, how a cancellation  *)
(* finds it, and how its result is classified, signed and sent             *)
(* (src/pkg/scanner/scanner.go).  ScanPipeline has the concurrency and the *)
(* faults, with all of this data left out; here one message is handled at  *)
(* a time and nothing fails but the scan.                                  *)
(*                                                                         *)
(* A definition X_Y is X with the bug Y: no specification uses it, the     *)
(* mutation checks put it in the place of X.                               *)
(***************************************************************************)
EXTENDS MessageFields, Mime, Signer

CONSTANTS
  Uploads,     \* the messages that may arrive (caseId, path, header), with the
               \* types of the file and the text of its result
  Cancels,     \* the identifiers that may be cancelled
  Prefix,      \* TempNFSPrefix, as the parts of a path
  MaxRetries   \* maxRetries

Arrivals ==
  [caseId : Ids, path : Paths, header : Headers,
   file : [detected : MimeTypes, claimed : MimeTypes, ext : STRING],
   result : Payloads]

ASSUME MessagesAssumption ==
  /\ Uploads \subseteq Arrivals
  /\ Cancels \subseteq Ids
  /\ Prefix \in Seq(STRING)
  /\ MaxRetries \in Nat /\ MaxRetries < MaxInt

VARIABLES
  signer,      \* the key of the signer, or "none" in unsigned mode
  cancelled,   \* the identifiers MarkCancelled was called with
  upload,      \* the message as it was published first
  msg,         \* the message as the last handler got it
  stage,       \* what became of it
  count,       \* the count read from its header
  attempts,    \* how often it has been rescheduled
  consistency, \* the classification of its file
  sent         \* the envelope on the exchange

vars ==
  <<signer, cancelled, upload, msg, stage, count, attempts, consistency, sent>>

Nothing == [empty |-> TRUE]

TypeOK ==
  /\ signer \in {"key", "none"}
  /\ cancelled \subseteq Cancels
  /\ upload \in Arrivals /\ msg \in Arrivals
  /\ stage \in {"queued", "discarded", "scanning", "sent", "dead"}
  /\ count \in 0 .. MaxInt
  /\ attempts \in 0 .. MaxRetries
  /\ consistency \in {"none", "CONSISTENT", "MINOR_MISMATCH", "MISMATCH",
                      "UNKNOWN", "EMPTY"}
  /\ sent = Nothing \/ sent.payload \in Payloads

Init ==
  /\ signer \in {"key", "none"}
  /\ cancelled = {}
  /\ upload \in Uploads /\ msg = upload
  /\ stage = "queued" /\ count = 0 /\ attempts = 0
  /\ consistency = "none" /\ sent = Nothing

-----------------------------------------------------------------------------

\* The identifier goes into the set as it came.
HandleCancelMessage(id) ==
  /\ cancelled' = cancelled \cup {id}
  /\ UNCHANGED <<signer, upload, msg, stage, count, attempts, consistency, sent>>

\* The handler as far as the call of runScan.
HandleScanMessage ==
  /\ stage = "queued"
  /\ msg' = [msg EXCEPT !.caseId = NormalizeUUID(@)]
  /\ \/ /\ msg'.caseId \in cancelled \/ ~validateTempPath(msg.path, Prefix)
        /\ stage' = "discarded"
        /\ UNCHANGED count
     \/ /\ msg'.caseId \notin cancelled /\ validateTempPath(msg.path, Prefix)
        /\ stage' = "scanning"
        /\ count' \in extractRetryCount(msg.header)
  /\ UNCHANGED <<signer, cancelled, upload, attempts, consistency, sent>>

\* The scan fails.
handleScanFailure ==
  /\ stage = "scanning"
  /\ \/ /\ count < MaxRetries
        /\ stage' = "queued"
        /\ msg' = [msg EXCEPT !.header = RetryHeader(count)]
        /\ attempts' = attempts + 1
     \/ /\ count >= MaxRetries
        /\ stage' = "dead"
        /\ UNCHANGED <<msg, attempts>>
  /\ UNCHANGED <<signer, cancelled, upload, count, consistency, sent>>

\* An envelope with a signer, the bare payload without.
publishToExchange(payload) ==
  sent' = IF signer # "none" THEN Sent(Sign(signer, payload))
          ELSE [payload |-> Marshal(payload), sig |-> Nothing]

\* The scan succeeds: the file is classified and the result signed and sent.
publishScanCompleted ==
  /\ stage = "scanning"
  /\ stage' = "sent"
  /\ consistency' = computeChecksumAndMagicBytes(upload.file)
  /\ publishToExchange(upload.result)
  /\ UNCHANGED <<signer, cancelled, upload, msg, count, attempts>>

Next ==
  \/ \E id \in Cancels : HandleCancelMessage(id)
  \/ HandleScanMessage
  \/ handleScanFailure
  \/ publishScanCompleted

Spec == Init /\ [][Next]_vars

-----------------------------------------------------------------------------
(* Reference definitions *)

\* Two spellings of one identifier.
SameId(a, b) == a = b \/ (a.form # "none" /\ b.form # "none" /\ a.id = b.id)

\* The names and the ".." of a path from behind its i-th part to its n-th.
Names(parts, i, n) == {k \in i + 1 .. n : parts[k] \notin {"", ".", ".."}}
Ups(parts, i, n) == {k \in i + 1 .. n : parts[k] = ".."}

\* The parts of a path that are names and that no later ".." takes back.
Staying(parts) ==
  {i \in DOMAIN parts :
     /\ parts[i] \notin {"", ".", ".."}
     /\ \A n \in i + 1 .. Len(parts) :
          Cardinality(Ups(parts, i, n)) <= Cardinality(Names(parts, i, n))}

\* The first names that stay are those of the prefix.
LeadsInto(prefix, parts) ==
  \E at \in [DOMAIN prefix -> Staying(parts)] :
    \A k \in DOMAIN prefix :
      /\ parts[at[k]] = prefix[k]
      /\ {i \in Staying(parts) : i < at[k]} = {at[j] : j \in 1 .. k - 1}

\* The count that a header denotes: its number, if an int can hold that and it is
\* not negative, and zero otherwise.
Denotes(h) ==
  IF /\ h.type \in Integral \cup {"float64"}
     /\ h.twice % 2 = 0 /\ h.twice \in 0 .. 2 * MaxInt
  THEN h.twice \div 2 ELSE 0

\* The float64 that follows the largest int.
JustAbove(h) == h.type = "float64" /\ h.twice = 2 * (MaxInt + 1)

\* The count has been read.
Counted == stage \in {"scanning", "sent", "dead"}

\* The same object with its fields in the opposite order.
Reversed(v) == [v EXCEPT !.fields = Reverse(@)]

-----------------------------------------------------------------------------
(* Properties *)

\* A message is scanned only if none of the cancelled identifiers, written in
\* the standard form or no UUID at all, is its case in any spelling; and
\* cancellations of other cases discard nothing.
CancellationMatches ==
  [][stage = "queued" /\ stage' # "queued" =>
       LET matching == {id \in cancelled : SameId(id, upload.caseId)}
       IN /\ stage' = "scanning" =>
               matching \cap {id \in Cancels : id.form \in {"standard", "none"}} = {}
          /\ stage' = "discarded" /\ matching = {} =>
               ~validateTempPath(upload.path, Prefix)]_vars

\* Exactly the files below the prefix are scanned, wherever "..", "." and
\* doubled separators lead.
ScannedInsidePrefix ==
  LET inside == /\ upload.path.absolute /\ ~upload.path.control
                /\ LeadsInto(Prefix, upload.path.parts)
  IN /\ stage \in {"scanning", "sent", "dead"} => inside
     /\ stage = "discarded" /\ inside => msg.caseId \in cancelled

\* The count of a message is the number its header denotes plus the times it
\* was rescheduled, whatever type the header has, at both ends of the range of
\* an int and beyond them; of the one float64 that the bound check lets through
\* above that range, OverflowPrevented speaks.
CountIsAttempts ==
  Counted /\ ~JustAbove(upload.header) =>
    count = Denotes(upload.header) + attempts

\* With a signer every result that is sent verifies as it is received, with
\* special characters in it too; the order of the fields does not matter, and a
\* receiver that brings the payload into the canonical form again has the same
\* bytes.
SentVerifies ==
  sent # Nothing /\ signer # "none" =>
    /\ Verify(signer, sent)
    /\ Sent(Sign(signer, Reversed(upload.result))) = sent
    /\ canonicalJSON(sent.payload) = sent.payload

\* The classification treats the two types alike, does not see capitals, spaces
\* or parameters, and takes an extension for the type it stands for.
ConsistencyStable ==
  consistency # "none" =>
    LET d == upload.file.detected
        c == upload.file.claimed
        e == upload.file.ext
        Bare(t) == [t EXCEPT !.dressed = FALSE]
    IN /\ c # NoType /\ d # NoType =>
            consistency = classifyConsistency(c, d, "none")
       /\ Bare(c) # NoType /\ Bare(d) # NoType =>
            consistency = classifyConsistency(Bare(d), Bare(c), e)
       /\ c = NoType =>
            consistency = classifyConsistency(d, extToMime(e), "none")

-----------------------------------------------------------------------------
(* What the comments claim and the code does not keep *)

\* "For float64 values, bounds-checks against math.MaxInt to prevent overflow."
\* A header that no int can hold is out of bounds and counts as zero.
OverflowPrevented == Counted => count = Denotes(upload.header) + attempts

=============================================================================
