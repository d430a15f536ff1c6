-------------------------------- MODULE Mime --------------------------------
(***************************************************************************)
(* The comparison of the MIME type found in a file with the one claimed    *)
(* for it (src/pkg/scanner/scanner.go, classifyConsistency).               *)
(*                                                                         *)
(* A type is its two halves in lower case and whether anything hangs on    *)
(* it: capitals, spaces or parameters.  The tables keep some of their rows.*)
(***************************************************************************)
EXTENDS Sequences

MimeTypes == [top : STRING, sub : STRING, dressed : BOOLEAN]

Type(top, sub) == [top |-> top, sub |-> sub, dressed |-> FALSE]

\* The empty string; with something that hangs on it, it is not empty.
NoType == Type("", "")

mimeBase_Raw(mime) == mime

mimeBase(mime) == [mime EXCEPT !.dressed = FALSE]

sameTopLevel(a, b) == mimeBase(a).top = mimeBase(b).top /\ mimeBase(a).top # ""

knownAliases ==
  { <<Type("application", "zip"), Type("application", "x-zip-compressed")>>,
    <<Type("application", "msword"), Type("application", "docx")>>,
    <<Type("image", "jpeg"), Type("image", "jpg")>> }

mimeAlias(a, b) ==
  \/ <<mimeBase(a), mimeBase(b)>> \in knownAliases
  \/ <<mimeBase(b), mimeBase(a)>> \in knownAliases

extMimeMap ==
  [zip |-> Type("application", "zip"), doc |-> Type("application", "msword"),
   docx |-> Type("application", "docx"), jpeg |-> Type("image", "jpeg"),
   png |-> Type("image", "png"), txt |-> Type("text", "plain")]

extToMime(ext) == IF ext \in DOMAIN extMimeMap THEN extMimeMap[ext] ELSE NoType

\* The claimed type counts, and the extension only without one.
classifyConsistency(detected, claimed, ext) ==
  LET reference == IF claimed = NoType THEN extToMime(ext) ELSE claimed
  IN IF detected = NoType THEN "UNKNOWN"
     ELSE IF reference = NoType THEN "EMPTY"
     ELSE IF \/ mimeBase(detected) = mimeBase(reference)
             \/ mimeAlias(detected, reference)
          THEN "CONSISTENT"
     ELSE IF sameTopLevel(detected, reference) THEN "MINOR_MISMATCH"
     ELSE "MISMATCH"

\* The analysis of a file that could be read.
computeChecksumAndMagicBytes(file) ==
  classifyConsistency(file.detected, file.claimed, file.ext)

=============================================================================
