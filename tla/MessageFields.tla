--------------------------- MODULE MessageFields ---------------------------
(***************************************************************************)
(* What HandleScanMessage reads out of a message before it scans: the      *)
(* identifiers, the path and the retry header (src/pkg/scanner/scanner.go, *)
(* src/pkg/model/scan_result_messages.go).                                 *)
(*                                                                         *)
(* An identifier is the UUID it spells, if any, and the way it spells it.  *)
(* A path is the sequence of what stands between its separators.  A header *)
(* is a typed AMQP value; numbers are in halves, so that a float may have  *)
(* a fraction, and int and int64 have IntBits bits.                        *)
(***************************************************************************)
EXTENDS Integers, Sequences, SequencesExt

CONSTANT IntBits

ASSUME IntBitsAssumption == IntBits \in Nat \ {0}

-----------------------------------------------------------------------------
(* Identifiers *)

Forms == {"standard", "upper", "hex", "urn", "braced"}
Ids == [id : Nat, form : Forms \cup {"none"}]

\* uuid.Parse takes the standard form, 32 digits, a URN or braces, in either
\* case, and String writes the standard form in lower case.
Canonical(id) == [id EXCEPT !.form = "standard"]

NormalizeUUID_HexOnly(id) == IF id.form = "hex" THEN Canonical(id) ELSE id

\* What is no UUID stays as it is.
NormalizeUUID(id) == IF id.form = "none" THEN id ELSE Canonical(id)

-----------------------------------------------------------------------------
(* Paths *)

Paths == [absolute : BOOLEAN, parts : Seq(STRING), control : BOOLEAN]

Clean_KeepsDotDot(parts) == SelectSeq(parts, LAMBDA c : c \notin {"", "."})

\* One more part of a path: nothing, a name, or back to the parent if any.
Walk(done, c) ==
  IF c \in {"", "."} THEN done
  ELSE IF c # ".." THEN Append(done, c)
  ELSE IF done = <<>> THEN <<>> ELSE Front(done)

\* filepath.Clean of an absolute path.
Clean(parts) ==
  LET walked[n \in 0 .. Len(parts)] ==
        IF n = 0 THEN <<>> ELSE Walk(walked[n - 1], parts[n])
  IN walked[Len(parts)]

\* The prefix ends in a separator, so that only whole names match; it is not
\* cleaned itself.
validateTempPath(path, prefix) ==
  /\ ~path.control
  /\ path.absolute
  /\ IsPrefix(prefix, Clean(path.parts))

-----------------------------------------------------------------------------
(* The retry header *)

MaxInt == 2 ^ (IntBits - 1) - 1
MinInt == -(2 ^ (IntBits - 1))

\* What the AMQP client decodes: integers are whole and have their width, a
\* "string" is any value that is no number, and "none" is a missing header.
Integral == {"int", "int32", "int64"}
HeaderTypes == Integral \cup {"float64", "string", "none"}
Headers ==
  {h \in [type : HeaderTypes, twice : Int] :
     h.type \in Integral => h.twice % 2 = 0 /\ h.twice \div 2 \in MinInt .. MaxInt}

\* The bounds of the check as float64: MaxInt has more bits than a float64 has
\* and rounds up to the next power of two.
InRange(twice) == twice <= 2 * (MaxInt + 1) /\ twice >= 2 * MinInt

\* int(val): what a value out of range becomes depends on the machine.
Converted(twice) ==
  IF twice \div 2 > MaxInt THEN {MinInt, MaxInt} ELSE {twice \div 2}

Clamped_Not(n) == n

\* Negative counts are zero.
Clamped(n) == IF n < 0 THEN 0 ELSE n

\* The results extractRetryCount may have.
extractRetryCount(header) ==
  IF header.type \in Integral THEN {Clamped(header.twice \div 2)}
  ELSE IF /\ header.type = "float64"
          /\ InRange(header.twice)
          /\ header.twice % 2 = 0
       THEN {Clamped(n) : n \in Converted(header.twice)}
       ELSE {0}

RetryHeader_Same(count) == [type |-> "int64", twice |-> 2 * count]

\* What handleScanFailure writes for the next attempt.
RetryHeader(count) == [type |-> "int64", twice |-> 2 * (count + 1)]

=============================================================================
