-------------------------- MODULE Messages_proofs --------------------------
(***************************************************************************)
(* Proofs about the data path of a message, for any uploads of the types   *)
(* that decoding admits, any cancelled identifiers, any prefix, any width  *)
(* of an int and any retry limit below the largest int.                    *)
(***************************************************************************)
EXTENDS Messages, FiniteSetTheorems, SequenceTheorems, WellFoundedInduction, TLAPS

\* The bounds of an int: two's complement, and room for the retry limit.
LEMMA IntBounds ==
  /\ MaxInt \in Nat /\ MinInt \in Int
  /\ MinInt = -(MaxInt + 1)
  /\ MaxRetries \in Nat /\ MaxRetries < MaxInt
<1>1. 2 ^ (IntBits - 1) \in Int
  BY IntBitsAssumption
<1> QED
  BY <1>1, MessagesAssumption DEF MaxInt, MinInt

\* An upload has the fields of a decoded message.
LEMMA UploadFields ==
  ASSUME NEW u \in Arrivals
  PROVE  /\ u.caseId \in Ids /\ u.path \in Paths /\ u.header \in Headers
         /\ u.file.detected \in MimeTypes /\ u.file.claimed \in MimeTypes
         /\ u.file.ext \in STRING
         /\ u.result \in Payloads
BY DEF Arrivals

-----------------------------------------------------------------------------
(***************************************************************************)
(* The retry count.                                                        *)
(***************************************************************************)

\* The numbers a header may be read as: what it denotes, but for the one float64
\* whose conversion the machine decides.
Readings(h) == IF JustAbove(h) THEN {0, MaxInt} ELSE {Denotes(h)}

\* extractRetryCount reads nothing else, and that is never negative.
LEMMA ExtractDenotes ==
  ASSUME NEW h \in Headers
  PROVE  /\ extractRetryCount(h) \subseteq Readings(h)
         /\ Readings(h) \subseteq 0 .. MaxInt
<1> DEFINE half == h.twice \div 2
<1>1. /\ h.twice \in Int /\ half \in Int
      /\ MaxInt \in Nat /\ MinInt = -(MaxInt + 1)
  BY IntBounds DEF Headers
<1>2. CASE h.type \in Integral
  <2>1. h.twice % 2 = 0 /\ h.twice = 2 * half /\ half \in MinInt .. MaxInt
    BY <1>1, <1>2 DEF Headers
  <2>2. h.type # "float64"
    BY <1>2 DEF Integral
  <2>3. extractRetryCount(h) = {Clamped(half)}
    BY <1>2 DEF extractRetryCount
  <2> QED
    BY <1>1, <1>2, <2>1, <2>2, <2>3 DEF Readings, JustAbove, Denotes, Clamped
<1>3. CASE h.type = "float64" /\ InRange(h.twice) /\ h.twice % 2 = 0
  <2>1. h.twice = 2 * half /\ half \in MinInt .. MaxInt + 1
    BY <1>1, <1>3 DEF InRange
  <2>2. extractRetryCount(h) = {Clamped(n) : n \in Converted(h.twice)}
    BY <1>3 DEF extractRetryCount, Integral
  <2>3. CASE half > MaxInt
    BY <1>1, <1>3, <2>1, <2>2, <2>3 DEF Readings, JustAbove, Denotes, Clamped, Converted
  <2>4. CASE ~(half > MaxInt)
    BY <1>1, <1>3, <2>1, <2>2, <2>4 DEF Readings, JustAbove, Denotes, Clamped, Converted
  <2> QED
    BY <2>3, <2>4
<1>4. CASE /\ h.type \notin Integral
           /\ ~(h.type = "float64" /\ InRange(h.twice) /\ h.twice % 2 = 0)
  <2>1. extractRetryCount(h) = {0}
    BY <1>4 DEF extractRetryCount
  <2>2. Readings(h) = {0}
    BY <1>1, <1>4 DEF Readings, JustAbove, Denotes, InRange
  <2> QED
    BY <1>1, <2>1, <2>2
<1> QED
  BY <1>2, <1>3, <1>4

\* The header of the next attempt denotes the next number.
LEMMA RetryHeaderDenotes ==
  ASSUME NEW n \in 0 .. MaxRetries - 1
  PROVE  RetryHeader(n) \in Headers /\ Readings(RetryHeader(n)) = {n + 1}
<1> DEFINE h == RetryHeader(n)
<1>0. 2 * (n + 1) \in Int
  BY IntBounds
<1>1. h.type = "int64" /\ h.twice = 2 * (n + 1) /\ h \in [type : HeaderTypes, twice : Int]
  BY <1>0 DEF RetryHeader, HeaderTypes, Integral
<1>2. /\ n + 1 \in 0 .. MaxInt /\ h.twice \in 0 .. 2 * MaxInt
      /\ h.twice % 2 = 0 /\ h.twice \div 2 = n + 1
      /\ MinInt <= n + 1
  BY <1>1, IntBounds
<1> HIDE DEF h
<1>3. h \in Headers
  BY <1>1, <1>2, IntBounds DEF Headers
<1>4. Readings(h) = {n + 1}
  BY <1>1, <1>2 DEF Readings, JustAbove, Denotes, Integral
<1> QED
  BY <1>3, <1>4 DEF h

-----------------------------------------------------------------------------
(***************************************************************************)
(* Identifiers and types.                                                  *)
(***************************************************************************)

\* Normalising an identifier gives another spelling of it, and normalising twice
\* changes nothing more.
LEMMA NormalizeSpells ==
  ASSUME NEW u \in Ids
  PROVE  /\ NormalizeUUID(u) \in Ids
         /\ SameId(NormalizeUUID(u), u)
         /\ NormalizeUUID(NormalizeUUID(u)) = NormalizeUUID(u)
BY DEF Ids, Forms, NormalizeUUID, Canonical, SameId

\* A spelling in the standard form, or one that is no UUID, is what the
\* identifier normalises to.
LEMMA StandardIsNormal ==
  ASSUME NEW u \in Ids, NEW id \in Ids, SameId(id, u),
         id.form \in {"standard", "none"}
  PROVE  NormalizeUUID(u) = id
<1>1. CASE id.form = "none"
  BY <1>1 DEF SameId, NormalizeUUID
<1>2. CASE id.form = "standard"
  <2>1. u.form # "none" /\ u.id = id.id
    BY <1>2 DEF SameId
  <2>2. Canonical(u) = [id |-> u.id, form |-> "standard"]
    BY DEF Canonical, Ids
  <2>3. id = [id |-> id.id, form |-> id.form]
    BY DEF Ids
  <2> QED
    BY <1>2, <2>1, <2>2, <2>3 DEF NormalizeUUID
<1> QED
  BY <1>1, <1>2

\* The comparison of two types does not depend on which of them is which.
LEMMA CompareSymmetric ==
  ASSUME NEW a, NEW b
  PROVE  /\ mimeAlias(a, b) = mimeAlias(b, a)
         /\ sameTopLevel(a, b) = sameTopLevel(b, a)
BY DEF mimeAlias, sameTopLevel

\* What hangs on a type is gone after mimeBase.
LEMMA BaseOfBare ==
  ASSUME NEW t \in MimeTypes
  PROVE  /\ [t EXCEPT !.dressed = FALSE] \in MimeTypes
         /\ mimeBase([t EXCEPT !.dressed = FALSE]) = mimeBase(t)
         /\ t = NoType => [t EXCEPT !.dressed = FALSE] = NoType
<1> DEFINE b == [t EXCEPT !.dressed = FALSE]
<1>1. b \in MimeTypes /\ [b EXCEPT !.dressed = FALSE] = b
  BY DEF MimeTypes
<1>2. ASSUME t = NoType PROVE b = t
  <2>1. t.dressed = FALSE
    BY <1>2 DEF NoType, Type
  <2> QED
    BY <2>1 DEF MimeTypes
<1> QED
  BY <1>1, <1>2 DEF mimeBase

\* The result of the comparison is one of the five.
LEMMA ClassifyRange ==
  ASSUME NEW d, NEW c, NEW e
  PROVE  classifyConsistency(d, c, e) \in
           {"CONSISTENT", "MINOR_MISMATCH", "MISMATCH", "UNKNOWN", "EMPTY"}
BY DEF classifyConsistency

\* Two types that are both known may change places.
LEMMA ClassifySymmetric ==
  ASSUME NEW d, NEW c, NEW e, NEW f, d # NoType, c # NoType
  PROVE  classifyConsistency(d, c, e) = classifyConsistency(c, d, f)
<1>1. (mimeBase(d) = mimeBase(c)) = (mimeBase(c) = mimeBase(d))
  OBVIOUS
<1> QED
  BY <1>1, CompareSymmetric DEF classifyConsistency

\* Capitals, spaces and parameters of known types make no difference.
LEMMA ClassifyBare ==
  ASSUME NEW d \in MimeTypes, NEW c \in MimeTypes, NEW e,
         [d EXCEPT !.dressed = FALSE] # NoType,
         [c EXCEPT !.dressed = FALSE] # NoType
  PROVE  classifyConsistency(d, c, e) =
           classifyConsistency([d EXCEPT !.dressed = FALSE],
                               [c EXCEPT !.dressed = FALSE], e)
<1> DEFINE bd == [d EXCEPT !.dressed = FALSE]
           bc == [c EXCEPT !.dressed = FALSE]
<1>1. /\ mimeBase(bd) = mimeBase(d) /\ mimeBase(bc) = mimeBase(c)
      /\ d # NoType /\ c # NoType
  BY BaseOfBare
<1>2. bd # NoType /\ bc # NoType
  OBVIOUS
<1> HIDE DEF bd, bc
<1>3. /\ mimeAlias(bd, bc) = mimeAlias(d, c)
      /\ sameTopLevel(bd, bc) = sameTopLevel(d, c)
  BY <1>1 DEF mimeAlias, sameTopLevel
<1>4. classifyConsistency(d, c, e) = classifyConsistency(bd, bc, e)
  BY <1>1, <1>2, <1>3 DEF classifyConsistency
<1> QED
  BY <1>4 DEF bd, bc

\* Without a claimed type the extension stands for one.
LEMMA ClassifyExtension ==
  ASSUME NEW d, NEW e
  PROVE  classifyConsistency(d, NoType, e) =
           classifyConsistency(d, extToMime(e), "none")
<1>1. extToMime("none") = NoType
  BY DEF extToMime, extMimeMap
<1> QED
  BY <1>1 DEF classifyConsistency

-----------------------------------------------------------------------------
(***************************************************************************)
(* Induction.  The provers take no operator for a parameter, but they take *)
(* a set: a rule about sets of numbers follows from the least element that *)
(* every set of numbers has.                                               *)
(***************************************************************************)
LessThan == {ss \in Nat \X Nat : ss[1] < ss[2]}

\* The order of the numbers is well founded.
LEMMA LessThanWellFounded == IsWellFoundedOn(LessThan, Nat)
BY NatLessThanWellFounded, Zenon DEF OpToRel, LessThan

\* A set of numbers that is not empty has a least element.
LEMMA LeastNumber ==
  ASSUME NEW T, T \subseteq Nat, T # {}
  PROVE  \E x \in T : \A y \in T : x <= y
<1>1. PICK x \in T : \A y \in T : ~(<<y, x>> \in LessThan)
  BY LessThanWellFounded, WFMin
<1>2. ASSUME NEW y \in T PROVE x <= y
  <2>1. ~(<<y, x>> \in LessThan)
    BY <1>1
  <2>2. x \in Nat /\ y \in Nat
    OBVIOUS
  <2>3. y < x => <<y, x>> \in LessThan
    BY <2>2 DEF LessThan
  <2> QED
    BY <2>1, <2>2, <2>3, SMT
<1> QED
  BY <1>2

\* A set with zero and with the successor of each of its numbers has them all.
LEMMA NumbersByInduction ==
  ASSUME NEW T, 0 \in T, \A n \in Nat : n \in T => n + 1 \in T
  PROVE  Nat \subseteq T
<1> SUFFICES ASSUME Nat \ T # {} PROVE FALSE
  OBVIOUS
<1>1. PICK x \in Nat \ T : \A y \in Nat \ T : x <= y
  BY LeastNumber
<1>2. x # 0 /\ x - 1 \in Nat /\ x = (x - 1) + 1
  BY <1>1
<1>3. x - 1 \in T
  BY <1>1, <1>2
<1> QED
  BY <1>1, <1>2, <1>3

-----------------------------------------------------------------------------
(***************************************************************************)
(* Paths.                                                                  *)
(***************************************************************************)
IsName(c) == c \notin {"", ".", ".."}
IsUp(c) == c = ".."
IsNothing(c) == c \in {"", "."}

\* A part is of one kind.
LEMMA PartKinds ==
  ASSUME NEW c
  PROVE  /\ IsNothing(c) \/ IsUp(c) \/ IsName(c)
         /\ ~(IsNothing(c) /\ IsUp(c))
         /\ ~(IsName(c) /\ (IsNothing(c) \/ IsUp(c)))
BY Zenon DEF IsNothing, IsUp, IsName

\* Staying, as far as the first n parts of the path tell.
StayingTo(parts, n) ==
  {i \in 1 .. n :
     /\ IsName(parts[i])
     /\ \A m \in i + 1 .. n :
          Cardinality(Ups(parts, i, m)) <= Cardinality(Names(parts, i, m))}

\* How many names the parts behind the i-th leave, up to the n-th.
Left(parts, i, n) ==
  Cardinality(Names(parts, i, n)) - Cardinality(Ups(parts, i, n))

\* Names and ".." are counted one by one.
LEMMA CountedParts ==
  ASSUME NEW parts, NEW i \in Nat, NEW n \in Nat, i <= n
  PROVE  /\ Cardinality(Names(parts, i, n)) \in Nat
         /\ Cardinality(Ups(parts, i, n)) \in Nat
         /\ Left(parts, i, i) = 0
         /\ Left(parts, i, n + 1) =
              IF IsName(parts[n + 1]) THEN Left(parts, i, n) + 1
              ELSE IF IsUp(parts[n + 1]) THEN Left(parts, i, n) - 1
              ELSE Left(parts, i, n)
<1> DEFINE N == Names(parts, i, n)
           U == Ups(parts, i, n)
           c == parts[n + 1]
<1>1. IsFiniteSet(i + 1 .. n) /\ N \in SUBSET (i + 1 .. n) /\ U \in SUBSET (i + 1 .. n)
  <2>1. i + 1 \in Int /\ n \in Int
    OBVIOUS
  <2>2. IsFiniteSet(i + 1 .. n)
    BY <2>1, FS_Interval
  <2>3. N \in SUBSET (i + 1 .. n)
    BY DEF Names
  <2>4. U \in SUBSET (i + 1 .. n)
    BY DEF Ups
  <2> QED
    BY <2>2, <2>3, <2>4
<1>2. /\ IsFiniteSet(N) /\ IsFiniteSet(U)
      /\ Cardinality(N) \in Nat /\ Cardinality(U) \in Nat
  BY <1>1, FS_Subset, FS_CardinalityType
<1>3. n + 1 \notin N /\ n + 1 \notin U
  <2>1. n + 1 \notin i + 1 .. n
    OBVIOUS
  <2> QED
    BY <1>1, <2>1
<1>4. i + 1 .. n + 1 = (i + 1 .. n) \cup {n + 1}
  OBVIOUS
<1>5. Names(parts, i, n + 1) = IF IsName(c) THEN N \cup {n + 1} ELSE N
  BY <1>4 DEF Names, IsName
<1>6. Ups(parts, i, n + 1) = IF IsUp(c) THEN U \cup {n + 1} ELSE U
  BY <1>4 DEF Ups, IsUp
<1>7. /\ Cardinality(N \cup {n + 1}) = Cardinality(N) + 1
      /\ Cardinality(U \cup {n + 1}) = Cardinality(U) + 1
  BY <1>2, <1>3, FS_AddElement
<1>8. ~(IsName(c) /\ IsUp(c))
  BY PartKinds
<1>9. Names(parts, i, i) = {} /\ Ups(parts, i, i) = {} /\ Cardinality({}) = 0
  <2>1. i + 1 .. i = {}
    OBVIOUS
  <2>2. Names(parts, i, i) = {}
    BY <2>1 DEF Names
  <2>3. Ups(parts, i, i) = {}
    BY <2>1 DEF Ups
  <2>4. Cardinality({}) = 0
    BY FS_EmptySet
  <2> QED
    BY <2>2, <2>3, <2>4
<1>10. Left(parts, i, i) = 0
  BY <1>9 DEF Left
<1> HIDE DEF N, U, c
<1>11. Left(parts, i, n) = Cardinality(N) - Cardinality(U)
  BY DEF Left, N, U
<1>12. Left(parts, i, n + 1) =
         IF IsName(c) THEN Left(parts, i, n) + 1
         ELSE IF IsUp(c) THEN Left(parts, i, n) - 1
         ELSE Left(parts, i, n)
  BY <1>2, <1>5, <1>6, <1>7, <1>8, <1>11 DEF Left
<1> QED
  BY <1>2, <1>10, <1>12 DEF N, U, c

\* A name stays behind one more part if the rest of the path, with that part,
\* takes back no more than it adds.
LEMMA StayingStep ==
  ASSUME NEW parts, NEW n \in Nat, NEW i \in 1 .. n
  PROVE  /\ i \in StayingTo(parts, n + 1) <=>
              i \in StayingTo(parts, n) /\ Left(parts, i, n + 1) >= 0
         /\ i \in StayingTo(parts, n) => Left(parts, i, n) >= 0
<1>1. ASSUME NEW m \in i .. n + 1
      PROVE  /\ Cardinality(Ups(parts, i, m)) <= Cardinality(Names(parts, i, m))
                  <=> Left(parts, i, m) >= 0
  <2>0. i \in Nat /\ m \in Nat /\ i <= m
    OBVIOUS
  <2>1. /\ Cardinality(Names(parts, i, m)) \in Nat
        /\ Cardinality(Ups(parts, i, m)) \in Nat
    BY <2>0, CountedParts
  <2> QED
    BY <2>1 DEF Left
<1>2. i + 1 .. n + 1 = (i + 1 .. n) \cup {n + 1}
  OBVIOUS
<1>3. i \in 1 .. n + 1 /\ n + 1 \in i .. n + 1
  OBVIOUS
<1>4. Left(parts, i, i) = 0
  BY CountedParts
<1>5. CASE i = n
  BY <1>1, <1>2, <1>3, <1>4, <1>5 DEF StayingTo
<1>6. CASE i < n
  <2>1. n \in i + 1 .. n /\ n \in i .. n + 1
    BY <1>6
  <2> QED
    BY <1>1, <1>2, <1>3, <2>1 DEF StayingTo
<1> QED
  BY <1>5, <1>6

\* The last part stays if it is a name.
LEMMA StayingLast ==
  ASSUME NEW parts, NEW n \in Nat
  PROVE  /\ n + 1 \in StayingTo(parts, n + 1) <=> IsName(parts[n + 1])
         /\ StayingTo(parts, n + 1) \subseteq 1 .. n + 1
         /\ 1 .. n + 1 = (1 .. n) \cup {n + 1}
<1>1. (n + 1) + 1 .. n + 1 = {} /\ n + 1 \in 1 .. n + 1
  OBVIOUS
<1> QED
  BY <1>1 DEF StayingTo

\* Walk gives a sequence of names, and what it has for each kind of part.
LEMMA WalkCases ==
  ASSUME NEW s \in Seq(STRING), NEW c \in STRING
  PROVE  /\ Walk(s, c) \in Seq(STRING)
         /\ IsNothing(c) => Walk(s, c) = s
         /\ IsName(c) => Walk(s, c) = Append(s, c)
         /\ IsUp(c) /\ s = <<>> => Walk(s, c) = <<>>
         /\ IsUp(c) /\ s # <<>> =>
              /\ Len(Walk(s, c)) = Len(s) - 1
              /\ \A k \in 1 .. Len(s) - 1 : Walk(s, c)[k] = s[k]
<1>1. Walk(s, c) = IF IsNothing(c) THEN s
                   ELSE IF ~IsUp(c) THEN Append(s, c)
                   ELSE IF s = <<>> THEN <<>> ELSE SubSeq(s, 1, Len(s) - 1)
  BY Zenon DEF Walk, Front, IsNothing, IsUp
<1>2. IsNothing(c) \/ IsUp(c) \/ IsName(c)
  BY PartKinds
<1>3. ~(IsNothing(c) /\ IsUp(c)) /\ ~(IsName(c) /\ (IsNothing(c) \/ IsUp(c)))
  BY PartKinds
<1> HIDE DEF IsNothing, IsName, IsUp
<1>4. CASE IsNothing(c)
  BY <1>1, <1>3, <1>4
<1>5. CASE IsName(c)
  <2>1. Walk(s, c) = Append(s, c)
    BY <1>1, <1>3, <1>5
  <2>2. Append(s, c) \in Seq(STRING)
    BY AppendProperties
  <2> QED
    BY <1>3, <1>5, <2>1, <2>2
<1>6. CASE IsUp(c) /\ s = <<>>
  BY <1>1, <1>3, <1>6
<1>7. CASE IsUp(c) /\ s # <<>>
  <2>1. Walk(s, c) = SubSeq(s, 1, Len(s) - 1)
    BY <1>1, <1>3, <1>7
  <2>2. Len(s) \in Nat \ {0} /\ \A k \in 1 .. Len(s) - 1 : s[k] \in STRING
    BY <1>7
  <2>3. /\ SubSeq(s, 1, Len(s) - 1) \in Seq(STRING)
        /\ Len(SubSeq(s, 1, Len(s) - 1)) = Len(s) - 1
        /\ \A k \in 1 .. Len(s) - 1 : SubSeq(s, 1, Len(s) - 1)[k] = s[k]
    <3> DEFINE l == Len(s) - 1
    <3>1. l \in Nat /\ \A k \in 1 .. l : s[k] \in STRING
      BY <2>2
    <3> HIDE DEF l
    <3>2. SubSeq(s, 1, l) = [k \in 1 .. l |-> s[k]]
      BY <3>1
    <3>3. SubSeq(s, 1, l) \in Seq(STRING) /\ Len(SubSeq(s, 1, l)) = l
      BY <3>1
    <3> QED
      BY <3>2, <3>3 DEF l
  <2> QED
    BY <1>3, <1>7, <2>1, <2>3
<1> QED
  BY <1>2, <1>4, <1>5, <1>6, <1>7

\* What stays behind one more part of the path.
LEMMA StayingByKind ==
  ASSUME NEW parts, NEW n \in Nat
  PROVE  /\ IsNothing(parts[n + 1]) =>
              StayingTo(parts, n + 1) = StayingTo(parts, n)
         /\ IsName(parts[n + 1]) =>
              StayingTo(parts, n + 1) = StayingTo(parts, n) \cup {n + 1}
         /\ IsUp(parts[n + 1]) =>
              StayingTo(parts, n + 1) =
                {i \in StayingTo(parts, n) : Left(parts, i, n) >= 1}
<1> DEFINE S == StayingTo(parts, n)
           T == StayingTo(parts, n + 1)
           c == parts[n + 1]
<1>1. S \subseteq 1 .. n /\ T \subseteq (1 .. n) \cup {n + 1}
  BY StayingLast DEF StayingTo
<1>2. ASSUME NEW i \in 1 .. n
      PROVE  /\ i \in T <=> i \in S /\ Left(parts, i, n + 1) >= 0
             /\ i \in S => Left(parts, i, n) >= 0
             /\ Left(parts, i, n) \in Int
             /\ Left(parts, i, n + 1) =
                  IF IsName(c) THEN Left(parts, i, n) + 1
                  ELSE IF IsUp(c) THEN Left(parts, i, n) - 1
                  ELSE Left(parts, i, n)
  <2>1. i \in Nat /\ i <= n
    OBVIOUS
  <2>2. Left(parts, i, n) \in Int
    <3>1. /\ Cardinality(Names(parts, i, n)) \in Nat
          /\ Cardinality(Ups(parts, i, n)) \in Nat
      BY <2>1, CountedParts
    <3> QED
      BY <3>1 DEF Left
  <2>3. Left(parts, i, n + 1) =
          IF IsName(c) THEN Left(parts, i, n) + 1
          ELSE IF IsUp(c) THEN Left(parts, i, n) - 1
          ELSE Left(parts, i, n)
    BY <2>1, CountedParts
  <2>4. /\ i \in T <=> i \in S /\ Left(parts, i, n + 1) >= 0
        /\ i \in S => Left(parts, i, n) >= 0
    BY StayingStep
  <2> QED
    BY <2>2, <2>3, <2>4
<1>3. n + 1 \in T <=> IsName(c)
  BY StayingLast
<1>4. ~(IsNothing(c) /\ IsUp(c)) /\ ~(IsName(c) /\ (IsNothing(c) \/ IsUp(c)))
  BY PartKinds
<1> HIDE DEF S, T, c
<1>5. CASE IsNothing(c)
  <2>1. ASSUME NEW i \in 1 .. n PROVE i \in T <=> i \in S
    BY <1>2, <1>4, <1>5
  <2> QED
    BY <1>1, <1>3, <1>4, <1>5, <2>1 DEF S, T, c
<1>6. CASE IsName(c)
  <2>1. ASSUME NEW i \in 1 .. n PROVE i \in T <=> i \in S
    BY <1>2, <1>6
  <2> QED
    BY <1>1, <1>3, <1>4, <1>6, <2>1 DEF S, T, c
<1>7. CASE IsUp(c)
  <2>1. ASSUME NEW i \in 1 .. n PROVE i \in T <=> i \in S /\ Left(parts, i, n) >= 1
    BY <1>2, <1>4, <1>7
  <2> QED
    BY <1>1, <1>3, <1>4, <1>7, <2>1 DEF S, T, c
<1> QED
  BY <1>5, <1>6, <1>7 DEF S, T, c

\* s spells the parts that stay, and the k-th of them from the end needs k
\* more ".." to be taken back.
Enumerates(pos, parts, n, s) ==
  /\ s \in Seq(STRING)
  /\ pos \in [1 .. Len(s) -> StayingTo(parts, n)]
  /\ \A j, k \in 1 .. Len(s) : j < k => pos[j] < pos[k]
  /\ \A i \in StayingTo(parts, n) : \E k \in 1 .. Len(s) : pos[k] = i
  /\ \A k \in 1 .. Len(s) : s[k] = parts[pos[k]]
  /\ \A k \in 1 .. Len(s) : Left(parts, pos[k], n) = Len(s) - k

\* Walk keeps track of what stays.
LEMMA WalkEnumerates ==
  ASSUME NEW parts, NEW n \in Nat, parts[n + 1] \in STRING,
         NEW s, NEW pos, Enumerates(pos, parts, n, s)
  PROVE  \E q : Enumerates(q, parts, n + 1, Walk(s, parts[n + 1]))
<1> DEFINE S == StayingTo(parts, n)
           T == StayingTo(parts, n + 1)
           c == parts[n + 1]
           t == Walk(s, c)
           l == Len(s)
<1>1. /\ s \in Seq(STRING) /\ l \in Nat /\ t \in Seq(STRING)
      /\ pos \in [1 .. l -> S]
      /\ \A j, k \in 1 .. l : j < k => pos[j] < pos[k]
      /\ \A i \in S : \E k \in 1 .. l : pos[k] = i
      /\ \A k \in 1 .. l : s[k] = parts[pos[k]]
      /\ \A k \in 1 .. l : Left(parts, pos[k], n) = l - k
  <2>1. s \in Seq(STRING)
    BY DEF Enumerates
  <2>2. t \in Seq(STRING)
    BY <2>1, WalkCases, Zenon
  <2>3. l \in Nat
    BY <2>1
  <2> QED
    BY <2>1, <2>2, <2>3 DEF Enumerates
<1>2. ASSUME NEW k \in 1 .. l
      PROVE  /\ pos[k] \in 1 .. n
             /\ Left(parts, pos[k], n + 1) =
                  IF IsName(c) THEN l - k + 1
                  ELSE IF IsUp(c) THEN l - k - 1
                  ELSE l - k
  <2>1. pos[k] \in 1 .. n
    BY <1>1 DEF StayingTo
  <2>2. pos[k] \in Nat /\ pos[k] <= n
    BY <2>1
  <2>3. Left(parts, pos[k], n + 1) =
          IF IsName(c) THEN Left(parts, pos[k], n) + 1
          ELSE IF IsUp(c) THEN Left(parts, pos[k], n) - 1
          ELSE Left(parts, pos[k], n)
    BY <2>2, CountedParts
  <2>4. Left(parts, pos[k], n) = l - k
    BY <1>1
  <2> QED
    BY <2>1, <2>3, <2>4
<1>3. ~(IsNothing(c) /\ IsUp(c)) /\ ~(IsName(c) /\ (IsNothing(c) \/ IsUp(c)))
  BY PartKinds
<1>4. IsNothing(c) \/ IsUp(c) \/ IsName(c)
  BY PartKinds
<1>5. CASE IsNothing(c)
  <2>1. t = s /\ T = S
    BY <1>1, <1>5, WalkCases, StayingByKind
  <2>2. Enumerates(pos, parts, n + 1, t)
    <3> HIDE DEF S, T, c, t
    <3>1. \A k \in 1 .. l : Left(parts, pos[k], n + 1) = l - k
      BY <1>2, <1>3, <1>5
    <3> QED
      BY <1>1, <2>1, <3>1 DEF Enumerates, T
  <2> QED
    BY <2>2
<1>6. CASE IsName(c)
  <2> DEFINE q == [k \in 1 .. l + 1 |-> IF k = l + 1 THEN n + 1 ELSE pos[k]]
  <2>1. t = Append(s, c) /\ T = S \cup {n + 1}
    BY <1>1, <1>6, WalkCases, StayingByKind
  <2>2. /\ Len(t) = l + 1 /\ t[l + 1] = c
        /\ \A k \in 1 .. l : t[k] = s[k]
    BY <1>1, <2>1
  <2>3. Left(parts, n + 1, n + 1) = 0
    BY CountedParts
  <2>4. Enumerates(q, parts, n + 1, t)
    <3> HIDE DEF S, T, t
    <3>1. 1 .. l + 1 = (1 .. l) \cup {l + 1}
      BY <1>1
    <3>2. q[l + 1] = n + 1 /\ \A k \in 1 .. l : q[k] = pos[k]
      BY <1>1
    <3>3. q \in [1 .. l + 1 -> T]
      BY <1>1, <2>1
    <3> HIDE DEF q
    <3>4. ASSUME NEW j \in 1 .. l + 1, NEW k \in 1 .. l + 1, j < k
          PROVE  q[j] < q[k]
      <4>1. j \in 1 .. l
        BY <1>1, <3>4
      <4>2. CASE k = l + 1
        BY <1>2, <3>2, <4>1, <4>2
      <4>3. CASE k \in 1 .. l
        BY <1>1, <3>2, <3>4, <4>1, <4>3
      <4> QED
        BY <3>1, <4>2, <4>3
    <3>5. ASSUME NEW i \in T
          PROVE  \E k \in 1 .. l + 1 : q[k] = i
      <4>1. CASE i = n + 1
        BY <3>1, <3>2, <4>1
      <4>2. CASE i \in S
        <5>1. PICK k \in 1 .. l : pos[k] = i
          BY <1>1, <4>2
        <5> QED
          BY <3>1, <3>2, <5>1
      <4> QED
        BY <2>1, <4>1, <4>2
    <3>6. ASSUME NEW k \in 1 .. l + 1
          PROVE  t[k] = parts[q[k]] /\ Left(parts, q[k], n + 1) = l + 1 - k
      <4> HIDE DEF c
      <4>1. CASE k = l + 1
        BY <1>1, <2>2, <2>3, <3>2, <4>1 DEF c
      <4>2. CASE k \in 1 .. l
        <5>1. t[k] = parts[q[k]]
          BY <1>1, <2>2, <3>2, <4>2
        <5>2. Left(parts, q[k], n + 1) = l - k + 1
          BY <1>2, <1>6, <3>2, <4>2
        <5> QED
          BY <1>1, <5>1, <5>2
      <4> QED
        BY <3>1, <4>1, <4>2
    <3> HIDE DEF l, c
    <3> QED
      BY <1>1, <2>2, <3>3, <3>4, <3>5, <3>6 DEF Enumerates, T
  <2> QED
    BY <2>4
<1>7. CASE IsUp(c)
  <2>1. /\ s = <<>> => t = <<>>
        /\ s # <<>> => Len(t) = l - 1 /\ \A k \in 1 .. l - 1 : t[k] = s[k]
        /\ T = {i \in S : Left(parts, i, n) >= 1}
    BY <1>1, <1>7, WalkCases, StayingByKind
  <2> HIDE DEF S, T, t
  <2>2. CASE s = <<>>
    <3>1. l = 0 /\ 1 .. 0 = {} /\ Len(t) = 0 /\ Len(t) = l
      BY <2>1, <2>2
    <3>2. S = {}
      BY <1>1, <3>1
    <3>3. T = {}
      BY <2>1, <3>2
    <3>4. Enumerates(pos, parts, n + 1, t)
      <4> HIDE DEF l
      <4>1. 1 .. Len(t) = {} /\ 1 .. l = {}
        BY <3>1
      <4> QED
        BY <1>1, <3>2, <3>3, <4>1 DEF Enumerates, T
    <3> QED
      BY <3>4 DEF t, c
  <2>3. CASE s # <<>>
    <3> DEFINE q == [k \in 1 .. l - 1 |-> pos[k]]
    <3>1. l \in Nat \ {0}
      BY <1>1, <2>3
    <3> HIDE DEF l, c
    <3>2. \A k \in 1 .. l - 1 : k \in 1 .. l /\ l - k >= 1
      BY <3>1
    <3>3. q \in [1 .. l - 1 -> T]
      BY <1>1, <2>1, <3>2
    <3>4. \A k \in 1 .. l - 1 : q[k] = pos[k]
      OBVIOUS
    <3> HIDE DEF q
    <3>5. \A j, k \in 1 .. l - 1 : j < k => q[j] < q[k]
      BY <1>1, <3>2, <3>4
    <3>6. ASSUME NEW i \in T
          PROVE  \E k \in 1 .. l - 1 : q[k] = i
      <4>1. i \in S /\ Left(parts, i, n) >= 1
        BY <2>1
      <4>2. PICK k \in 1 .. l : pos[k] = i
        BY <1>1, <4>1
      <4>3. l - k >= 1
        BY <1>1, <4>1, <4>2
      <4>4. k \in 1 .. l - 1
        BY <3>1, <4>3
      <4> QED
        BY <3>4, <4>2, <4>4
    <3>7. ASSUME NEW k \in 1 .. l - 1
          PROVE  t[k] = parts[q[k]] /\ Left(parts, q[k], n + 1) = (l - 1) - k
      <4>1. Left(parts, q[k], n + 1) = l - k - 1
        BY <1>2, <1>3, <1>7, <3>2, <3>4
      <4>2. l - k - 1 = (l - 1) - k
        BY <3>1
      <4> QED
        BY <1>1, <2>1, <2>3, <3>2, <3>4, <4>1, <4>2
    <3>8. Enumerates(q, parts, n + 1, t)
      BY <1>1, <2>1, <2>3, <3>3, <3>5, <3>6, <3>7 DEF Enumerates, T
    <3> QED
      BY <3>8 DEF t, c
  <2> QED
    BY <2>2, <2>3
<1> QED
  BY <1>4, <1>5, <1>6, <1>7

\* w is the run of filepath.Clean over the first n parts.
Walked(w, parts, n) ==
  w = [m \in 0 .. n |-> IF m = 0 THEN <<>> ELSE Walk(w[m - 1], parts[m])]

\* A run can be continued.
LEMMA WalkedStep ==
  ASSUME NEW parts, NEW n \in Nat, NEW w, Walked(w, parts, n)
  PROVE  \E v : Walked(v, parts, n + 1)
<1> DEFINE v == [m \in 0 .. n + 1 |->
                   IF m = n + 1 THEN Walk(w[n], parts[n + 1]) ELSE w[m]]
<1>1. \A m \in 0 .. n : w[m] = IF m = 0 THEN <<>> ELSE Walk(w[m - 1], parts[m])
  BY DEF Walked
<1>2. v[n + 1] = Walk(v[n], parts[n + 1])
  OBVIOUS
<1>3. \A m \in 0 .. n : v[m] = w[m]
  OBVIOUS
<1>4. v = [m \in 0 .. n + 1 |-> v[m]]
  OBVIOUS
<1> HIDE DEF v
<1>5. ASSUME NEW m \in 0 .. n + 1
      PROVE  v[m] = IF m = 0 THEN <<>> ELSE Walk(v[m - 1], parts[m])
  <2>1. CASE m = n + 1
    <3>1. m # 0 /\ m - 1 = n
      BY <2>1
    <3> QED
      BY <1>2, <2>1, <3>1
  <2>2. CASE m = 0
    BY <1>1, <1>3, <2>2
  <2>3. CASE m \in 1 .. n
    <3>1. m \in 0 .. n /\ m - 1 \in 0 .. n /\ m # 0
      BY <2>3
    <3> QED
      BY <1>1, <1>3, <3>1
  <2> QED
    BY <2>1, <2>2, <2>3
<1>6. Walked(v, parts, n + 1)
  BY <1>4, <1>5, Zenon DEF Walked
<1> QED
  BY <1>6

\* There is such a run of any length.
LEMMA WalkedExists ==
  ASSUME NEW parts, NEW n \in Nat
  PROVE  \E w : Walked(w, parts, n)
<1> DEFINE T == {m \in Nat : \E w : Walked(w, parts, m)}
<1>1. 0 \in T
  <2> DEFINE w == [m \in {0} |-> <<>>]
  <2>1. 0 .. 0 = {0}
    OBVIOUS
  <2>2. Walked(w, parts, 0)
    BY <2>1 DEF Walked
  <2> QED
    BY <2>2
<1>2. \A m \in Nat : m \in T => m + 1 \in T
  BY WalkedStep
<1> HIDE DEF T
<1>3. Nat \subseteq T
  BY <1>1, <1>2, NumbersByInduction
<1> QED
  BY <1>3 DEF T

\* What Clean leaves of a path are the parts that stay.
LEMMA CleanEnumerates ==
  ASSUME NEW parts \in Seq(STRING)
  PROVE  \E pos : Enumerates(pos, parts, Len(parts), Clean(parts))
<1> DEFINE L == Len(parts)
<1>1. L \in Nat /\ \A n \in 1 .. L : parts[n] \in STRING
  OBVIOUS
<1>2. PICK w : Walked(w, parts, L) /\ Clean(parts) = w[L]
  <2>1. \E w : Walked(w, parts, L)
    BY <1>1, WalkedExists
  <2>2. Clean(parts) = (CHOOSE w : Walked(w, parts, L))[L]
    BY Zenon DEF Clean, Walked
  <2> QED
    BY <2>1, <2>2, Zenon
<1> HIDE DEF L
<1>3. /\ w[0] = <<>>
      /\ \A n \in 1 .. L : w[n] = Walk(w[n - 1], parts[n])
  <2>1. \A m \in 0 .. L : w[m] = IF m = 0 THEN <<>> ELSE Walk(w[m - 1], parts[m])
    BY <1>2 DEF Walked
  <2> QED
    BY <1>1, <2>1
<1> DEFINE T == {n \in Nat : n <= L => \E pos : Enumerates(pos, parts, n, w[n])}
<1>4. 0 \in T
  <2> DEFINE e == <<>>
  <2>1. e \in Seq(STRING) /\ Len(e) = 0 /\ 1 .. 0 = {}
    OBVIOUS
  <2>2. StayingTo(parts, 0) = {}
    BY <2>1 DEF StayingTo
  <2>3. e \in [{} -> {}]
    OBVIOUS
  <2> HIDE DEF e
  <2>4. Enumerates(e, parts, 0, e)
    BY <2>1, <2>2, <2>3 DEF Enumerates
  <2> QED
    BY <1>3, <2>4 DEF e
<1>5. ASSUME NEW n \in Nat, n \in T PROVE n + 1 \in T
  <2> SUFFICES ASSUME n + 1 <= L
               PROVE  \E pos : Enumerates(pos, parts, n + 1, w[n + 1])
    OBVIOUS
  <2>1. n <= L /\ n + 1 \in 1 .. L /\ (n + 1) - 1 = n
    BY <1>1
  <2>2. PICK pos : Enumerates(pos, parts, n, w[n])
    BY <1>5, <2>1
  <2>3. w[n + 1] = Walk(w[n], parts[n + 1]) /\ parts[n + 1] \in STRING
    BY <1>1, <1>3, <2>1
  <2>4. \E q : Enumerates(q, parts, n + 1, Walk(w[n], parts[n + 1]))
    BY <2>2, <2>3, WalkEnumerates
  <2> QED
    BY <2>3, <2>4
<1> HIDE DEF T
<1>6. L \in T
  BY <1>1, <1>4, <1>5, NumbersByInduction
<1> QED
  BY <1>1, <1>2, <1>6 DEF T, L

\* What is said of the whole path.
LEMMA StayingWhole ==
  ASSUME NEW parts \in Seq(STRING)
  PROVE  Staying(parts) = StayingTo(parts, Len(parts))
<1>1. DOMAIN parts = 1 .. Len(parts)
  OBVIOUS
<1> QED
  BY <1>1, Zenon DEF Staying, StayingTo, IsName

\* The numbers below the k-th in an increasing enumeration.
LEMMA BelowInOrder ==
  ASSUME NEW S, S \subseteq Nat, NEW l \in Nat, NEW pos \in [1 .. l -> S],
         \A j, k \in 1 .. l : j < k => pos[j] < pos[k],
         \A i \in S : \E k \in 1 .. l : pos[k] = i,
         NEW k \in 1 .. l
  PROVE  {i \in S : i < pos[k]} = {pos[j] : j \in 1 .. k - 1}
<1>1. \A j \in 1 .. k - 1 : j \in 1 .. l /\ j < k
  OBVIOUS
<1>2. ASSUME NEW i \in S, i < pos[k] PROVE i \in {pos[j] : j \in 1 .. k - 1}
  <2>1. PICK j \in 1 .. l : pos[j] = i
    OBVIOUS
  <2>2. pos[j] \in Nat /\ pos[k] \in Nat
    OBVIOUS
  <2>3. ~(k < j) /\ j # k
    BY <1>2, <2>1, <2>2
  <2>4. j \in 1 .. k - 1
    BY <2>3
  <2> QED
    BY <2>1, <2>4
<1>3. ASSUME NEW j \in 1 .. k - 1 PROVE pos[j] \in S /\ pos[j] < pos[k]
  BY <1>1
<1> QED
  BY <1>2, <1>3

\* A sequence starts with another if its first elements are the other's.
LEMMA PrefixElements ==
  ASSUME NEW p \in Seq(STRING), NEW s \in Seq(STRING)
  PROVE  IsPrefix(p, s) <=>
           Len(p) <= Len(s) /\ \A k \in 1 .. Len(p) : p[k] = s[k]
<1> DEFINE l == Len(p)
<1>1. l \in Nat /\ Len(s) \in Nat
  OBVIOUS
<1> HIDE DEF l
<1>2. /\ SubSeq(p, 1, l) = [k \in 1 .. l |-> p[k]]
      /\ SubSeq(s, 1, l) = [k \in 1 .. l |-> s[k]]
  BY <1>1
<1>3. [k \in 1 .. l |-> p[k]] = [k \in 1 .. l |-> s[k]]
        <=> \A k \in 1 .. l : p[k] = s[k]
  OBVIOUS
<1> QED
  BY <1>2, <1>3 DEF IsPrefix, l

\* The lexical check of a path finds out where the path leads.
LEMMA PrefixMeansInside ==
  ASSUME NEW prefix \in Seq(STRING), NEW parts \in Seq(STRING)
  PROVE  IsPrefix(prefix, Clean(parts)) <=> LeadsInto(prefix, parts)
<1> DEFINE s == Clean(parts)
           S == Staying(parts)
           l == Len(s)
           L == Len(prefix)
           D == DOMAIN prefix
<1>1. PICK pos : Enumerates(pos, parts, Len(parts), s)
  BY CleanEnumerates
<1>2. /\ s \in Seq(STRING) /\ l \in Nat
      /\ pos \in [1 .. l -> S]
      /\ \A j, k \in 1 .. l : j < k => pos[j] < pos[k]
      /\ \A i \in S : \E k \in 1 .. l : pos[k] = i
      /\ \A k \in 1 .. l : s[k] = parts[pos[k]]
  <2>1. S = StayingTo(parts, Len(parts))
    BY StayingWhole
  <2>2. s \in Seq(STRING)
    BY <1>1 DEF Enumerates
  <2>3. l \in Nat
    BY <2>2
  <2> HIDE DEF S, s
  <2> QED
    BY <1>1, <2>1, <2>2, <2>3 DEF Enumerates
<1>3. S \subseteq Nat
  <2>1. DOMAIN parts \subseteq Nat
    OBVIOUS
  <2> QED
    BY <2>1 DEF Staying
<1>4. D = 1 .. L /\ L \in Nat
  OBVIOUS
<1>5. IsPrefix(prefix, s) <=> L <= l /\ \A k \in 1 .. L : prefix[k] = s[k]
  BY <1>2, PrefixElements
<1>6. ASSUME NEW k \in 1 .. l
      PROVE  {i \in S : i < pos[k]} = {pos[j] : j \in 1 .. k - 1}
  <2> HIDE DEF S, l
  <2> QED
    BY <1>2, <1>3, BelowInOrder
<1>7. LeadsInto(prefix, parts) <=>
        \E at \in [D -> S] :
          \A k \in D :
            /\ parts[at[k]] = prefix[k]
            /\ {i \in S : i < at[k]} = {at[j] : j \in 1 .. k - 1}
  BY DEF LeadsInto
<1> HIDE DEF s, S, l, L, D
<1>8. ASSUME L <= l, \A k \in 1 .. L : prefix[k] = s[k]
      PROVE  LeadsInto(prefix, parts)
  <2> DEFINE at == [k \in 1 .. L |-> pos[k]]
  <2>1. \A k \in 1 .. L : k \in 1 .. l
    BY <1>2, <1>4, <1>8
  <2>2. at \in [1 .. L -> S]
    BY <1>2, <2>1
  <2>3. \A k \in 1 .. L : at[k] = pos[k]
    OBVIOUS
  <2> HIDE DEF at
  <2>4. ASSUME NEW k \in 1 .. L
        PROVE  /\ parts[at[k]] = prefix[k]
               /\ {i \in S : i < at[k]} = {at[j] : j \in 1 .. k - 1}
    <3>1. parts[at[k]] = prefix[k]
      BY <1>2, <1>8, <2>1, <2>3
    <3>2. {i \in S : i < at[k]} = {pos[j] : j \in 1 .. k - 1}
      BY <1>6, <2>1, <2>3
    <3>3. \A j \in 1 .. k - 1 : at[j] = pos[j]
      <4>1. \A j \in 1 .. k - 1 : j \in 1 .. L
        BY <1>4
      <4> QED
        BY <2>3, <4>1
    <3>4. {pos[j] : j \in 1 .. k - 1} = {at[j] : j \in 1 .. k - 1}
      BY <3>3
    <3> QED
      BY <3>1, <3>2, <3>4
  <2> QED
    BY <1>4, <1>7, <2>2, <2>4
<1>9. ASSUME LeadsInto(prefix, parts)
      PROVE  L <= l /\ \A k \in 1 .. L : prefix[k] = s[k]
  <2>1. PICK at \in [1 .. L -> S] :
          \A k \in 1 .. L :
            /\ parts[at[k]] = prefix[k]
            /\ {i \in S : i < at[k]} = {at[j] : j \in 1 .. k - 1}
    BY <1>4, <1>7, <1>9
  <2> DEFINE T == {n \in Nat : \A k \in 1 .. L :
                                 k <= n => k \in 1 .. l /\ at[k] = pos[k]}
  <2>2. 0 \in T
    OBVIOUS
  <2>3. ASSUME NEW n \in Nat, n \in T, n + 1 \in 1 .. L
        PROVE  n + 1 \in 1 .. l /\ at[n + 1] = pos[n + 1]
    <3>1. PICK q \in 1 .. l : pos[q] = at[n + 1]
      BY <1>2, <2>1, <2>3
    <3>2. \A j \in 1 .. n : j \in 1 .. l /\ at[j] = pos[j]
      BY <1>4, <2>3
    <3>3. {at[j] : j \in 1 .. n} = {pos[j] : j \in 1 .. q - 1}
      <4>1. (n + 1) - 1 = n
        OBVIOUS
      <4>2. {i \in S : i < at[n + 1]} = {at[j] : j \in 1 .. n}
        BY <2>1, <2>3, <4>1
      <4> QED
        BY <1>6, <3>1, <4>2
    <3>4. q \notin 1 .. n
      <4> SUFFICES ASSUME q \in 1 .. n PROVE FALSE
        OBVIOUS
      <4>1. pos[q] \in {at[j] : j \in 1 .. n}
        BY <3>2
      <4>2. PICK j \in 1 .. q - 1 : pos[q] = pos[j]
        BY <3>3, <4>1
      <4>3. j \in 1 .. l /\ j < q
        BY <1>2
      <4>4. pos[j] < pos[q] /\ pos[j] \in Nat
        BY <1>2, <1>3, <4>3
      <4> QED
        BY <4>2, <4>4
    <3>5. ~(n + 1 < q)
      <4> SUFFICES ASSUME n + 1 < q PROVE FALSE
        OBVIOUS
      <4>1. n + 1 \in 1 .. q - 1 /\ n + 1 \in 1 .. l
        BY <1>2
      <4>2. pos[n + 1] \in {at[j] : j \in 1 .. n}
        BY <3>3, <4>1
      <4>3. PICK j \in 1 .. n : pos[n + 1] = at[j]
        BY <4>2
      <4>4. pos[n + 1] = pos[j] /\ j \in 1 .. l /\ j < n + 1
        BY <3>2, <4>3
      <4>5. pos[j] < pos[n + 1] /\ pos[j] \in Nat
        BY <1>2, <1>3, <4>1, <4>4
      <4> QED
        BY <4>4, <4>5
    <3>6. q = n + 1
      BY <1>2, <3>4, <3>5
    <3> QED
      BY <3>1, <3>6
  <2>4. ASSUME NEW n \in Nat, n \in T PROVE n + 1 \in T
    <3>1. ASSUME NEW k \in 1 .. L, k <= n + 1
          PROVE  k \in 1 .. l /\ at[k] = pos[k]
      <4>1. CASE k <= n
        BY <2>4, <4>1
      <4>2. CASE k = n + 1
        BY <2>3, <2>4, <4>2
      <4> QED
        BY <1>4, <3>1, <4>1, <4>2
    <3> QED
      BY <3>1
  <2> HIDE DEF T
  <2>5. L \in T
    BY <1>4, <2>2, <2>4, NumbersByInduction
  <2>6. \A k \in 1 .. L : k \in 1 .. l /\ at[k] = pos[k]
    BY <1>4, <2>5 DEF T
  <2>7. L <= l
    <3>1. CASE L = 0
      BY <1>2, <3>1
    <3>2. CASE L \in 1 .. L
      BY <1>2, <2>6, <3>2
    <3> QED
      BY <1>4, <3>1, <3>2
  <2> QED
    BY <1>2, <2>1, <2>6, <2>7
<1> QED
  BY <1>5, <1>8, <1>9 DEF s

-----------------------------------------------------------------------------
(***************************************************************************)
(* Sorting the keys.                                                       *)
(***************************************************************************)
DistinctKeys(s) == \A i, j \in DOMAIN s : s[i].key = s[j].key => i = j

\* q has the fields of s in increasing order of their keys.
Arranges(q, s) ==
  /\ q \in [DOMAIN s -> {s[i] : i \in DOMAIN s}]
  /\ {q[i] : i \in DOMAIN s} = {s[i] : i \in DOMAIN s}
  /\ \A i, j \in DOMAIN s : i < j => q[i].key < q[j].key

\* Two families with the same members are the same set.
LEMMA SameImage ==
  ASSUME NEW S, NEW f, NEW g,
         \A i \in S : \E j \in S : f[i] = g[j],
         \A j \in S : \E i \in S : f[i] = g[j]
  PROVE  {f[i] : i \in S} = {g[i] : i \in S}
<1>1. ASSUME NEW i \in S PROVE f[i] \in {g[j] : j \in S}
  BY Zenon
<1>2. ASSUME NEW j \in S PROVE g[j] \in {f[i] : i \in S}
  BY Zenon
<1> QED
  BY <1>1, <1>2

\* Insertion: what an arrangement of all fields but the last becomes with it.
LEMMA InsertField ==
  ASSUME NEW F, \A e \in F : e.key \in Nat,
         NEW n \in Nat, NEW s \in [1 .. n + 1 -> F], DistinctKeys(s),
         NEW q, Arranges(q, [i \in 1 .. n |-> s[i]])
  PROVE  \E p : Arranges(p, s)
<1> DEFINE x == s[n + 1]
<1>1. /\ x \in F /\ x.key \in Nat
      /\ \A i \in 1 .. n + 1 : s[i] \in F /\ s[i].key \in Nat
      /\ \A i \in 1 .. n : s[i].key # x.key
  BY DEF DistinctKeys
<1>2. /\ \A i \in 1 .. n : \E j \in 1 .. n : q[i] = s[j]
      /\ \A j \in 1 .. n : \E i \in 1 .. n : q[i] = s[j]
      /\ \A i, j \in 1 .. n : i < j => q[i].key < q[j].key
  <2> DEFINE r == [i \in 1 .. n |-> s[i]]
  <2>1. DOMAIN r = 1 .. n /\ \A i \in 1 .. n : r[i] = s[i]
    OBVIOUS
  <2>2. Arranges(q, r)
    OBVIOUS
  <2> HIDE DEF r
  <2>3. /\ {q[i] : i \in 1 .. n} = {r[i] : i \in 1 .. n}
        /\ \A i, j \in 1 .. n : i < j => q[i].key < q[j].key
    BY <2>1, <2>2, Zenon DEF Arranges
  <2>4. \A i \in 1 .. n : \E j \in 1 .. n : q[i] = r[j]
    BY <2>3, Zenon
  <2>5. \A j \in 1 .. n : \E i \in 1 .. n : q[i] = r[j]
    BY <2>3, Zenon
  <2> QED
    BY <2>1, <2>3, <2>4, <2>5, Zenon
<1>3. \A i \in 1 .. n : q[i].key \in Nat /\ q[i].key # x.key
  <2> TAKE i \in 1 .. n
  <2>1. PICK j \in 1 .. n : q[i] = s[j]
    BY <1>2
  <2>2. j \in 1 .. n + 1
    OBVIOUS
  <2> QED
    BY <1>1, <2>1, <2>2
<1> DEFINE Later == {i \in 1 .. n + 1 : i = n + 1 \/ q[i].key > x.key}
<1>4. PICK k \in Later : \A i \in Later : k <= i
  <2>1. Later \subseteq Nat /\ n + 1 \in Later
    OBVIOUS
  <2> HIDE DEF Later
  <2> QED
    BY <2>1, LeastNumber
<1>5. /\ k \in 1 .. n + 1
      /\ \A i \in 1 .. n : i < k => q[i].key < x.key
      /\ k \in 1 .. n => x.key < q[k].key
  BY <1>1, <1>3, <1>4
<1> DEFINE p == [i \in 1 .. n + 1 |->
                   IF i < k THEN q[i] ELSE IF i = k THEN x ELSE q[i - 1]]
<1>6. \A i \in 1 .. n + 1 : \E j \in 1 .. n + 1 : p[i] = s[j]
  <2> TAKE i \in 1 .. n + 1
  <2>1. CASE i < k
    BY <1>2, <1>5, <2>1
  <2>2. CASE i = k
    BY <2>2
  <2>3. CASE i > k
    <3>1. i - 1 \in 1 .. n /\ p[i] = q[i - 1]
      BY <1>5, <2>3
    <3> QED
      BY <1>2, <3>1
  <2> QED
    BY <1>5, <2>1, <2>2, <2>3
<1>7. \A j \in 1 .. n + 1 : \E i \in 1 .. n + 1 : p[i] = s[j]
  <2> TAKE j \in 1 .. n + 1
  <2>1. CASE j = n + 1
    BY <1>5, <2>1
  <2>2. CASE j \in 1 .. n
    <3>1. PICK i \in 1 .. n : q[i] = s[j]
      BY <1>2, <2>2
    <3>2. CASE i < k
      BY <3>1, <3>2
    <3>3. CASE ~(i < k)
      <4>1. i + 1 \in 1 .. n + 1 /\ p[i + 1] = q[i]
        BY <1>5, <3>3
      <4> QED
        BY <3>1, <4>1
    <3> QED
      BY <3>2, <3>3
  <2> QED
    BY <2>1, <2>2
<1>8. ASSUME NEW i \in 1 .. n + 1, NEW j \in 1 .. n + 1, i < j
      PROVE  p[i].key < p[j].key
  <2>1. CASE j < k
    <3>1. i \in 1 .. n /\ j \in 1 .. n /\ p[i] = q[i] /\ p[j] = q[j]
      BY <1>5, <1>8, <2>1
    <3> QED
      BY <1>2, <1>8, <3>1
  <2>2. CASE j = k
    BY <1>5, <1>8, <2>2
  <2>3. CASE j > k /\ i < k
    <3>1. i \in 1 .. n /\ j - 1 \in 1 .. n /\ (i < j - 1 \/ i = j - 1)
      BY <1>5, <2>3
    <3>2. p[i] = q[i] /\ p[j] = q[j - 1] /\ i < j - 1
      BY <1>5, <2>3
    <3> QED
      BY <1>2, <1>5, <2>3, <3>1, <3>2
  <2>4. CASE j > k /\ i = k
    <3>1. k \in 1 .. n /\ j - 1 \in 1 .. n /\ k <= j - 1
      BY <1>5, <2>4
    <3>2. p[i] = x /\ p[j] = q[j - 1]
      BY <1>5, <2>4
    <3>3. x.key < q[k].key /\ (k = j - 1 \/ q[k].key < q[j - 1].key)
      BY <1>2, <1>5, <3>1
    <3> QED
      BY <1>1, <1>3, <3>1, <3>2, <3>3
  <2>5. CASE i > k
    <3>1. /\ i - 1 \in 1 .. n /\ j - 1 \in 1 .. n /\ i - 1 < j - 1
          /\ p[i] = q[i - 1] /\ p[j] = q[j - 1]
      BY <1>5, <1>8, <2>5
    <3> QED
      BY <1>2, <3>1
  <2> QED
    BY <1>5, <1>8, <2>1, <2>2, <2>3, <2>4, <2>5
<1>9. DOMAIN p = 1 .. n + 1 /\ DOMAIN s = 1 .. n + 1
  OBVIOUS
<1>10. p = [i \in 1 .. n + 1 |-> p[i]]
  OBVIOUS
<1> HIDE DEF p
<1>11. Arranges(p, s)
  <2>1. p \in [1 .. n + 1 -> {s[i] : i \in 1 .. n + 1}]
    BY <1>6, <1>10
  <2>2. {p[i] : i \in 1 .. n + 1} = {s[i] : i \in 1 .. n + 1}
    <3> DEFINE D == 1 .. n + 1
    <3>1. /\ \A i \in D : \E j \in D : p[i] = s[j]
          /\ \A j \in D : \E i \in D : p[i] = s[j]
      BY <1>6, <1>7
    <3> HIDE DEF D
    <3>2. ASSUME NEW i \in D PROVE p[i] \in {s[j] : j \in D}
      BY <3>1, Zenon
    <3>3. ASSUME NEW j \in D PROVE s[j] \in {p[i] : i \in D}
      BY <3>1, Zenon
    <3>4. {p[i] : i \in D} = {s[i] : i \in D}
      BY <3>2, <3>3
    <3> QED
      BY <3>4 DEF D
  <2> QED
    BY <1>8, <1>9, <2>1, <2>2 DEF Arranges
<1> QED
  BY <1>11

\* Fields with distinct keys can be arranged, however many they are.
LEMMA ArrangementExists ==
  ASSUME NEW F, \A e \in F : e.key \in Nat,
         NEW s \in Seq(F), DistinctKeys(s)
  PROVE  \E p : Arranges(p, s)
<1> DEFINE T == {n \in Nat : \A t \in [1 .. n -> F] :
                    DistinctKeys(t) => \E p : Arranges(p, t)}
<1>1. 0 \in T
  <2>1. ASSUME NEW t \in [1 .. 0 -> F] PROVE Arranges(t, t)
    BY DEF Arranges
  <2> QED
    BY <2>1
<1>2. ASSUME NEW n \in Nat, n \in T PROVE n + 1 \in T
  <2>1. ASSUME NEW t \in [1 .. n + 1 -> F], DistinctKeys(t)
        PROVE  \E p : Arranges(p, t)
    <3> DEFINE r == [i \in 1 .. n |-> t[i]]
    <3>1. r \in [1 .. n -> F] /\ DistinctKeys(r)
      BY <2>1 DEF DistinctKeys
    <3>2. PICK q : Arranges(q, r)
      BY <1>2, <3>1
    <3> QED
      BY <2>1, <3>2, InsertField
  <2> QED
    BY <2>1
<1> HIDE DEF T
<1>3. Nat \subseteq T
  BY <1>1, <1>2, NumbersByInduction
<1>4. Len(s) \in Nat /\ s \in [1 .. Len(s) -> F]
  OBVIOUS
<1> QED
  BY <1>3, <1>4 DEF T

\* The order in which a map's entries are written exists, and depends on nothing
\* but the entries.
LEMMA InKeyOrderArranges ==
  ASSUME NEW F, \A e \in F : e.key \in Nat,
         NEW s \in Seq(F), DistinctKeys(s)
  PROVE  Arranges(InKeyOrder(s), s)
<1> DEFINE E == {s[i] : i \in DOMAIN s}
           Good(q) == /\ {q[i] : i \in DOMAIN s} = E
                      /\ \A i, j \in DOMAIN s : i < j => q[i].key < q[j].key
<1>1. PICK p : Arranges(p, s)
  BY ArrangementExists
<1>2. p \in [DOMAIN s -> E] /\ Good(p)
  BY <1>1, Zenon DEF Arranges
<1>3. InKeyOrder(s) = CHOOSE q \in [DOMAIN s -> E] : Good(q)
  BY Zenon DEF InKeyOrder, ByKey
<1>4. InKeyOrder(s) \in [DOMAIN s -> E] /\ Good(InKeyOrder(s))
  <2> HIDE DEF E, Good
  <2> QED
    BY <1>2, <1>3, Zenon
<1> QED
  BY <1>4, Zenon DEF Arranges

\* What an arrangement keeps: it is a sequence of the same fields, with distinct
\* keys, and arranging it again changes nothing.
LEMMA InKeyOrderKeeps ==
  ASSUME NEW F, \A e \in F : e.key \in Nat,
         NEW s \in Seq(F), DistinctKeys(s)
  PROVE  /\ InKeyOrder(s) \in Seq(F)
         /\ DistinctKeys(InKeyOrder(s))
         /\ InKeyOrder(InKeyOrder(s)) = InKeyOrder(s)
<1> DEFINE q == InKeyOrder(s)
           E == {s[i] : i \in DOMAIN s}
<1>1. Arranges(q, s)
  BY InKeyOrderArranges
<1> HIDE DEF q
<1>2. /\ q \in [DOMAIN s -> E] /\ {q[i] : i \in DOMAIN s} = E
      /\ \A i, j \in DOMAIN s : i < j => q[i].key < q[j].key
  BY <1>1, Zenon DEF Arranges
<1>3. E \subseteq F /\ DOMAIN s = 1 .. Len(s) /\ Len(s) \in Nat
  OBVIOUS
<1>4. DOMAIN q = DOMAIN s /\ q \in [1 .. Len(s) -> F]
  <2> HIDE DEF E
  <2> QED
    BY <1>2, <1>3
<1>5. q \in Seq(F)
  BY <1>3, <1>4
<1>6. DistinctKeys(q)
  <2> SUFFICES ASSUME NEW i \in DOMAIN q, NEW j \in DOMAIN q, i # j
               PROVE  q[i].key # q[j].key
    BY DEF DistinctKeys
  <2>1. i \in 1 .. Len(s) /\ j \in 1 .. Len(s)
    BY <1>3, <1>4
  <2>2. q[i].key \in Nat /\ q[j].key \in Nat
    BY <1>4, <2>1
  <2>3. i < j \/ j < i
    BY <1>3, <2>1
  <2>4. /\ i < j => q[i].key < q[j].key
        /\ j < i => q[j].key < q[i].key
    BY <1>2, <1>4, Zenon
  <2> QED
    BY <2>2, <2>3, <2>4
<1>7. InKeyOrder(q) = ByKey(DOMAIN s, E)
  BY <1>2, <1>4, Zenon DEF InKeyOrder
<1> QED
  BY <1>5, <1>6, <1>7, Zenon DEF q, InKeyOrder

\* The fields in the opposite order are written in the same order.
LEMMA InKeyOrderReverse ==
  ASSUME NEW F, NEW s \in Seq(F)
  PROVE  InKeyOrder(Reverse(s)) = InKeyOrder(s)
<1> DEFINE r == Reverse(s)
           D == DOMAIN s
<1>1. /\ DOMAIN r = D /\ Len(s) \in Nat /\ D = 1 .. Len(s)
      /\ \A i \in D : r[i] = s[Len(s) - i + 1] /\ Len(s) - i + 1 \in D
  BY DEF Reverse
<1> HIDE DEF r
<1>2. \A i \in D : \E j \in D : r[i] = s[j]
  BY <1>1
<1>3. \A j \in D : \E i \in D : r[i] = s[j]
  <2> TAKE j \in D
  <2>1. Len(s) - j + 1 \in D /\ Len(s) - (Len(s) - j + 1) + 1 = j
    BY <1>1
  <2> QED
    BY <1>1, <2>1
<1> HIDE DEF D
<1>4. {r[i] : i \in D} = {s[i] : i \in D}
  BY <1>2, <1>3, SameImage
<1>5. InKeyOrder(r) = InKeyOrder(s)
  <2>1. InKeyOrder(r) = ByKey(D, {r[i] : i \in D})
    BY <1>1, Zenon DEF InKeyOrder
  <2>2. InKeyOrder(s) = ByKey(D, {s[i] : i \in D})
    BY Zenon DEF InKeyOrder, D
  <2> QED
    BY <1>4, <2>1, <2>2
<1> QED
  BY <1>5 DEF r

-----------------------------------------------------------------------------
(***************************************************************************)
(* Objects and what is done to their fields.                               *)
(***************************************************************************)
Entry(V) == [key : Nat, value : V]

\* g of every value.  EachField takes an operator; this is the same for a
\* function, about which lemmas can be instantiated.
MapFields(v, g) ==
  Object([i \in DOMAIN v.fields |->
            [key |-> v.fields[i].key, value |-> g[v.fields[i].value]]])

\* An object is its fields.
LEMMA ObjectFields ==
  ASSUME NEW V, NEW v \in Objects(V)
  PROVE  /\ v = Object(v.fields) /\ v.kind = "object"
         /\ v.fields \in Seq(Entry(V)) /\ DistinctKeys(v.fields)
BY DEF Objects, Object, Entry, DistinctKeys

\* Fields with distinct keys make an object.
LEMMA FieldsObject ==
  ASSUME NEW V, NEW s \in Seq(Entry(V)), DistinctKeys(s)
  PROVE  Object(s) \in Objects(V) /\ Object(s).fields = s
BY DEF Objects, Object, Entry, DistinctKeys

\* The fields of an object as such, and another sequence in their place.
LEMMA ObjectExcept ==
  ASSUME NEW s, NEW t
  PROVE  Object(s).fields = s /\ [Object(s) EXCEPT !.fields = t] = Object(t)
<1> DEFINE With(f) == [kind : {"object"}, text : {""}, fields : {f}]
<1>1. ASSUME NEW d \in With(s) PROVE [d EXCEPT !.fields = t] \in With(t)
  OBVIOUS
<1>2. ASSUME NEW d \in With(t) PROVE d = Object(t)
  BY DEF Object
<1>3. Object(s) \in With(s) /\ Object(s).fields = s
  BY DEF Object
<1> QED
  BY <1>1, <1>2, <1>3

\* One field of a sequence of fields.
LEMMA FieldOf ==
  ASSUME NEW V, NEW s \in Seq(Entry(V)), NEW i \in DOMAIN s
  PROVE  /\ s[i].key \in Nat /\ s[i].value \in V
         /\ s[i] = [key |-> s[i].key, value |-> s[i].value]
<1>1. s[i] \in Entry(V)
  OBVIOUS
<1> QED
  BY <1>1 DEF Entry

\* Reverse turns the positions round.
LEMMA ReverseSeq ==
  ASSUME NEW F, NEW s \in Seq(F)
  PROVE  /\ Len(s) \in Nat /\ DOMAIN s = 1 .. Len(s)
         /\ Reverse(s) \in Seq(F) /\ DOMAIN Reverse(s) = 1 .. Len(s)
         /\ \A i \in 1 .. Len(s) : /\ Len(s) - i + 1 \in 1 .. Len(s)
                                   /\ Reverse(s)[i] = s[Len(s) - i + 1]
<1>1. Len(s) \in Nat /\ DOMAIN s = 1 .. Len(s)
  OBVIOUS
<1>2. \A i \in 1 .. Len(s) : Len(s) - i + 1 \in 1 .. Len(s)
  BY <1>1
<1>3. Reverse(s) = [i \in 1 .. Len(s) |-> s[Len(s) - i + 1]]
  BY <1>1 DEF Reverse
<1>4. Reverse(s) \in [1 .. Len(s) -> F]
  BY <1>1, <1>2, <1>3
<1> QED
  BY <1>1, <1>2, <1>3, <1>4

\* Reversing an object reverses its fields.
LEMMA ReversedFields ==
  ASSUME NEW s
  PROVE  Reversed(Object(s)) = Object(Reverse(s))
BY ObjectExcept DEF Reversed

\* Mapping an object maps its fields.
LEMMA MappedFields ==
  ASSUME NEW s, NEW g
  PROVE  MapFields(Object(s), g) =
           Object([i \in DOMAIN s |-> [key |-> s[i].key, value |-> g[s[i].value]]])
BY ObjectExcept, Zenon DEF MapFields

\* The entries of an object have a number for a key.
LEMMA EntryKey == ASSUME NEW V PROVE \A e \in Entry(V) : e.key \in Nat
BY DEF Entry

\* Objects of fewer values are fewer.
LEMMA ObjectsMonotone ==
  ASSUME NEW V, NEW W, V \subseteq W
  PROVE  Objects(V) \subseteq Objects(W)
<1> SUFFICES ASSUME NEW v \in Objects(V) PROVE v \in Objects(W)
  OBVIOUS
<1>1. v.fields \in Seq(Entry(W))
  <2>1. v.fields \in Seq(Entry(V)) /\ Entry(V) \subseteq Entry(W)
    BY ObjectFields DEF Entry
  <2> QED
    BY <2>1
<1> QED
  BY <1>1, ObjectFields, FieldsObject

\* Mapping the values of an object keeps its keys.
LEMMA MapObjects ==
  ASSUME NEW V, NEW W, NEW v \in Objects(V), NEW g \in [V -> W]
  PROVE  MapFields(v, g) \in Objects(W)
<1> DEFINE s == v.fields
           t == [i \in DOMAIN s |-> [key |-> s[i].key, value |-> g[s[i].value]]]
<1>1. s \in Seq(Entry(V)) /\ DistinctKeys(s)
  BY ObjectFields
<1>2. \A i \in DOMAIN s : s[i].key \in Nat /\ s[i].value \in V
  BY <1>1, FieldOf
<1>3. t \in Seq(Entry(W))
  <2>1. \A i \in DOMAIN s : t[i] \in Entry(W)
    BY <1>2 DEF Entry
  <2>2. DOMAIN s = 1 .. Len(s) /\ Len(s) \in Nat
    BY <1>1
  <2>3. t \in [1 .. Len(s) -> Entry(W)]
    BY <2>1, <2>2
  <2> HIDE DEF t
  <2> QED
    BY <2>2, <2>3
<1>4. DistinctKeys(t)
  BY <1>1 DEF DistinctKeys
<1>5. MapFields(v, g) = Object(t)
  BY DEF MapFields
<1> HIDE DEF t
<1> QED
  BY <1>3, <1>4, <1>5, FieldsObject

\* Mapping with what changes no value changes nothing.
LEMMA MapIdentity ==
  ASSUME NEW V, NEW v \in Objects(V), NEW g, \A x \in V : g[x] = x
  PROVE  MapFields(v, g) = v
<1> DEFINE s == v.fields
           t == [i \in DOMAIN s |-> [key |-> s[i].key, value |-> g[s[i].value]]]
<1>1. s \in Seq(Entry(V)) /\ v = Object(s)
  BY ObjectFields
<1>2. ASSUME NEW i \in DOMAIN s PROVE t[i] = s[i]
  <2>1. s[i].value \in V /\ s[i] = [key |-> s[i].key, value |-> s[i].value]
    BY <1>1, FieldOf
  <2> QED
    BY <2>1
<1>3. t = s
  <2>1. DOMAIN t = DOMAIN s /\ t = [i \in DOMAIN t |-> t[i]]
    OBVIOUS
  <2>2. s = [i \in DOMAIN s |-> s[i]]
    BY <1>1
  <2> HIDE DEF t, s
  <2> QED
    BY <1>2, <2>1, <2>2
<1> QED
  BY <1>1, <1>3 DEF MapFields

\* Mapping and reversing can be exchanged.
LEMMA MapReversed ==
  ASSUME NEW V, NEW v \in Objects(V), NEW g
  PROVE  MapFields(Reversed(v), g) = Reversed(MapFields(v, g))
<1> DEFINE s == v.fields
           M(t) == [i \in DOMAIN t |-> [key |-> t[i].key, value |-> g[t[i].value]]]
<1>1. s \in Seq(Entry(V)) /\ v = Object(s)
  BY ObjectFields
<1> HIDE DEF s
<1>2. Reversed(v) = Object(Reverse(s))
  BY <1>1, ReversedFields
<1>3. MapFields(v, g) = Object(M(s)) /\ MapFields(Reversed(v), g) = Object(M(Reverse(s)))
  BY <1>1, <1>2, MappedFields, Zenon
<1>4. Reversed(Object(M(s))) = Object(Reverse(M(s)))
  BY ReversedFields
<1>5. M(Reverse(s)) = Reverse(M(s))
  <2>1. Len(s) \in Nat /\ DOMAIN s = 1 .. Len(s) /\ Len(M(s)) = Len(s)
    BY <1>1
  <2> QED
    BY <2>1 DEF Reverse
<1> QED
  BY <1>3, <1>4, <1>5

\* Reversing an object gives an object.
LEMMA ReversedObject ==
  ASSUME NEW V, NEW v \in Objects(V)
  PROVE  Reversed(v) \in Objects(V)
<1> DEFINE s == v.fields
           r == Reverse(s)
<1>1. s \in Seq(Entry(V)) /\ v = Object(s) /\ DistinctKeys(s)
  BY ObjectFields
<1> HIDE DEF s
<1>2. Reversed(v) = Object(r)
  BY <1>1, ReversedFields
<1>3. /\ Len(s) \in Nat /\ DOMAIN s = 1 .. Len(s) /\ DOMAIN r = 1 .. Len(s)
      /\ r \in Seq(Entry(V))
      /\ \A i \in 1 .. Len(s) : /\ Len(s) - i + 1 \in 1 .. Len(s)
                                /\ r[i] = s[Len(s) - i + 1]
  BY <1>1, ReverseSeq
<1> HIDE DEF r
<1>4. DistinctKeys(r)
  <2> SUFFICES ASSUME NEW i \in 1 .. Len(s), NEW j \in 1 .. Len(s),
                      r[i].key = r[j].key
               PROVE  i = j
    BY <1>3 DEF DistinctKeys
  <2> DEFINE a == Len(s) - i + 1
             b == Len(s) - j + 1
  <2>1. a = b
    <3>1. a \in DOMAIN s /\ b \in DOMAIN s /\ r[i] = s[a] /\ r[j] = s[b]
      BY <1>3
    <3> HIDE DEF a, b
    <3> QED
      BY <1>1, <3>1 DEF DistinctKeys
  <2> QED
    BY <1>3, <2>1
<1> QED
  BY <1>2, <1>3, <1>4, FieldsObject

\* An object with its keys in order is an object of the same values; it does not
\* depend on the order before, and is its own ordered form.
LEMMA SortedKeysObject ==
  ASSUME NEW V, NEW v \in Objects(V)
  PROVE  /\ SortedKeys(v) \in Objects(V)
         /\ SortedKeys(SortedKeys(v)) = SortedKeys(v)
         /\ SortedKeys(Reversed(v)) = SortedKeys(v)
<1> DEFINE s == v.fields
<1>1. s \in Seq(Entry(V)) /\ v = Object(s) /\ DistinctKeys(s)
  BY ObjectFields
<1>2. ASSUME NEW t PROVE SortedKeys(Object(t)) = Object(InKeyOrder(t))
  <2>1. Object(t) # Scalar("null")
    BY DEF Object, Scalar
  <2> QED
    BY <2>1 DEF SortedKeys, Object
<1>3. SortedKeys(v) = Object(InKeyOrder(s))
  BY <1>1, <1>2
<1>4. /\ InKeyOrder(s) \in Seq(Entry(V)) /\ DistinctKeys(InKeyOrder(s))
      /\ InKeyOrder(InKeyOrder(s)) = InKeyOrder(s)
  BY <1>1, EntryKey, InKeyOrderKeeps
<1>5. SortedKeys(v) \in Objects(V)
  BY <1>3, <1>4, FieldsObject
<1>6. SortedKeys(SortedKeys(v)) = SortedKeys(v)
  BY <1>2, <1>3, <1>4
<1>7. SortedKeys(Reversed(v)) = SortedKeys(v)
  <2>1. Reversed(v) = Object(Reverse(s))
    BY <1>1, ReversedFields, Zenon
  <2>2. InKeyOrder(Reverse(s)) = InKeyOrder(s)
    BY <1>1, InKeyOrderReverse
  <2> QED
    BY <1>2, <1>3, <2>1, <2>2
<1> QED
  BY <1>5, <1>6, <1>7

-----------------------------------------------------------------------------
(***************************************************************************)
(* Escaping and the canonical form, level by level: the texts that         *)
(* json.Marshal leaves, and among them those that marshalSorted leaves.    *)
(***************************************************************************)
EscapedLeaves ==
  {Scalar(t) : t \in {"plain", "\\u003c", "null"}} \cup {Object(<<>>)}
EscapedMembers == EscapedLeaves \cup Objects(EscapedLeaves)

Ordered(V) == {v \in Objects(V) : SortedKeys(v) = v}

CanonicalLeaves ==
  {Scalar(t) : t \in {"plain", "\\u003c"}} \cup {Object(<<>>)}
CanonicalMembers == CanonicalLeaves \cup Ordered(CanonicalLeaves)

\* What Marshal and marshalSorted do to a member of a message.
EscapedMember(u) == EachField(EscapedScalar, EscapedScalar(u))
SortedMember(u) == SortedKeys(EachField(SortedKeys, u))

\* Their uses in the two operators.
LEMMA MemberOperators ==
  ASSUME NEW v
  PROVE  /\ Marshal(v) = EachField(EscapedMember, EscapedScalar(v))
         /\ marshalSorted(v) = SortedKeys(EachField(SortedMember, v))
BY DEF Marshal, marshalSorted, EscapedMember, SortedMember, EachField

\* The parts of a scalar, and others in their place.
LEMMA ScalarExcept ==
  ASSUME NEW t, NEW u
  PROVE  /\ Scalar(t).text = t /\ Scalar(t).fields = <<>>
         /\ [Scalar(t) EXCEPT !.text = u] = Scalar(u)
         /\ [Scalar(t) EXCEPT !.fields = <<>>] = Scalar(t)
<1> DEFINE With(x) == [kind : {"scalar"}, text : {x}, fields : {<<>>}]
<1>1. ASSUME NEW d \in With(t) PROVE [d EXCEPT !.text = u] \in With(u)
  OBVIOUS
<1>2. ASSUME NEW d \in With(t) PROVE [d EXCEPT !.fields = <<>>] \in With(t)
  OBVIOUS
<1>3. ASSUME NEW x, NEW d \in With(x) PROVE d = Scalar(x)
  BY DEF Scalar
<1>4. Scalar(t) \in With(t) /\ Scalar(t).text = t /\ Scalar(t).fields = <<>>
  BY DEF Scalar
<1> HIDE DEF With
<1> QED
  BY <1>1, <1>2, <1>3, <1>4

\* An object has no text to escape.
LEMMA ObjectUnescaped ==
  ASSUME NEW s
  PROVE  EscapedScalar(Object(s)) = Object(s)
<1> DEFINE With(f) == [kind : {"object"}, text : {""}, fields : {f}]
<1>1. ASSUME NEW d \in With(s) PROVE EscapedScalar(d) \in With(s)
  BY DEF EscapedScalar
<1>2. ASSUME NEW d \in With(s) PROVE d = Object(s)
  BY DEF Object
<1>3. Object(s) \in With(s)
  BY DEF Object
<1> QED
  BY <1>1, <1>2, <1>3

\* There is one order of no fields.
LEMMA NoFields == InKeyOrder(<<>>) = <<>> /\ SortedKeys(Object(<<>>)) = Object(<<>>)
<1>1. <<>> \in Seq({}) /\ DistinctKeys(<<>>)
  BY DEF DistinctKeys
<1>2. Arranges(InKeyOrder(<<>>), <<>>)
  BY <1>1, InKeyOrderArranges
<1>3. InKeyOrder(<<>>) = <<>>
  BY <1>2 DEF Arranges
<1>4. Object(<<>>) # Scalar("null")
  BY DEF Object, Scalar
<1>5. SortedKeys(Object(<<>>)) = [Object(<<>>) EXCEPT !.fields = <<>>]
  BY <1>3, <1>4, ObjectExcept DEF SortedKeys
<1> QED
  BY <1>3, <1>5, ObjectExcept

\* Leaves: escaping and sorting take them to their forms, and leave those alone.
LEMMA EscapedLeaf ==
  /\ \A l \in Leaves : EscapedScalar(l) \in EscapedLeaves
  /\ \A l \in EscapedLeaves : EscapedScalar(l) = l
<1>1. ASSUME NEW t
      PROVE  EscapedScalar(Scalar(t)) = Scalar(IF t = "<" THEN "\\u003c" ELSE t)
  BY ScalarExcept DEF EscapedScalar
<1>2. EscapedScalar(Object(<<>>)) = Object(<<>>)
  BY ObjectUnescaped
<1> QED
  BY <1>1, <1>2 DEF Leaves, EscapedLeaves

\* The same for sorting, which turns a null into {}.
LEMMA SortedLeaf ==
  /\ \A l \in EscapedLeaves : SortedKeys(l) \in CanonicalLeaves
  /\ \A l \in CanonicalLeaves : SortedKeys(l) = l
<1>1. ASSUME NEW t, t # "null" PROVE SortedKeys(Scalar(t)) = Scalar(t)
  <2>1. Scalar(t) # Scalar("null")
    BY <1>1, ScalarExcept
  <2> QED
    BY <2>1, NoFields, ScalarExcept DEF SortedKeys
<1>2. SortedKeys(Scalar("null")) = Object(<<>>)
  BY DEF SortedKeys
<1> QED
  BY <1>1, <1>2, NoFields DEF EscapedLeaves, CanonicalLeaves

\* The forms lie in one another.
LEMMA FormsNested ==
  /\ CanonicalLeaves \subseteq EscapedLeaves
  /\ CanonicalMembers \subseteq EscapedMembers
  /\ Ordered(CanonicalMembers) \subseteq Objects(EscapedMembers)
  /\ Objects(EscapedMembers) \subseteq Payloads
<1>1. CanonicalLeaves \subseteq EscapedLeaves /\ EscapedLeaves \subseteq Leaves
  BY DEF CanonicalLeaves, EscapedLeaves, Leaves
<1>2. /\ Objects(CanonicalLeaves) \subseteq Objects(EscapedLeaves)
      /\ Objects(EscapedLeaves) \subseteq Objects(Leaves)
  BY <1>1, ObjectsMonotone
<1>3. CanonicalMembers \subseteq EscapedMembers /\ EscapedMembers \subseteq Members
  BY <1>1, <1>2 DEF CanonicalMembers, EscapedMembers, Members, Ordered
<1>4. /\ Objects(CanonicalMembers) \subseteq Objects(EscapedMembers)
      /\ Objects(EscapedMembers) \subseteq Payloads
  BY <1>3, ObjectsMonotone DEF Payloads
<1> QED
  BY <1>1, <1>3, <1>4 DEF Ordered

\* A function in the place of the operator that EachField takes.
LEMMA EachEntry ==
  ASSUME NEW s, NEW g, NEW t,
         t = [i \in DOMAIN s |-> [key |-> s[i].key, value |-> g[s[i].value]]]
  PROVE  [Object(s) EXCEPT !.fields = t] = MapFields(Object(s), g)
<1>1. [Object(s) EXCEPT !.fields = t] = Object(t)
  BY ObjectExcept
<1>2. MapFields(Object(s), g) = Object(t)
  BY MappedFields
<1> QED
  BY <1>1, <1>2

\* EachField with each of the four operators it is used with.
LEMMA EachFieldMaps ==
  ASSUME NEW V, NEW v \in Objects(V)
  PROVE  /\ EachField(EscapedScalar, v) = MapFields(v, [x \in V |-> EscapedScalar(x)])
         /\ EachField(SortedKeys, v) = MapFields(v, [x \in V |-> SortedKeys(x)])
         /\ EachField(EscapedMember, v) = MapFields(v, [x \in V |-> EscapedMember(x)])
         /\ EachField(SortedMember, v) = MapFields(v, [x \in V |-> SortedMember(x)])
<1> DEFINE s == v.fields
<1>1. s \in Seq(Entry(V)) /\ v = Object(s)
  BY ObjectFields
<1>2. \A i \in DOMAIN s : s[i].value \in V
  BY <1>1, FieldOf
<1>3. EachField(EscapedScalar, v) = MapFields(v, [x \in V |-> EscapedScalar(x)])
  <2> DEFINE g == [x \in V |-> EscapedScalar(x)]
             t == [i \in DOMAIN s |->
                     [key |-> s[i].key, value |-> EscapedScalar(s[i].value)]]
  <2>1. t = [i \in DOMAIN s |-> [key |-> s[i].key, value |-> g[s[i].value]]]
    BY <1>2
  <2>2. EachField(EscapedScalar, v) = [v EXCEPT !.fields = t]
    BY DEF EachField
  <2> HIDE DEF g, s, t
  <2> QED
    BY <1>1, <2>1, <2>2, EachEntry DEF g
<1>4. EachField(SortedKeys, v) = MapFields(v, [x \in V |-> SortedKeys(x)])
  <2> DEFINE g == [x \in V |-> SortedKeys(x)]
             t == [i \in DOMAIN s |->
                     [key |-> s[i].key, value |-> SortedKeys(s[i].value)]]
  <2>1. t = [i \in DOMAIN s |-> [key |-> s[i].key, value |-> g[s[i].value]]]
    BY <1>2
  <2>2. EachField(SortedKeys, v) = [v EXCEPT !.fields = t]
    BY DEF EachField
  <2> HIDE DEF g, s, t
  <2> QED
    BY <1>1, <2>1, <2>2, EachEntry DEF g
<1>5. EachField(EscapedMember, v) = MapFields(v, [x \in V |-> EscapedMember(x)])
  <2> DEFINE g == [x \in V |-> EscapedMember(x)]
             t == [i \in DOMAIN s |->
                     [key |-> s[i].key, value |-> EscapedMember(s[i].value)]]
  <2>1. t = [i \in DOMAIN s |-> [key |-> s[i].key, value |-> g[s[i].value]]]
    BY <1>2
  <2>2. EachField(EscapedMember, v) = [v EXCEPT !.fields = t]
    BY DEF EachField
  <2> HIDE DEF g, s, t
  <2> QED
    BY <1>1, <2>1, <2>2, EachEntry DEF g
<1>6. EachField(SortedMember, v) = MapFields(v, [x \in V |-> SortedMember(x)])
  <2> DEFINE g == [x \in V |-> SortedMember(x)]
             t == [i \in DOMAIN s |->
                     [key |-> s[i].key, value |-> SortedMember(s[i].value)]]
  <2>1. t = [i \in DOMAIN s |-> [key |-> s[i].key, value |-> g[s[i].value]]]
    BY <1>2
  <2>2. EachField(SortedMember, v) = [v EXCEPT !.fields = t]
    BY DEF EachField
  <2> HIDE DEF g, s, t
  <2> QED
    BY <1>1, <2>1, <2>2, EachEntry DEF g
<1> QED
  BY <1>3, <1>4, <1>5, <1>6

\* A leaf has no fields to change.
LEMMA EachFieldOfLeaf ==
  ASSUME NEW l \in Leaves
  PROVE  EachField(EscapedScalar, l) = l /\ EachField(SortedKeys, l) = l
<1>1. l.fields = <<>> /\ [l EXCEPT !.fields = <<>>] = l
  BY ScalarExcept, ObjectExcept DEF Leaves
<1>2. DOMAIN <<>> = {}
  OBVIOUS
<1>3. EachField(EscapedScalar, l) = [l EXCEPT !.fields = <<>>]
  BY <1>1, <1>2 DEF EachField
<1>4. EachField(SortedKeys, l) = [l EXCEPT !.fields = <<>>]
  BY <1>1, <1>2 DEF EachField
<1> QED
  BY <1>1, <1>3, <1>4

\* Members: escaping takes them to their escaped form and leaves that alone.
LEMMA EscapedMemberForm ==
  /\ \A u \in Members : EscapedMember(u) \in EscapedMembers
  /\ \A u \in EscapedMembers : EscapedMember(u) = u
<1>1. ASSUME NEW u \in Leaves PROVE EscapedMember(u) = EscapedScalar(u)
  <2>1. EscapedScalar(u) \in Leaves
    BY EscapedLeaf DEF EscapedLeaves, Leaves
  <2> QED
    BY <2>1, EachFieldOfLeaf DEF EscapedMember
<1>2. ASSUME NEW V, NEW u \in Objects(V)
      PROVE  EscapedMember(u) = MapFields(u, [x \in V |-> EscapedScalar(x)])
  <2>1. EscapedScalar(u) = u
    BY ObjectFields, ObjectUnescaped
  <2> QED
    BY <2>1, EachFieldMaps DEF EscapedMember
<1>3. ASSUME NEW u \in Objects(Leaves) PROVE EscapedMember(u) \in Objects(EscapedLeaves)
  <2> DEFINE g == [x \in Leaves |-> EscapedScalar(x)]
  <2>1. g \in [Leaves -> EscapedLeaves]
    BY EscapedLeaf
  <2>2. EscapedMember(u) = MapFields(u, g)
    BY <1>2
  <2> HIDE DEF g
  <2> QED
    BY <2>1, <2>2, MapObjects
<1>4. ASSUME NEW u \in Objects(EscapedLeaves) PROVE EscapedMember(u) = u
  <2> DEFINE g == [x \in EscapedLeaves |-> EscapedScalar(x)]
  <2>1. \A x \in EscapedLeaves : g[x] = x
    BY EscapedLeaf
  <2>2. EscapedMember(u) = MapFields(u, g)
    BY <1>2
  <2> HIDE DEF g
  <2> QED
    BY <2>1, <2>2, MapIdentity
<1>5. EscapedLeaves \subseteq Leaves
  BY DEF EscapedLeaves, Leaves
<1> QED
  BY <1>1, <1>3, <1>4, <1>5, EscapedLeaf DEF Members, EscapedMembers

\* Members: sorting takes them to their canonical form and leaves that alone.
LEMMA SortedMemberForm ==
  /\ \A u \in EscapedMembers : SortedMember(u) \in CanonicalMembers
  /\ \A u \in CanonicalMembers : SortedMember(u) = u
<1>1. ASSUME NEW u \in Leaves PROVE SortedMember(u) = SortedKeys(u)
  BY EachFieldOfLeaf DEF SortedMember
<1>2. ASSUME NEW V, NEW u \in Objects(V)
      PROVE  SortedMember(u) =
               SortedKeys(MapFields(u, [x \in V |-> SortedKeys(x)]))
  BY EachFieldMaps DEF SortedMember
<1>3. ASSUME NEW u \in Objects(EscapedLeaves)
      PROVE  SortedMember(u) \in Ordered(CanonicalLeaves)
  <2> DEFINE g == [x \in EscapedLeaves |-> SortedKeys(x)]
  <2>1. g \in [EscapedLeaves -> CanonicalLeaves]
    BY SortedLeaf
  <2>2. SortedMember(u) = SortedKeys(MapFields(u, g))
    BY <1>2
  <2> HIDE DEF g
  <2>3. MapFields(u, g) \in Objects(CanonicalLeaves)
    BY <2>1, MapObjects
  <2> QED
    BY <2>2, <2>3, SortedKeysObject DEF Ordered
<1>4. ASSUME NEW u \in Ordered(CanonicalLeaves) PROVE SortedMember(u) = u
  <2> DEFINE g == [x \in CanonicalLeaves |-> SortedKeys(x)]
  <2>1. \A x \in CanonicalLeaves : g[x] = x
    BY SortedLeaf
  <2>2. u \in Objects(CanonicalLeaves) /\ SortedKeys(u) = u
    BY DEF Ordered
  <2>3. SortedMember(u) = SortedKeys(MapFields(u, g))
    BY <1>2, <2>2
  <2> HIDE DEF g
  <2> QED
    BY <2>1, <2>2, <2>3, MapIdentity
<1>5. CanonicalLeaves \subseteq Leaves /\ EscapedLeaves \subseteq Leaves
  BY DEF CanonicalLeaves, EscapedLeaves, Leaves
<1> QED
  BY <1>1, <1>3, <1>4, <1>5, SortedLeaf DEF EscapedMembers, CanonicalMembers

\* json.Marshal of a message: it escapes, and what is escaped it leaves alone.
LEMMA MarshalForm ==
  /\ \A v \in Payloads : /\ Marshal(v) \in Objects(EscapedMembers)
                         /\ Marshal(Reversed(v)) = Reversed(Marshal(v))
  /\ \A v \in Objects(EscapedMembers) : Marshal(v) = v
<1>1. ASSUME NEW V, NEW v \in Objects(V)
      PROVE  Marshal(v) = MapFields(v, [x \in V |-> EscapedMember(x)])
  <2>1. EscapedScalar(v) = v
    BY ObjectFields, ObjectUnescaped
  <2>2. Marshal(v) = EachField(EscapedMember, v)
    BY <2>1, MemberOperators
  <2>3. EachField(EscapedMember, v) = MapFields(v, [x \in V |-> EscapedMember(x)])
    BY EachFieldMaps
  <2> QED
    BY <2>2, <2>3
<1>2. ASSUME NEW v \in Payloads
      PROVE  /\ Marshal(v) \in Objects(EscapedMembers)
             /\ Marshal(Reversed(v)) = Reversed(Marshal(v))
  <2> DEFINE g == [x \in Members |-> EscapedMember(x)]
  <2>1. g \in [Members -> EscapedMembers]
    BY EscapedMemberForm
  <2>2. v \in Objects(Members) /\ Reversed(v) \in Objects(Members)
    BY ReversedObject DEF Payloads
  <2>3. Marshal(v) = MapFields(v, g) /\ Marshal(Reversed(v)) = MapFields(Reversed(v), g)
    BY <1>1, <2>2
  <2> HIDE DEF g
  <2> QED
    BY <2>1, <2>2, <2>3, MapObjects, MapReversed
<1>3. ASSUME NEW v \in Objects(EscapedMembers) PROVE Marshal(v) = v
  <2> DEFINE g == [x \in EscapedMembers |-> EscapedMember(x)]
  <2>1. \A x \in EscapedMembers : g[x] = x
    BY EscapedMemberForm
  <2>2. Marshal(v) = MapFields(v, g)
    BY <1>1
  <2> HIDE DEF g
  <2> QED
    BY <2>1, <2>2, MapIdentity
<1> QED
  BY <1>2, <1>3

\* marshalSorted: a canonical form that no order of the fields changes, and that
\* it leaves alone.
LEMMA MarshalSortedForm ==
  /\ \A v \in Objects(EscapedMembers) :
       /\ marshalSorted(v) \in Ordered(CanonicalMembers)
       /\ marshalSorted(Reversed(v)) = marshalSorted(v)
  /\ \A v \in Ordered(CanonicalMembers) : marshalSorted(v) = v
<1>1. ASSUME NEW V, NEW v \in Objects(V)
      PROVE  marshalSorted(v) =
               SortedKeys(MapFields(v, [x \in V |-> SortedMember(x)]))
  BY EachFieldMaps, MemberOperators
<1>2. ASSUME NEW v \in Objects(EscapedMembers)
      PROVE  /\ marshalSorted(v) \in Ordered(CanonicalMembers)
             /\ marshalSorted(Reversed(v)) = marshalSorted(v)
  <2> DEFINE g == [x \in EscapedMembers |-> SortedMember(x)]
             m == MapFields(v, g)
  <2>1. g \in [EscapedMembers -> CanonicalMembers]
    BY SortedMemberForm
  <2>2. /\ marshalSorted(v) = SortedKeys(m)
        /\ marshalSorted(Reversed(v)) = SortedKeys(MapFields(Reversed(v), g))
    BY <1>1, ReversedObject
  <2> HIDE DEF g
  <2>3. m \in Objects(CanonicalMembers) /\ MapFields(Reversed(v), g) = Reversed(m)
    BY <2>1, MapObjects, MapReversed
  <2> HIDE DEF m
  <2> QED
    BY <2>2, <2>3, SortedKeysObject DEF Ordered
<1>3. ASSUME NEW v \in Ordered(CanonicalMembers) PROVE marshalSorted(v) = v
  <2> DEFINE g == [x \in CanonicalMembers |-> SortedMember(x)]
  <2>1. \A x \in CanonicalMembers : g[x] = x
    BY SortedMemberForm
  <2>2. v \in Objects(CanonicalMembers) /\ SortedKeys(v) = v
    BY DEF Ordered
  <2>3. marshalSorted(v) = SortedKeys(MapFields(v, g))
    BY <1>1, <2>2
  <2> HIDE DEF g
  <2> QED
    BY <2>1, <2>2, <2>3, MapIdentity
<1> QED
  BY <1>2, <1>3

\* What is signed: the canonical form does not depend on the order of the
\* fields, is its own canonical form, and json.Marshal does not touch it.
LEMMA CanonicalForm ==
  ASSUME NEW v \in Payloads
  PROVE  /\ canonicalJSON(v) \in Payloads
         /\ Marshal(canonicalJSON(v)) = canonicalJSON(v)
         /\ canonicalJSON(canonicalJSON(v)) = canonicalJSON(v)
         /\ canonicalJSON(Reversed(v)) = canonicalJSON(v)
<1> DEFINE c == canonicalJSON(v)
<1>1. Marshal(v) \in Objects(EscapedMembers) /\ c = marshalSorted(Marshal(v))
  BY MarshalForm DEF canonicalJSON
<1>2. c \in Ordered(CanonicalMembers)
  BY <1>1, MarshalSortedForm
<1>3. c \in Objects(EscapedMembers) /\ c \in Payloads
  BY <1>2, FormsNested
<1>4. Marshal(c) = c /\ marshalSorted(c) = c
  BY <1>2, <1>3, MarshalForm, MarshalSortedForm
<1>5. canonicalJSON(Reversed(v)) = c
  BY <1>1, MarshalForm, MarshalSortedForm DEF canonicalJSON
<1>6. canonicalJSON(c) = c
  BY <1>4 DEF canonicalJSON
<1> QED
  BY <1>3, <1>4, <1>5, <1>6

\* The envelope that travels is the one that was signed.
LEMMA SentForm ==
  ASSUME NEW key, NEW v \in Payloads
  PROVE  /\ Sent(Sign(key, v)) = Sign(key, v)
         /\ Sign(key, v).payload = canonicalJSON(v)
         /\ Verify(key, Sign(key, v))
         /\ Sign(key, Reversed(v)) = Sign(key, v)
         /\ Sign(key, v) # Nothing
<1> DEFINE c == canonicalJSON(v)
           sig == [alg |-> "HMAC-SHA256", value |-> Mac(key, c)]
           env == [payload |-> c, sig |-> sig]
<1>1. Sign(key, v) = env /\ Sign(key, Reversed(v)) = env
  BY CanonicalForm DEF Sign
<1>2. Marshal(c) = c
  BY CanonicalForm
<1>3. sig.alg = "HMAC-SHA256" /\ sig.value = Mac(key, c)
  OBVIOUS
<1> HIDE DEF c, sig
<1>4. env.payload = c /\ env.sig = sig /\ [env EXCEPT !.payload = c] = env
  OBVIOUS
<1>5. env # Nothing
  BY DEF Nothing
<1> HIDE DEF env
<1>6. Sent(env) = env /\ Verify(key, env)
  BY <1>2, <1>3, <1>4 DEF Sent, Verify
<1> QED
  BY <1>1, <1>4, <1>5, <1>6 DEF c

-----------------------------------------------------------------------------
(***************************************************************************)
(* The inductive invariant.  A header that was written by an earlier       *)
(* handler has to denote one more than the count before, or the count      *)
(* would not be that of the attempts; a message that waits keeps its path  *)
(* and a spelling of its identifier; and what is known of its file and of  *)
(* its result was computed from those of the upload.                       *)
(***************************************************************************)
CountKept ==
  LET start == Readings(upload.header)
  IN /\ stage = "queued" =>
          \A m \in Readings(msg.header) : \E n \in start : m = n + attempts
     /\ stage \in {"scanning", "sent", "dead"} =>
          \E n \in start : count = n + attempts

Identified ==
  /\ msg.path = upload.path
  /\ NormalizeUUID(msg.caseId) = NormalizeUUID(upload.caseId)

Computed ==
  /\ consistency # "none" =>
       consistency = computeChecksumAndMagicBytes(upload.file)
  /\ sent # Nothing /\ signer # "none" => sent = Sign(signer, upload.result)

DataInv == TypeOK /\ CountKept /\ Identified /\ Computed

\* A step that leaves a message's own state alone keeps what is known of it.
LEMMA DataFrame ==
  ASSUME DataInv, cancelled' \subseteq Cancels,
         UNCHANGED <<signer, upload, msg, stage, count, attempts, consistency, sent>>
  PROVE  DataInv'
BY DEF DataInv, TypeOK, CountKept, Identified, Computed

\* The first state.
LEMMA DataInit == Init => DataInv
<1> SUFFICES ASSUME Init PROVE DataInv
  OBVIOUS
<1>1. upload \in Arrivals /\ msg = upload
  BY MessagesAssumption DEF Init
<1>2. TypeOK
  BY <1>1, IntBounds DEF Init, TypeOK
<1>3. CountKept
  <2>1. \A n \in Readings(upload.header) : n = n + 0
    BY <1>1, UploadFields, ExtractDenotes
  <2> QED
    BY <1>1, <2>1 DEF Init, CountKept
<1> QED
  BY <1>1, <1>2, <1>3 DEF Init, DataInv, Identified, Computed

\* HandleScanMessage reads the count of the attempt the message is in.
LEMMA DataHandle ==
  ASSUME DataInv, HandleScanMessage
  PROVE  DataInv'
<1>1. /\ stage = "queued" /\ stage' \in {"discarded", "scanning"}
      /\ msg' = [msg EXCEPT !.caseId = NormalizeUUID(msg.caseId)]
      /\ UNCHANGED <<signer, cancelled, upload, attempts, consistency, sent>>
  BY DEF HandleScanMessage
<1>2. /\ upload \in Arrivals /\ msg \in Arrivals
      /\ msg.caseId \in Ids /\ msg.header \in Headers
  BY UploadFields DEF DataInv, TypeOK
<1>3. /\ msg' \in Arrivals /\ msg'.path = msg.path
      /\ msg'.caseId = NormalizeUUID(msg.caseId)
  <2>1. NormalizeUUID(msg.caseId) \in Ids
    BY <1>2, NormalizeSpells
  <2> QED
    BY <1>1, <1>2, <2>1 DEF Arrivals
<1>4. CASE stage' = "discarded"
  <2>1. count' = count
    BY <1>4 DEF HandleScanMessage
  <2> QED
    BY <1>1, <1>2, <1>3, <1>4, <2>1, NormalizeSpells
       DEF DataInv, TypeOK, CountKept, Identified, Computed
<1>5. CASE stage' = "scanning"
  <2>1. count' \in extractRetryCount(msg.header)
    BY <1>5 DEF HandleScanMessage
  <2>2. count' \in Readings(msg.header) /\ count' \in 0 .. MaxInt
    BY <1>2, <2>1, ExtractDenotes
  <2>3. \E n \in Readings(upload.header) : count' = n + attempts
    BY <1>1, <2>2 DEF DataInv, CountKept
  <2>4. CountKept'
    BY <1>1, <1>5, <2>3 DEF CountKept
  <2>5. TypeOK'
    BY <1>1, <1>3, <2>2 DEF DataInv, TypeOK
  <2> QED
    BY <1>1, <1>2, <1>3, <2>4, <2>5, NormalizeSpells
       DEF DataInv, Identified, Computed
<1> QED
  BY <1>1, <1>4, <1>5

\* handleScanFailure writes the count of the next attempt, and stops at the
\* limit.
LEMMA DataFailure ==
  ASSUME DataInv, handleScanFailure
  PROVE  DataInv'
<1>1. /\ stage = "scanning"
      /\ UNCHANGED <<signer, cancelled, upload, count, consistency, sent>>
  BY DEF handleScanFailure
<1>2. PICK n \in Readings(upload.header) : count = n + attempts
  BY <1>1 DEF DataInv, CountKept
<1>3. /\ upload \in Arrivals /\ msg \in Arrivals
      /\ count \in 0 .. MaxInt /\ attempts \in 0 .. MaxRetries
  BY DEF DataInv, TypeOK
<1>4. n \in 0 .. MaxInt
  BY <1>2, <1>3, UploadFields, ExtractDenotes
<1>5. CASE stage' = "dead"
  <2>1. UNCHANGED <<msg, attempts>>
    BY <1>5 DEF handleScanFailure
  <2> QED
    BY <1>1, <1>2, <1>5, <2>1 DEF DataInv, TypeOK, CountKept, Identified, Computed
<1>6. CASE stage' = "queued"
  <2>1. /\ count < MaxRetries /\ attempts' = attempts + 1
        /\ msg' = [msg EXCEPT !.header = RetryHeader(count)]
    BY <1>6 DEF handleScanFailure
  <2>2. count \in 0 .. MaxRetries - 1 /\ attempts' \in 0 .. MaxRetries
    BY <1>2, <1>3, <1>4, <2>1, IntBounds
  <2>3. RetryHeader(count) \in Headers /\ Readings(RetryHeader(count)) = {count + 1}
    BY <2>2, RetryHeaderDenotes
  <2>4. /\ msg' \in Arrivals /\ msg'.header = RetryHeader(count)
        /\ msg'.path = msg.path /\ msg'.caseId = msg.caseId
    BY <1>3, <2>1, <2>3 DEF Arrivals
  <2>5. count + 1 = n + attempts'
    BY <1>2, <1>3, <1>4, <2>1
  <2>6. CountKept'
    BY <1>1, <1>2, <1>6, <2>3, <2>4, <2>5 DEF CountKept
  <2>7. TypeOK'
    BY <1>1, <1>6, <2>2, <2>4 DEF DataInv, TypeOK
  <2> QED
    BY <1>1, <2>4, <2>6, <2>7 DEF DataInv, Identified, Computed
<1>7. stage' \in {"queued", "dead"}
  BY DEF handleScanFailure
<1> QED
  BY <1>5, <1>6, <1>7

\* publishScanCompleted classifies and sends what was uploaded.
LEMMA DataPublish ==
  ASSUME DataInv, publishScanCompleted
  PROVE  DataInv'
<1>1. /\ stage = "scanning" /\ stage' = "sent"
      /\ consistency' = computeChecksumAndMagicBytes(upload.file)
      /\ UNCHANGED <<signer, cancelled, upload, msg, count, attempts>>
  BY DEF publishScanCompleted
<1>2. upload \in Arrivals /\ upload.result \in Payloads
  BY UploadFields DEF DataInv, TypeOK
<1>3. /\ sent'.payload \in Payloads
      /\ signer # "none" => sent' = Sign(signer, upload.result)
  <2>1. CASE signer # "none"
    <3>1. sent' = Sent(Sign(signer, upload.result))
      BY <2>1 DEF publishScanCompleted, publishToExchange
    <3> QED
      BY <1>2, <3>1, SentForm, CanonicalForm
  <2>2. CASE signer = "none"
    <3>1. sent' = [payload |-> Marshal(upload.result), sig |-> Nothing]
      BY <2>2 DEF publishScanCompleted, publishToExchange
    <3>2. Marshal(upload.result) \in Payloads
      BY <1>2, MarshalForm, FormsNested
    <3> QED
      BY <2>2, <3>1, <3>2
  <2> QED
    BY <2>1, <2>2
<1>4. consistency' \in {"CONSISTENT", "MINOR_MISMATCH", "MISMATCH", "UNKNOWN", "EMPTY"}
  BY <1>1, ClassifyRange DEF computeChecksumAndMagicBytes
<1>5. TypeOK'
  BY <1>1, <1>3, <1>4 DEF DataInv, TypeOK
<1>6. CountKept' /\ Identified'
  BY <1>1 DEF DataInv, CountKept, Identified
<1> QED
  BY <1>1, <1>3, <1>5, <1>6 DEF DataInv, Computed

\* One step keeps the invariant.
LEMMA DataStep == DataInv /\ [Next]_vars => DataInv'
<1> SUFFICES ASSUME DataInv, [Next]_vars PROVE DataInv'
  OBVIOUS
<1>1. ASSUME NEW id \in Cancels, HandleCancelMessage(id) PROVE DataInv'
  <2>1. cancelled' \subseteq Cancels
    BY <1>1 DEF HandleCancelMessage, DataInv, TypeOK
  <2> QED
    BY <1>1, <2>1, DataFrame DEF HandleCancelMessage
<1>2. CASE UNCHANGED vars
  BY <1>2, DataFrame DEF vars, DataInv, TypeOK
<1> QED
  BY <1>1, <1>2, DataHandle, DataFailure, DataPublish DEF Next

\* The invariant holds in every reachable state.
LEMMA DataInvariant == Spec => []DataInv
BY DataInit, DataStep, PTL DEF Spec

\* Past the checks of HandleScanMessage, the path has been found valid; what was
\* discarded was not, or is cancelled.
Guarded ==
  /\ stage \in {"scanning", "sent", "dead"} => validateTempPath(upload.path, Prefix)
  /\ stage = "discarded" =>
       ~validateTempPath(upload.path, Prefix) \/ msg.caseId \in cancelled

\* A step keeps that: a message that comes back from a retry queue is checked
\* again, and what is cancelled stays cancelled.
LEMMA GuardedStep == DataInv /\ Guarded /\ [Next]_vars => Guarded'
<1> SUFFICES ASSUME DataInv, Guarded, [Next]_vars PROVE Guarded'
  OBVIOUS
<1>1. ASSUME NEW id \in Cancels, HandleCancelMessage(id) PROVE Guarded'
  BY <1>1 DEF HandleCancelMessage, Guarded
<1>2. CASE HandleScanMessage
  <2>1. msg.path = upload.path
    BY DEF DataInv, Identified
  <2>2. upload' = upload /\ cancelled' = cancelled
    BY <1>2 DEF HandleScanMessage
  <2>3. \/ /\ msg'.caseId \in cancelled \/ ~validateTempPath(msg.path, Prefix)
           /\ stage' = "discarded"
        \/ /\ validateTempPath(msg.path, Prefix)
           /\ stage' = "scanning"
    BY <1>2 DEF HandleScanMessage
  <2> QED
    BY <2>1, <2>2, <2>3 DEF Guarded
<1>3. CASE handleScanFailure
  BY <1>3 DEF handleScanFailure, Guarded
<1>4. CASE publishScanCompleted
  BY <1>4 DEF publishScanCompleted, Guarded
<1>5. CASE UNCHANGED vars
  BY <1>5 DEF vars, Guarded
<1> QED
  BY <1>1, <1>2, <1>3, <1>4, <1>5 DEF Next

-----------------------------------------------------------------------------
(***************************************************************************)
(* The properties.                                                         *)
(***************************************************************************)

\* Every value on the path of a message has its type: the count and the attempts
\* stay inside their bounds, headers inside an int, and what is sent is JSON.
THEOREM TypeCorrect == Spec => []TypeOK
<1>1. DataInv => TypeOK
  BY DEF DataInv
<1> QED
  BY <1>1, DataInvariant, PTL

\* The count a handler reads is what the first header denotes plus the times the
\* message was rescheduled, for every type of header and every width of an int,
\* but for the one float64 just above the largest int.
THEOREM CountIsAttemptsHolds == Spec => []CountIsAttempts
<1>1. DataInv => CountIsAttempts
  BY DEF DataInv, CountKept, Readings, Counted, CountIsAttempts
<1> QED
  BY <1>1, DataInvariant, PTL

\* The classification is the same for two types exchanged or stripped, and for an
\* extension and the type it stands for.
THEOREM ConsistencyStableHolds == Spec => []ConsistencyStable
<1>1. ASSUME DataInv PROVE ConsistencyStable
  <2> DEFINE d == upload.file.detected
             c == upload.file.claimed
             e == upload.file.ext
  <2> SUFFICES ASSUME consistency # "none"
               PROVE  /\ c # NoType /\ d # NoType =>
                           consistency = classifyConsistency(c, d, "none")
                      /\ [c EXCEPT !.dressed = FALSE] # NoType /\
                         [d EXCEPT !.dressed = FALSE] # NoType =>
                           consistency = classifyConsistency(
                             [d EXCEPT !.dressed = FALSE],
                             [c EXCEPT !.dressed = FALSE], e)
                      /\ c = NoType =>
                           consistency = classifyConsistency(d, extToMime(e), "none")
    BY DEF ConsistencyStable
  <2>1. consistency = classifyConsistency(d, c, e)
    BY <1>1 DEF DataInv, Computed, computeChecksumAndMagicBytes
  <2>2. d \in MimeTypes /\ c \in MimeTypes
    BY <1>1, UploadFields DEF DataInv, TypeOK
  <2> HIDE DEF d, c, e
  <2> QED
    BY <2>1, <2>2, ClassifySymmetric, ClassifyBare, ClassifyExtension
<1> QED
  BY <1>1, DataInvariant, PTL

\* Every signed result verifies as it arrives, whatever its fields, their order
\* and their characters, and its payload is its own canonical form.
THEOREM SentVerifiesHolds == Spec => []SentVerifies
<1>1. ASSUME DataInv PROVE SentVerifies
  <2> SUFFICES ASSUME sent # Nothing, signer # "none"
               PROVE  /\ Verify(signer, sent)
                      /\ Sent(Sign(signer, Reversed(upload.result))) = sent
                      /\ canonicalJSON(sent.payload) = sent.payload
    BY DEF SentVerifies
  <2>1. sent = Sign(signer, upload.result) /\ upload.result \in Payloads
    BY <1>1, UploadFields DEF DataInv, Computed, TypeOK
  <2> QED
    BY <2>1, SentForm, CanonicalForm
<1> QED
  BY <1>1, DataInvariant, PTL

\* A message goes on to be scanned only past every standard spelling of its case
\* among the cancelled identifiers, and only its own case or its path has it
\* discarded.
THEOREM CancellationMatchesHolds == Spec => CancellationMatches
<1>1. ASSUME DataInv, [Next]_vars, stage = "queued", stage' # "queued"
      PROVE  LET matching == {id \in cancelled : SameId(id, upload.caseId)}
             IN /\ stage' = "scanning" =>
                     matching \cap {id \in Cancels : id.form \in {"standard", "none"}} = {}
                /\ stage' = "discarded" /\ matching = {} =>
                     ~validateTempPath(upload.path, Prefix)
  <2> DEFINE own == NormalizeUUID(upload.caseId)
  <2>1. HandleScanMessage
    BY <1>1 DEF Next, vars, HandleCancelMessage, handleScanFailure, publishScanCompleted
  <2>2. /\ upload.caseId \in Ids /\ cancelled \subseteq Ids
        /\ NormalizeUUID(msg.caseId) = own /\ msg.path = upload.path
        /\ msg \in Arrivals
    BY <1>1, UploadFields, MessagesAssumption DEF DataInv, TypeOK, Identified
  <2>3. msg'.caseId = own
    BY <2>1, <2>2 DEF HandleScanMessage, Arrivals
  <2>4. ASSUME NEW id \in cancelled, SameId(id, upload.caseId),
               id.form \in {"standard", "none"}
        PROVE  id = own
    BY <2>2, <2>4, StandardIsNormal
  <2>5. SameId(own, upload.caseId)
    BY <2>2, NormalizeSpells
  <2>6. stage' = "scanning" => own \notin cancelled
    BY <2>1, <2>3 DEF HandleScanMessage
  <2>7. stage' = "discarded" =>
          own \in cancelled \/ ~validateTempPath(upload.path, Prefix)
    BY <2>1, <2>2, <2>3 DEF HandleScanMessage
  <2> QED
    BY <2>4, <2>5, <2>6, <2>7
<1>2. DataInv /\ [Next]_vars =>
        [stage = "queued" /\ stage' # "queued" =>
           LET matching == {id \in cancelled : SameId(id, upload.caseId)}
           IN /\ stage' = "scanning" =>
                   matching \cap {id \in Cancels : id.form \in {"standard", "none"}} = {}
              /\ stage' = "discarded" /\ matching = {} =>
                   ~validateTempPath(upload.path, Prefix)]_vars
  BY <1>1
<1> QED
  BY <1>2, DataInvariant, PTL DEF Spec, CancellationMatches

\* Exactly the files whose path leads below the prefix are scanned, for any path
\* and any prefix: the lexical check of the cleaned path and a count of the names
\* that no later ".." takes back agree.
THEOREM ScannedInsidePrefixHolds == Spec => []ScannedInsidePrefix
<1>1. Init => Guarded
  BY DEF Init, Guarded
<1>2. ASSUME DataInv, Guarded PROVE ScannedInsidePrefix
  <2>1. upload.path.parts \in Seq(STRING)
    BY <1>2, UploadFields DEF DataInv, TypeOK, Paths
  <2>2. IsPrefix(Prefix, Clean(upload.path.parts)) <=>
          LeadsInto(Prefix, upload.path.parts)
    BY <2>1, PrefixMeansInside, MessagesAssumption
  <2> QED
    BY <1>2, <2>2 DEF Guarded, ScannedInsidePrefix, validateTempPath
<1> QED
  BY <1>1, <1>2, GuardedStep, DataInvariant, PTL DEF Spec
=============================================================================
