----------------------------- MODULE MCMessages -----------------------------
(***************************************************************************)
(* The instance of Messages for TLC.  The uploads vary one field at a time *)
(* around an ordinary message.                                             *)
(***************************************************************************)
EXTENDS Messages

Id(id, form) == [id |-> id, form |-> form]

Path(absolute, parts, control) ==
  [absolute |-> absolute, parts |-> parts, control |-> control]

NoHeader == [type |-> "none", twice |-> 0]

Field(key, value) == [key |-> key, value |-> value]

Ordinary ==
  [caseId |-> Id(1, "standard"), path |-> Path(TRUE, <<"tmp", "a">>, FALSE),
   header |-> NoHeader,
   file |-> [detected |-> Type("text", "plain"), claimed |-> NoType, ext |-> "txt"],
   result |-> Object(<<Field(2, Scalar("plain")), Field(1, Scalar("<"))>>)]

\* Parts of paths: the prefix's name, another one, and what Clean removes.
Parts == {"tmp", "a", "..", ".", ""}

Types ==
  {NoType, Type("application", "zip"), Type("application", "x-zip-compressed"),
   Type("application", "docx"), Type("image", "jpeg"), Type("image", "jpg"),
   [Type("image", "jpeg") EXCEPT !.dressed = TRUE],
   [NoType EXCEPT !.dressed = TRUE]}

SmallFiles ==
  [detected : Types, claimed : Types, ext : {"none", "zip", "doc", "jpeg"}]

Scalars == {Scalar(t) : t \in {"plain", "<", "null"}}

SmallResults ==
  {Object(<<Field(2, v), Field(1, w)>>) :
     v \in Scalars,
     w \in Scalars \cup
           {Object(<<Field(2, x), Field(1, y)>>) : x \in Scalars, y \in Scalars}}

SmallUploads ==
  {[Ordinary EXCEPT !.caseId = Id(n, f)] : n \in {1, 2}, f \in Forms}
    \cup {[Ordinary EXCEPT !.caseId = Id(3, "none")]}
    \cup {[Ordinary EXCEPT !.path = Path(TRUE, p, FALSE)] :
            p \in UNION {[1 .. n -> Parts] : n \in 0 .. 5}}
    \cup {[Ordinary EXCEPT !.path = Path(a, <<"tmp", "a">>, c)] :
            a \in BOOLEAN, c \in BOOLEAN}
    \cup {[Ordinary EXCEPT !.header = [type |-> t, twice |-> 2 * n]] :
            t \in {"int", "int32", "int64"}, n \in MinInt .. MaxInt}
    \cup {[Ordinary EXCEPT !.header = [type |-> t, twice |-> n]] :
            t \in {"float64", "string"}, n \in 2 * MinInt - 3 .. 2 * MaxInt + 4}
    \cup {[Ordinary EXCEPT !.file = f] : f \in SmallFiles}
    \cup {[Ordinary EXCEPT !.result = r] : r \in SmallResults}

SmallCancels == {Id(1, "standard"), Id(2, "upper"), Id(3, "none")}

SmallPrefix == <<"tmp">>
=============================================================================
