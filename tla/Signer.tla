------------------------------- MODULE Signer -------------------------------
(***************************************************************************)
(* Signing and verifying a message (src/pkg/hmac/signer.go) and the bytes  *)
(* that travel (publishToExchange in src/pkg/scanner/scanner.go).          *)
(*                                                                         *)
(* A text of JSON is a scalar or an object, an object the sequence of its  *)
(* fields; the messages nest objects one deep.  A key is a number, in the  *)
(* order of the strings.  "<" is a scalar with a character that            *)
(* encoding/json escapes, "\u003c" the same one escaped, "null" is null    *)
(* and "plain" any other text, arrays included.                            *)
(***************************************************************************)
EXTENDS Naturals, Sequences

Scalar(text) == [kind |-> "scalar", text |-> text, fields |-> <<>>]
Object(fields) == [kind |-> "object", text |-> "", fields |-> fields]

\* The objects with values in V: no two fields of one have the same key, as the
\* fields of a struct and the entries of a map.
Objects(V) ==
  {v \in [kind : {"object"}, text : {""}, fields : Seq([key : Nat, value : V])] :
     \A i, j \in DOMAIN v.fields : v.fields[i].key = v.fields[j].key => i = j}

\* The texts by depth: a scalar or {}, an object of those, a message.
Leaves ==
  {Scalar(t) : t \in {"plain", "<", "\\u003c", "null"}} \cup {Object(<<>>)}
Members == Leaves \cup Objects(Leaves)
Payloads == Objects(Members)

\* F of every field's value.
EachField(F(_), v) ==
  [v EXCEPT !.fields =
     [i \in DOMAIN v.fields |->
        [key |-> v.fields[i].key, value |-> F(v.fields[i].value)]]]

EscapedScalar(v) == [v EXCEPT !.text = IF @ = "<" THEN "\\u003c" ELSE @]

\* json.Marshal, of a RawMessage too: special characters come out escaped.
Marshal(v) ==
  EachField(LAMBDA u : EachField(EscapedScalar, EscapedScalar(u)), EscapedScalar(v))

\* The entries of a map laid out in the order of their keys.
ByKey(positions, entries) ==
  CHOOSE q \in [positions -> entries] :
    /\ {q[i] : i \in positions} = entries
    /\ \A i, j \in positions : i < j => q[i].key < q[j].key

\* What sort.Strings makes of the fields of an object.
InKeyOrder(fields) == ByKey(DOMAIN fields, {fields[i] : i \in DOMAIN fields})

\* An object with its keys in order.  A null unmarshals into a map without an
\* error, and comes out as {}; any other scalar stays as it is.
SortedKeys(v) ==
  IF v = Scalar("null") THEN Object(<<>>)
  ELSE [v EXCEPT !.fields = InKeyOrder(@)]

marshalSorted(v) ==
  LET Nested(u) == SortedKeys(EachField(SortedKeys, u))
  IN SortedKeys(EachField(Nested, v))

canonicalJSON_Unescaped(v) == marshalSorted(v)

canonicalJSON(v) == marshalSorted(Marshal(v))

\* HMAC-SHA256: no two pairs have the same value.
Mac(key, bytes) == <<key, bytes>>

Sign(key, v) ==
  LET canonical == canonicalJSON(v)
  IN [payload |-> canonical,
      sig |-> [alg |-> "HMAC-SHA256", value |-> Mac(key, canonical)]]

Verify(key, env) ==
  /\ env.sig.alg = "HMAC-SHA256"
  /\ env.sig.value = Mac(key, env.payload)

\* The envelope as it is sent.
Sent(env) == [env EXCEPT !.payload = Marshal(@)]

=============================================================================
