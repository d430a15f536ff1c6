---------------------------- MODULE MCClamdStream ----------------------------
(***************************************************************************)
(* A small instance of ClamdStream: files of up to three chunks, and a     *)
(* signature that needs two of them in a row, so that a truncated stream   *)
(* looks clean.                                                            *)
(***************************************************************************)
EXTENDS ClamdStream, SequencesExt

SmallFiles == BoundedSeq(Chunks, 3)
WithSignature == {s \in SmallFiles : \E i \in 1 .. Len(s) - 1 :
                    s[i] = "x" /\ s[i + 1] = "y"}
=============================================================================
