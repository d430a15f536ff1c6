------------------------------ MODULE ScanCall ------------------------------
(***************************************************************************)
(* What one call to clamd promises its caller: it ends, either with a      *)
(* verdict that is true of the whole content of the file, or without one.  *)
(* runScan relies on exactly this (src/pkg/scanner/scanner.go, 614-634),   *)
(* and the step ScanStream of ScanPipeline has it built in.  ClamdStream   *)
(* implements it.                                                          *)
(***************************************************************************)
CONSTANTS
  Contents,  \* what a file may hold
  Infected   \* the contents that clamd's database recognises

VARIABLES
  content,   \* what this file holds
  call       \* how the call ended, if it has

vars == <<content, call>>

Init == content \in Contents /\ call = "pending"

\* The caller gets a verdict.
Verdict ==
  /\ call = "pending"
  /\ call' = IF content \in Infected THEN "infected" ELSE "clean"
  /\ UNCHANGED content

\* The caller gets an error, or the call asked for no verdict.
NoVerdict ==
  /\ call = "pending"
  /\ call' = "none"
  /\ UNCHANGED content

Next == Verdict \/ NoVerdict

Safety == Init /\ [][Next]_vars

Spec == Safety /\ WF_vars(Next)
=============================================================================
