---------------------------- MODULE AbstractPass ----------------------------
(***************************************************************************)
(* What a pass promises to the rest of the system, whatever its goroutines *)
(* do: it learns pages of desired apps until the Cloud Controller says     *)
(* that was all; only from then on does it write, crash counts before      *)
(* starts before stops; and it ends in one of two ways.  Either all three  *)
(* writes were made and the messages are sent, or some write was not made  *)
(* and nothing is sent nor written after that.  AnalyzePass implements it. *)
(***************************************************************************)
EXTENDS Naturals

CONSTANT MaxPages

VARIABLES
  pages,          \* pages learned
  complete,       \* there are no more
  written,        \* the writes made
  outcome         \* how the pass has ended

vars == <<pages, complete, written, outcome>>

Write == {"crashes", "starts", "stops"}

(* The writes that must have been made before one is.                      *)
Before == [crashes |-> {}, starts |-> {"crashes"}, stops |-> {"crashes", "starts"}]

Init ==
  /\ pages = 0
  /\ complete = FALSE
  /\ written = {}
  /\ outcome = "none"

(* The fetch may go on after the pass has been given up.                   *)
LearnPage ==
  /\ ~complete
  /\ pages < MaxPages
  /\ pages' = pages + 1
  /\ UNCHANGED <<complete, written, outcome>>

LearnEnd ==
  /\ ~complete
  /\ complete' = TRUE
  /\ UNCHANGED <<pages, written, outcome>>

MakeWrite(write) ==
  /\ complete
  /\ outcome = "none"
  /\ written = Before[write]
  /\ written' = written \cup {write}
  /\ UNCHANGED <<pages, complete, outcome>>

Send ==
  /\ outcome = "none"
  /\ written = Write
  /\ outcome' = "sent"
  /\ UNCHANGED <<pages, complete, written>>

Abort ==
  /\ outcome = "none"
  /\ written # Write
  /\ outcome' = "aborted"
  /\ UNCHANGED <<pages, complete, written>>

Next ==
  \/ LearnPage \/ LearnEnd
  \/ \E write \in Write : MakeWrite(write)
  \/ Send \/ Abort

Safety == Init /\ [][Next]_vars

(* A pass ends; which way is not promised.                                 *)
Spec == Safety /\ WF_vars(Send \/ Abort)
=============================================================================
