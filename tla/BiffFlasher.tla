----------------------------- MODULE BiffFlasher -----------------------------
(***************************************************************************)
(* What an upload tool promises of the board it flashes: the chunks of the *)
(* image are stored one after the other, nothing else is ever stored, and  *)
(* the tool reports success, and lets the board boot, only when all of     *)
(* them are there.                                                         *)
(***************************************************************************)
EXTENDS Naturals, Sequences

VARIABLES
  target,   \* the chunks to be stored
  stored,   \* the chunks on the board
  booted,   \* the board has been let go
  status    \* "busy", "ok" or "failed": what the tool has reported

vars == <<target, stored, booted, status>>

Init ==
  /\ stored = <<>>
  /\ booted = FALSE
  /\ status = "busy"

\* A chunk reaches the board; the tool may have given up on it already.
Store ==
  /\ Len(stored) < Len(target) /\ ~booted
  /\ status # "ok"
  /\ stored' = Append(stored, target[Len(stored) + 1])
  /\ UNCHANGED <<target, booted, status>>

Boot ==
  /\ stored = target /\ ~booted
  /\ booted' = TRUE
  /\ UNCHANGED <<target, stored, status>>

Succeed ==
  /\ status = "busy" /\ stored = target
  /\ status' = "ok"
  /\ UNCHANGED <<target, stored, booted>>

GiveUp ==
  /\ status = "busy"
  /\ status' = "failed"
  /\ UNCHANGED <<target, stored, booted>>

Next == Store \/ Boot \/ Succeed \/ GiveUp

SafeSpec == Init /\ [][Next]_vars

\* Every upload ends with a report.
Spec == SafeSpec /\ <>(status # "busy")
=============================================================================
