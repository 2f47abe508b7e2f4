----------------------------- MODULE CaptureLog -----------------------------
(***************************************************************************)
(* What the physical capture path promises to a reader of the workbench    *)
(* model: received frames are published one at a time, in the order they   *)
(* were captured, none twice and none skipped, for as long as the receiver *)
(* is working.  Once it has ended, after a stop or a fault, the log is     *)
(* final.                                                                  *)
(***************************************************************************)
EXTENDS Naturals, Sequences

CONSTANT Frames

VARIABLES
  taken,     \* frames captured, in order
  logged,    \* frames published, in order
  working    \* the receiver has not ended

logVars == <<taken, logged, working>>

LogInit == taken = <<>> /\ logged = <<>> /\ working = TRUE

Take ==
  /\ working
  /\ Len(taken') = Len(taken) + 1
  /\ SubSeq(taken', 1, Len(taken)) = taken
  /\ taken'[Len(taken')] \in Frames
  /\ UNCHANGED <<logged, working>>

Log ==
  /\ working
  /\ Len(logged) < Len(taken)
  /\ logged' = Append(logged, taken[Len(logged) + 1])
  /\ UNCHANGED <<taken, working>>

End == working /\ working' = FALSE /\ UNCHANGED <<taken, logged>>

LogNext == Take \/ Log \/ End

LogSafety == LogInit /\ [][LogNext]_logVars

(* While the receiver works, what was captured is published in the end.    *)
LogSpec == LogSafety /\ WF_logVars(Log)

=============================================================================
