--------------------------- MODULE LedPulseWorker ---------------------------
(***************************************************************************)
(* The thread that blinks the walk instrument's LED                        *)
(* (packet_predator/nrf905_walk.py, LedPulseWorker).                       *)
(*                                                                         *)
(* Every block under the worker's condition is one step; the LED is driven *)
(* between two of them.  A thread in wait_for is asleep until it is        *)
(* notified: it does not see a flag that was set without a notification.   *)
(* The count of coalesced requests is left out: nothing is decided by it.  *)
(***************************************************************************)

VARIABLE led

(* checks: about to evaluate the predicate of wait_for.                    *)
ThreadStates == {"checks", "asleep", "pulsing", "failing", "ended"}

Workers ==
  [pending : BOOLEAN, active : BOOLEAN, closing : BOOLEAN,
   failed : BOOLEAN, thread : ThreadStates]

NewWorker ==
  [pending |-> FALSE, active |-> FALSE, closing |-> FALSE,
   failed |-> FALSE, thread |-> "checks"]

(* There is no worker outside a burst. *)
NoWorker == [NewWorker EXCEPT !.closing = TRUE, !.thread = "ended"]

Notified(w) == IF w.thread = "asleep" THEN [w EXCEPT !.thread = "checks"] ELSE w

-----------------------------------------------------------------------------
(* Calls of the radio loop. *)

PulseRaises == led.failed \/ led.closing

(* The state after pulse(), which merges a request into one that waits.    *)
Pulsed == IF led.pending THEN led ELSE Notified([led EXCEPT !.pending = TRUE])

(* Mutant: the thread is not notified. *)
MutantClosing == [led EXCEPT !.closing = TRUE, !.pending = FALSE]

(* close() up to its join: a waiting request is discarded.                 *)
Closing == Notified([led EXCEPT !.closing = TRUE, !.pending = FALSE])

-----------------------------------------------------------------------------
(* The thread. *)

FallAsleep ==
  /\ led.thread = "checks"
  /\ ~led.pending /\ ~led.closing
  /\ led' = [led EXCEPT !.thread = "asleep"]

ThreadEnds ==
  /\ led.thread = "checks"
  /\ led.closing
  /\ led' = [led EXCEPT !.thread = "ended"]

(* Mutant: woken up to close, the thread does not look at the flag. *)
MutantStartPulse ==
  /\ led.thread = "checks"
  /\ led.pending \/ led.closing
  /\ led' = [led EXCEPT !.pending = FALSE, !.active = TRUE, !.thread = "pulsing"]

StartPulse ==
  /\ led.thread = "checks"
  /\ led.pending /\ ~led.closing
  /\ led' = [led EXCEPT !.pending = FALSE, !.active = TRUE, !.thread = "pulsing"]

FinishPulse ==
  /\ led.thread = "pulsing"
  /\ led' = [led EXCEPT !.active = FALSE, !.thread = "checks"]

(* A write to the LED raises; the thread records it before it ends.        *)
PulseFails ==
  /\ led.thread = "pulsing"
  /\ led' = [led EXCEPT !.failed = TRUE, !.pending = FALSE, !.closing = TRUE,
                        !.thread = "failing"]

EndFailed ==
  /\ led.thread = "failing"
  /\ led' = [led EXCEPT !.active = FALSE, !.thread = "ended"]

LedThread == FallAsleep \/ ThreadEnds \/ StartPulse \/ FinishPulse \/ EndFailed

=============================================================================
