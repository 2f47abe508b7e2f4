---------------------------- MODULE MCReplayPage ----------------------------
(* Two recordings: one whose frames are apart, the first of them before    *)
(* the recording begins, with time left after the last one; and one whose  *)
(* two frames are due at the same moment.                                  *)
EXTENDS ReplayPage

CONSTANTS spaced, together

MCAt == [r \in Recordings |-> IF r = spaced THEN <<-4, 4>> ELSE <<2, 2>>]
MCDuration == [r \in Recordings |-> IF r = spaced THEN 6 ELSE 2]

=============================================================================
