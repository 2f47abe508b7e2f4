------------------------------ MODULE WalkTest ------------------------------
(***************************************************************************)
(* The range walk: a base station that beacons and counts, a carried node  *)
(* that runs bursts, and the commands that start and stop them             *)
(* (packet_predator/nrf905_walk.py and nrf905_diagnostics.py).             *)
(*                                                                         *)
(* The two processes share only the air.  Any frame may be lost, and one   *)
(* that is not read before the node's own next transmission is lost too:   *)
(* re-entering receive mode clears it (module Nrf905Device).  Deadlines    *)
(* pass at any time.  Sequence numbers and the count in a beacon are taken *)
(* modulo Modulus, which is 2^16 in the code.                              *)
(*                                                                         *)
(* The fields "beacon" and "total" of a frame, and the variables heard,    *)
(* counted and sampled, are not in the code: they say what really          *)
(* happened, for the properties to compare with what is reported.          *)
(***************************************************************************)
EXTENDS Integers, FiniteSets, FiniteSetsExt, LedPulseWorker

CONSTANTS
  Modulus,      \* values of a 16-bit field
  Slots,        \* beacons in one burst (--slots)
  MaxBursts,    \* bound: bursts of a continuous walk
  MaxBeacons,   \* bound: intervals of the base station
  MaxFaults     \* bound: LED, radio and carrier-sense failures and frames
                \* of other stations, together

ASSUME WalkAssumption ==
  /\ Modulus \in Nat /\ Modulus > 1
  /\ Slots \in Nat /\ MaxBursts \in Nat /\ MaxBeacons \in Nat /\ MaxFaults \in Nat
  /\ 2 * MaxBeacons <= Modulus    \* a burst is shorter than half the circle

VARIABLES
  carried,    \* the command walk-carried
  burst,      \* the local variables of run_carried_burst
  fixed,      \* the command walk-fixed and its loop
  fifo,       \* the frame in each node's receive FIFO
  faults,     \* faults so far
  heard,      \* numbers of the base station's beacons heard in this burst
  counted,    \* this burst's beacons the base station has counted
  sampled     \* the totals in the first and the last beacon of this burst

vars == <<led, carried, burst, fixed, fifo, faults, heard, counted, sampled>>

-----------------------------------------------------------------------------
(* Frames.  Anything that does not decode as a beacon is "other".          *)

Beacon == [role : {"fixed"}, sequence : 0..Modulus - 1, count : 0..Modulus - 1,
           beacon : Nat, total : Nat]
CarriedBeacon == [role : {"carried"}, burst : Nat]
NoFrame == [role |-> "none"]
OtherFrame == [role |-> "other"]
Frames == Beacon \cup CarriedBeacon \cup {NoFrame, OtherFrame}

NoCount == -1

(* A frame sent by one node reaches the other's FIFO or is lost; the       *)
(* sender's own FIFO is cleared.                                           *)
SentTo(to, from, frame, delivered) ==
  [fifo EXCEPT ![from] = NoFrame, ![to] = IF delivered THEN frame ELSE @]

(* How device.transmit ends: it returns, or it raises before it switched   *)
(* the radio or after it, when the frame may or may not be on the air.     *)
TransmitEnds == {"sent", "early", "late"}

Transmits(end, delivered, to, from, frame) ==
  /\ fifo' = IF end = "early" THEN fifo ELSE SentTo(to, from, frame, delivered)
  /\ end # "sent" => faults < MaxFaults
  /\ end = "early" => ~delivered
  /\ faults' = IF end = "sent" THEN faults ELSE faults + 1

-----------------------------------------------------------------------------
(* Statistics over the 16-bit sequence numbers seen. *)

(* The numbers missing between s and the next one seen, around the circle. *)
StepTo(S, s) == Min({d \in 1..Modulus : (s + d) % Modulus \in S})
GapAfter(S, s) == StepTo(S, s) - 1
SuccessorOf(S, s) == (s + StepTo(S, s)) % Modulus

(* Mutant: the numbers are taken to lie on a line. *)
MutantCut(S) == Max(S)

(* Where the circle is cut: the largest gap, of equal ones that with the   *)
(* earliest number after it.                                               *)
Cut(S) == CHOOSE s \in S : \A t \in S :
  \/ GapAfter(S, t) < GapAfter(S, s)
  \/ GapAfter(S, t) = GapAfter(S, s) /\ SuccessorOf(S, s) <= SuccessorOf(S, t)

DistinctGapStats(S) ==
  IF S = {} THEN [received |-> 0, longest |-> 0, span |-> 0]
  ELSE LET cut == Cut(S) IN
    [received |-> Cardinality(S),
     longest |-> Max({0} \cup {GapAfter(S, s) : s \in S \ {cut}}),
     span |-> Modulus - GapAfter(S, cut)]

(* Mutant: the difference is not taken modulo 2^16. *)
MutantDelivered(c) == IF c.first = NoCount THEN 0 ELSE c.last - c.first

Delivered(c) ==
  IF c.first = NoCount THEN 0 ELSE (c.last - c.first) % Modulus

PercentOf(part, whole) ==
  IF whole <= 0 THEN 0
  ELSE Max({0, Min({(part * 100 + whole \div 2) \div whole, 100})})

(* BurstResult.uplink_loss_percent *)
UplinkLossPercent(c) ==
  LET sent == c.slot - c.void
      delivered == Max({0, Min({Delivered(c), sent})})
  IN IF sent <= 0 \/ c.sequences = {} THEN 0 ELSE PercentOf(sent - delivered, sent)

Trustworthy(c) == c.slot # 0 /\ c.void * 4 < c.slot /\ c.samples > 0

-----------------------------------------------------------------------------
(* Initially both commands are started.  The base station may have been    *)
(* running for long: its counters are anywhere on their circle.            *)

NewBurst ==
  [slot |-> 0, void |-> 0, samples |-> 0, sequences |-> {},
   first |-> NoCount, last |-> NoCount]

Init ==
  /\ \E continuous \in BOOLEAN :
       carried = [pc |-> "start", continuous |-> continuous, stop |-> FALSE,
                  bursts |-> 0, open |-> FALSE, error |-> FALSE]
  /\ \E start \in {0, Modulus - 1} :
       fixed = [pc |-> "start", open |-> FALSE, iterations |-> 0,
                void |-> 0, sequence |-> start, beacons |-> start, received |-> start]
  /\ burst = NewBurst
  /\ led = NoWorker
  /\ fifo = [n \in {"carried", "fixed"} |-> NoFrame]
  /\ faults = 0
  /\ heard = {}
  /\ counted = 0
  /\ sampled = <<0, 0>>

-----------------------------------------------------------------------------
(* The carried node. *)

Goes(pc) == carried' = [carried EXCEPT !.pc = pc]
Fails(pc) == carried' = [carried EXCEPT !.pc = pc, !.error = TRUE]
Fault == faults < MaxFaults /\ faults' = faults + 1

airVars == <<fixed, fifo>>
truthVars == <<heard, counted, sampled>>
burstVars == <<led, burst, truthVars>>

(* Profile, radio and LED are opened; what fails ends the command.  The    *)
(* base station was started before.                                        *)
OpenCarried ==
  /\ carried.pc = "start" /\ fixed.pc # "start"
  /\ \/ /\ carried' = [carried EXCEPT !.pc = "loop", !.open = TRUE]
        /\ UNCHANGED faults
     \/ /\ Fault      \* no such LED, or it cannot be prepared
        /\ carried' = [carried EXCEPT !.pc = "leave", !.open = TRUE, !.error = TRUE]
     \/ /\ Fault      \* the radio: its backends are closed again
        /\ Fails("exited")
  /\ UNCHANGED <<burstVars, airVars>>

(* The stop event is looked at between bursts only. *)
StartBurst ==
  /\ carried.pc = "loop"
  /\ ~carried.stop /\ carried.bursts < MaxBursts
  /\ Goes("burst")
  /\ led' = NewWorker
  /\ burst' = NewBurst
  /\ heard' = {}
  /\ counted' = 0
  /\ sampled' = <<0, 0>>
  /\ UNCHANGED <<airVars, faults>>

StopLoop ==
  /\ carried.pc = "loop"
  /\ carried.stop
  /\ Goes("leave")
  /\ UNCHANGED <<burstVars, airVars, faults>>

(* The deadline of the slot before has passed, if there was one: transmit, *)
(* then read carrier detect, which may fail as well.                       *)
CarriedSlot ==
  /\ carried.pc = "burst"
  /\ burst.slot < Slots
  /\ \E end \in TransmitEnds, delivered, carrierRead \in BOOLEAN :
       /\ Transmits(end, delivered, "fixed", "carried",
                    [role |-> "carried", burst |-> carried.bursts])
       /\ carrierRead \/ faults < MaxFaults
       /\ burst' = [burst EXCEPT !.slot = @ + 1,
                                 !.void = IF end = "sent" THEN @ ELSE @ + 1,
                                 !.samples = IF carrierRead THEN @ + 1 ELSE @]
  /\ UNCHANGED <<led, carried, fixed, truthVars>>

(* A frame is read in the rest of the slot.  Only a beacon of the base     *)
(* station counts; pulse() is called before it does, and raises what the   *)
(* LED's thread recorded.  Whatever raises, feedback.close() runs next.    *)
CarriedHears ==
  LET frame == fifo["carried"] IN
  /\ carried.pc = "burst" /\ burst.slot > 0
  /\ frame # NoFrame
  /\ fifo' = [fifo EXCEPT !["carried"] = NoFrame]
  /\ \/ /\ frame.role # "fixed"
        /\ UNCHANGED <<carried, burstVars>>
     \/ /\ frame.role = "fixed" /\ PulseRaises
        /\ Fails("join")
        /\ led' = Closing
        /\ UNCHANGED <<burst, truthVars>>
     \/ /\ frame.role = "fixed" /\ ~PulseRaises
        /\ led' = Pulsed
        /\ burst' = [burst EXCEPT !.sequences = @ \cup {frame.sequence},
                                  !.first = IF @ = NoCount THEN frame.count ELSE @,
                                  !.last = frame.count]
        /\ heard' = heard \cup {frame.beacon}
        /\ sampled' = <<IF burst.first = NoCount THEN frame.total ELSE sampled[1],
                        frame.total>>
        /\ UNCHANGED <<carried, counted>>
  /\ UNCHANGED <<fixed, faults>>

(* wait_data_ready or receive raises: nothing in the burst catches it.     *)
ListenRaises ==
  /\ carried.pc = "burst" /\ burst.slot > 0
  /\ Fault
  /\ Fails("join")
  /\ led' = Closing
  /\ UNCHANGED <<burst, truthVars, airVars>>

LastSlotEnds ==
  /\ carried.pc = "burst"
  /\ burst.slot = Slots
  /\ Goes("join")
  /\ led' = Closing
  /\ UNCHANGED <<burst, truthVars, airVars, faults>>

(* Mutant: close() does not raise what the thread recorded. *)
MutantJoinFeedback ==
  /\ carried.pc = "join"
  /\ led.thread = "ended"
  /\ IF carried.error THEN Fails("leave") ELSE Goes("report")
  /\ UNCHANGED <<burstVars, airVars, faults>>

(* The LED's thread has ended: its error is raised, else the burst returns *)
(* its result, unless it is being left by an exception.                    *)
JoinFeedback ==
  /\ carried.pc = "join"
  /\ led.thread = "ended"
  /\ IF led.failed \/ carried.error THEN Fails("leave") ELSE Goes("report")
  /\ UNCHANGED <<burstVars, airVars, faults>>

(* The result is printed and kept in a file, which may fail; a continuous  *)
(* walk goes on with the next station.                                     *)
Report ==
  /\ carried.pc = "report"
  /\ \/ /\ carried' = [carried EXCEPT !.bursts = @ + 1,
                          !.error = ~carried.continuous /\ ~Trustworthy(burst),
                          !.pc = IF carried.continuous THEN "loop" ELSE "leave"]
        /\ UNCHANGED faults
     \/ Fault /\ Fails("leave")
  /\ UNCHANGED <<burstVars, airVars>>

(* device.close() in the command's finally block. *)
LeaveCarried ==
  /\ carried.pc = "leave"
  /\ carried' = [carried EXCEPT !.pc = "exited", !.open = FALSE]
  /\ UNCHANGED <<burstVars, airVars, faults>>

(* Ctrl-C: a continuous walk notes it, a single burst is interrupted.      *)
StopCarried ==
  /\ carried.continuous /\ ~carried.stop
  /\ carried.pc \notin {"start", "leave", "exited"}
  /\ carried' = [carried EXCEPT !.stop = TRUE]
  /\ UNCHANGED <<burstVars, airVars, faults>>

InterruptBurst ==
  /\ ~carried.continuous /\ ~carried.stop
  /\ \/ /\ carried.pc = "burst"
        /\ carried' = [carried EXCEPT !.pc = "join", !.stop = TRUE, !.error = TRUE]
        /\ led' = Closing
     \/ /\ carried.pc = "join"
        /\ carried' = [carried EXCEPT !.pc = "leave", !.stop = TRUE, !.error = TRUE]
        /\ UNCHANGED led
  /\ UNCHANGED <<burst, truthVars, airVars, faults>>

-----------------------------------------------------------------------------
(* The base station. *)

fixedOnly == <<led, carried, burst, heard, sampled>>

(* A profile that forbids transmission is refused before the radio opens. *)
OpenFixed ==
  /\ fixed.pc = "start"
  /\ \/ /\ fixed' = [fixed EXCEPT !.pc = "loop", !.open = TRUE]
        /\ UNCHANGED faults
     \/ /\ Fault
        /\ fixed' = [fixed EXCEPT !.pc = "exited"]
  /\ UNCHANGED <<fixedOnly, counted, fifo>>

(* One interval begins, the one before it is over: a beacon with the       *)
(* running total; the loop goes on whatever becomes of it.                 *)
FixedSlot ==
  /\ fixed.pc = "loop"
  /\ fixed.iterations < MaxBeacons
  /\ \E end \in TransmitEnds, delivered \in BOOLEAN :
       /\ Transmits(end, delivered, "carried", "fixed",
                    [role |-> "fixed", sequence |-> fixed.sequence,
                     count |-> fixed.received % Modulus,
                     beacon |-> fixed.beacons, total |-> fixed.received])
       /\ fixed' = IF end = "sent"
                   THEN [fixed EXCEPT !.iterations = @ + 1, !.beacons = @ + 1,
                                      !.sequence = (@ + 1) % Modulus]
                   ELSE [fixed EXCEPT !.iterations = @ + 1, !.void = @ + 1]
  /\ UNCHANGED <<fixedOnly, counted>>

(* Every beacon of a carried node is counted once, whatever its sequence.  *)
FixedHears ==
  LET frame == fifo["fixed"] IN
  /\ fixed.pc = "loop" /\ fixed.iterations > 0
  /\ frame # NoFrame
  /\ fifo' = [fifo EXCEPT !["fixed"] = NoFrame]
  /\ IF frame.role = "carried"
     THEN /\ fixed' = [fixed EXCEPT !.received = @ + 1]
          /\ counted' = IF frame.burst = carried.bursts THEN counted + 1 ELSE counted
     ELSE UNCHANGED <<fixed, counted>>
  /\ UNCHANGED <<fixedOnly, faults>>

(* The loop ends after Ctrl-C, or because waiting or reading raises; the   *)
(* command closes the radio.                                               *)
LeaveFixed ==
  /\ fixed.pc = "loop"
  /\ \/ UNCHANGED faults
     \/ fixed.iterations > 0 /\ Fault
  /\ fixed' = [fixed EXCEPT !.pc = "exited", !.open = FALSE]
  /\ UNCHANGED <<fixedOnly, counted, fifo>>

-----------------------------------------------------------------------------
(* Another station's frame on the shared address and channel. *)
OtherTraffic ==
  /\ \E n \in {"carried", "fixed"} :
       /\ fifo[n] = NoFrame
       /\ fifo' = [fifo EXCEPT ![n] = OtherFrame]
  /\ Fault
  /\ UNCHANGED <<led, carried, burst, fixed, truthVars>>

LedWorks ==
  /\ \/ LedThread /\ UNCHANGED faults
     \/ PulseFails /\ Fault
  /\ UNCHANGED <<carried, burst, fixed, fifo, truthVars>>

CarriedStep ==
  \/ OpenCarried \/ StartBurst \/ StopLoop \/ CarriedSlot \/ LastSlotEnds
  \/ JoinFeedback \/ Report \/ LeaveCarried

Next ==
  \/ CarriedStep \/ CarriedHears \/ ListenRaises \/ StopCarried \/ InterruptBurst
  \/ OpenFixed \/ FixedSlot \/ FixedHears \/ LeaveFixed
  \/ OtherTraffic
  \/ LedWorks

Spec == Init /\ [][Next]_vars

(* Both threads of the carried node run, and time passes: a deadline comes *)
(* whatever is heard before it.  The LED need not fail, nobody need stop.  *)
FairSpec == Spec /\ WF_vars(CarriedStep) /\ WF_vars(LedWorks)

-----------------------------------------------------------------------------
(* Properties. *)

(* The types of the variables and the ranges of a burst's counters; no run *)
(* checks them.                                                            *)
TypeOK ==
  /\ led \in Workers
  /\ carried \in [pc : {"start", "loop", "burst", "join", "report", "leave", "exited"},
                  continuous : BOOLEAN, stop : BOOLEAN, bursts : 0..MaxBursts,
                  open : BOOLEAN, error : BOOLEAN]
  /\ burst \in [slot : 0..Slots, void : 0..Slots, samples : 0..Slots,
                sequences : SUBSET (0..Modulus - 1),
                first : NoCount..Modulus - 1, last : NoCount..Modulus - 1]
  /\ fixed \in [pc : {"start", "loop", "exited"}, open : BOOLEAN,
                iterations : 0..MaxBeacons, void : 0..MaxBeacons,
                sequence : 0..Modulus - 1, beacons : Nat, received : Nat]
  /\ fifo \in [{"carried", "fixed"} -> Frames]
  /\ faults \in 0..MaxFaults
  /\ heard \in SUBSET Nat
  /\ counted \in Nat
  /\ sampled \in Nat \X Nat

(* The number of beacons between the first and the last one heard, and the *)
(* longest run of them that was missed, are those of the beacons the base  *)
(* station really sent, wherever its 16-bit sequence numbers wrap, whatever*)
(* was lost and whichever transmission failed (_distinct_gap_stats).       *)
LongestMiss == Max({0} \cup
  {n \in 1..MaxBeacons : \E b \in heard :
     b + n + 1 \in heard /\ \A i \in 1..n : b + i \notin heard})

WindowIsTrue ==
  LET stats == DistinctGapStats(burst.sequences) IN
  heard # {} =>
    /\ stats.received = Cardinality(heard)
    /\ stats.span = Max(heard) - Min(heard) + 1
    /\ stats.longest = LongestMiss

(* The uplink figure a burst reports is the growth of the base station's   *)
(* unbounded total between the first and the last beacon heard, although   *)
(* the beacon carries it modulo 2^16; it never claims more beacons than the*)
(* base station counted of this burst, and the loss it reports is never    *)
(* smaller than that of the beacons counted (run_carried_burst).           *)
UplinkIsCounted ==
  carried.pc = "report" =>
    /\ Delivered(burst) = sampled[2] - sampled[1]
    /\ Delivered(burst) <= counted
    /\ LET sent == burst.slot - burst.void
       IN burst.sequences # {} /\ counted <= sent
            => UplinkLossPercent(burst) >= PercentOf(sent - counted, sent)

(* A write to the LED that failed in the background fails the burst and    *)
(* the command: no result is reported, and the command does not end well,  *)
(* also when the failure comes after the burst's last pulse.               *)
LedFailureFailsRun ==
  carried.pc \in {"report", "loop", "exited"} /\ ~carried.error => ~led.failed

(* Closing discards the request that waits: no pulse starts after it.      *)
NoPulseAfterClose == [][led.closing => ~(~led.active /\ led'.active)]_vars

(* A burst ends by itself, a continuous walk after a stop request, also    *)
(* when the LED's thread is asleep, pulsing or failed at that moment; the  *)
(* radio is then closed.                                                   *)
CommandEnds ==
  carried.pc # "start" /\ (carried.stop \/ ~carried.continuous)
    ~> carried.pc = "exited" /\ ~carried.open

(* What nrf905_walk.py:23-29 says of the uplink figure: the counter is     *)
(* sampled at the start and the end of the burst.  Then a burst every      *)
(* beacon of which was counted, and that heard the base station, has no    *)
(* uplink loss.  It is not so: beacons counted before the first and after  *)
(* the last one heard are taken for lost (README.md, section 4).           *)
LosslessUplinkReportsNoLoss ==
  carried.pc = "report" /\ burst.void = 0 /\ burst.sequences # {} /\ counted = Slots
    => UplinkLossPercent(burst) = 0

=============================================================================
