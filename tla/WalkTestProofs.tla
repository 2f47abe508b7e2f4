--------------------------- MODULE WalkTestProofs ---------------------------
(***************************************************************************)
(* The LED's thread and the burst that started it, for any number of       *)
(* slots, bursts and failures: a failure of the LED is never lost, and     *)
(* closing ends the blinking.  The uplink figure: what a burst reports is  *)
(* covered by what the base station counted.  The window: the figures over *)
(* 16-bit sequence numbers are those of the beacons really sent.           *)
(***************************************************************************)
EXTENDS WalkTest, FiniteSetTheorems, WellFoundedInduction, TLAPS

CarriedTypeOK ==
  carried \in [pc : {"start", "loop", "burst", "join", "report", "leave", "exited"},
               continuous : BOOLEAN, stop : BOOLEAN, bursts : Int,
               open : BOOLEAN, error : BOOLEAN]

(* The flags of the worker (_pending, _active, _closing and _error) and the*)
(* place of its thread.                                                    *)
WorkerInv ==
  /\ led \in Workers
  /\ led.active <=> led.thread \in {"pulsing", "failing"}
  /\ led.failed => led.closing /\ led.thread \in {"failing", "ended"}
  /\ led.thread = "failing" => led.failed
  /\ led.closing => ~led.pending

(* The thread outlives its burst only when a second exception, such as     *)
(* Ctrl-C, cuts the join short; then the command has failed.               *)
Quiet == led.thread = "ended" /\ ~led.failed
JoinedInv ==
  /\ carried.pc \in {"start", "loop", "report", "leave", "exited"} /\ ~carried.error => Quiet
  /\ carried.pc \in {"start", "report"} => ~carried.error

LedInv == CarriedTypeOK /\ WorkerInv /\ JoinedInv

(* What the radio loop does to a worker, and a new one.                    *)
LEMMA CallsOfTheLoop ==
  ASSUME WorkerInv
  PROVE  /\ led' = Closing => WorkerInv'
         /\ ~PulseRaises /\ led' = Pulsed => WorkerInv'
         /\ led' = NewWorker => WorkerInv'
         /\ UNCHANGED led => WorkerInv'
<1> USE DEF WorkerInv, Workers, ThreadStates, Notified
<1>1. led' = Closing => WorkerInv'
  BY DEF Closing
<1>2. ~PulseRaises /\ led' = Pulsed => WorkerInv'
  BY DEF Pulsed, PulseRaises
<1>3. led' = NewWorker => WorkerInv'
  BY DEF NewWorker
<1> QED
  BY <1>1, <1>2, <1>3

(* What the thread does: it never forgets a failure, and it ends for good. *)
LEMMA StepsOfTheThread ==
  ASSUME WorkerInv, LedThread \/ PulseFails
  PROVE  WorkerInv' /\ led.thread # "ended"
<1> USE DEF WorkerInv, Workers, ThreadStates
<1>1. CASE FallAsleep
  BY <1>1 DEF FallAsleep
<1>2. CASE ThreadEnds
  BY <1>2 DEF ThreadEnds
<1>3. CASE StartPulse
  BY <1>3 DEF StartPulse
<1>4. CASE FinishPulse
  BY <1>4 DEF FinishPulse
<1>5. CASE EndFailed
  BY <1>5 DEF EndFailed
<1>6. CASE PulseFails
  BY <1>6 DEF PulseFails
<1> QED
  BY <1>1, <1>2, <1>3, <1>4, <1>5, <1>6 DEF LedThread

(* What the burst knows of the LED's thread and what the thread recorded   *)
(* agree in every state (JoinedInv): a command that has not failed has     *)
(* joined a thread that did not fail either.                               *)
THEOREM LedInvariant == Spec => []LedInv
<1>1. Init => LedInv
  <2> SUFFICES ASSUME Init PROVE LedInv
    OBVIOUS
  <2>1. CarriedTypeOK
    BY DEF Init, CarriedTypeOK
  <2>2. led = NoWorker
    BY DEF Init
  <2>3. WorkerInv /\ Quiet
    BY <2>2 DEF WorkerInv, Quiet, NoWorker, NewWorker, Workers, ThreadStates
  <2>4. ~carried.error
    BY DEF Init
  <2> QED
    BY <2>1, <2>3, <2>4 DEF LedInv, JoinedInv
<1>2. LedInv /\ [Next]_vars => LedInv'
  <2> SUFFICES ASSUME LedInv, [Next]_vars PROVE LedInv'
    OBVIOUS
  <2> USE CallsOfTheLoop DEF LedInv, CarriedTypeOK, JoinedInv, Quiet
  <2>1. CASE UNCHANGED <<carried, led>>
    BY <2>1
  <2>2. CASE OpenCarried
    BY <2>2 DEF OpenCarried, Fails, burstVars
  <2>3. CASE StartBurst
    BY <2>3 DEF StartBurst, Goes
  <2>4. CASE StopLoop
    BY <2>4 DEF StopLoop, Goes, burstVars
  <2>5. CASE CarriedSlot \/ OtherTraffic
    BY <2>1, <2>5 DEF CarriedSlot, OtherTraffic
  <2>6. CASE CarriedHears
    BY <2>6 DEF CarriedHears, Fails, burstVars
  <2>7. CASE ListenRaises \/ LastSlotEnds
    BY <2>7 DEF ListenRaises, LastSlotEnds, Goes, Fails
  <2>8. CASE JoinFeedback
    BY <2>8 DEF JoinFeedback, Goes, Fails, burstVars
  <2>9. CASE Report /\ ~Fails("leave")
    <3>1. PICK failed \in BOOLEAN, next \in {"loop", "leave"} :
            carried' = [carried EXCEPT !.bursts = @ + 1, !.error = failed, !.pc = next]
      <4>1. (~carried.continuous /\ ~Trustworthy(burst)) \in BOOLEAN
        OBVIOUS
      <4> QED
        BY <2>9, <4>1 DEF Report
    <3>2. UNCHANGED led /\ carried.pc = "report"
      BY <2>9 DEF Report, burstVars
    <3>3. Quiet
      BY <3>2
    <3>4. CarriedTypeOK'
      <4>1. PICK n \in Int : n = carried.bursts + 1
        OBVIOUS
      <4>2. carried' = [carried EXCEPT !.bursts = n, !.error = failed, !.pc = next]
        BY <3>1, <4>1
      <4> QED
        BY <4>2
    <3>5. carried'.pc = next
      BY <3>1
    <3>6. JoinedInv'
      BY <3>2, <3>3, <3>5
    <3> QED
      BY <3>2, <3>4, <3>6
  <2>10. CASE Report /\ Fails("leave")
    BY <2>10 DEF Report, Fails, burstVars
  <2>11. CASE LeaveCarried \/ StopCarried
    BY <2>11 DEF LeaveCarried, StopCarried, burstVars
  <2>12. CASE InterruptBurst
    BY <2>12 DEF InterruptBurst
  <2>13. CASE OpenFixed \/ FixedSlot \/ FixedHears \/ LeaveFixed
    BY <2>1, <2>13 DEF OpenFixed, FixedSlot, FixedHears, LeaveFixed, fixedOnly
  <2>14. CASE LedWorks
    BY <2>14, StepsOfTheThread DEF LedWorks
  <2>15. CASE UNCHANGED vars
    BY <2>1, <2>15 DEF vars
  <2> QED
    BY <2>2, <2>3, <2>4, <2>5, <2>6, <2>7, <2>8, <2>9, <2>10, <2>11, <2>12, <2>13, <2>14,
       <2>15
       DEF Next, CarriedStep
<1> QED
  BY <1>1, <1>2, PTL DEF Spec

(* The command reports no result, and does not end well, after a write to  *)
(* the LED failed in its thread (LedPulseWorker.close raises the error).   *)
THEOREM LedFailureIsNoticed == Spec => []LedFailureFailsRun
<1>1. LedInv => LedFailureFailsRun
  BY DEF LedInv, JoinedInv, Quiet, LedFailureFailsRun
<1> QED
  BY <1>1, LedInvariant, PTL

(* After close() has begun no pulse starts, whatever was requested before. *)
THEOREM ClosingEndsBlinking == Spec => NoPulseAfterClose
<1>1. LedInv /\ [Next]_vars => [led.closing => ~(~led.active /\ led'.active)]_vars
  <2> SUFFICES ASSUME led \in Workers, Next, led.closing, ~led.active PROVE ~led'.active
    BY DEF LedInv, WorkerInv
  <2> USE DEF Workers, ThreadStates
  <2>1. CASE UNCHANGED led
    BY <2>1
  <2>2. CASE led' = Closing \/ led' = Pulsed
    BY <2>2 DEF Closing, Pulsed, Notified
  <2>3. CASE led' = NewWorker
    BY <2>3 DEF NewWorker
  <2>4. CASE LedThread \/ PulseFails
    BY <2>4 DEF LedThread, PulseFails, FallAsleep, ThreadEnds, StartPulse, FinishPulse, EndFailed
  <2> QED
    BY <2>1, <2>2, <2>3, <2>4
       DEF Next, CarriedStep, OpenCarried, StartBurst, StopLoop, CarriedSlot, LastSlotEnds,
           JoinFeedback, Report, LeaveCarried, CarriedHears, ListenRaises, StopCarried,
           InterruptBurst, OpenFixed, FixedSlot, FixedHears, LeaveFixed, OtherTraffic,
           LedWorks, burstVars, fixedOnly
<1> QED
  BY <1>1, LedInvariant, PTL DEF Spec, NoPulseAfterClose

-----------------------------------------------------------------------------
(* Arithmetic of the figures: Min and Max, \div, and the circle.           *)

LEMMA MinOfTwo ==
  ASSUME NEW x \in Int, NEW y \in Int
  PROVE  Min({x, y}) = IF x <= y THEN x ELSE y
<1>1. PICK m \in {x, y} : \A z \in {x, y} : m <= z
  OBVIOUS
<1>2. Min({x, y}) \in {x, y} /\ \A z \in {x, y} : Min({x, y}) <= z
  BY <1>1 DEF Min
<1> QED
  BY <1>2

LEMMA MaxOfTwo ==
  ASSUME NEW x \in Int, NEW y \in Int
  PROVE  Max({x, y}) = IF x >= y THEN x ELSE y
<1>1. PICK m \in {x, y} : \A z \in {x, y} : m >= z
  OBVIOUS
<1>2. Max({x, y}) \in {x, y} /\ \A z \in {x, y} : Max({x, y}) >= z
  BY <1>1 DEF Max
<1> QED
  BY <1>2

(* A larger number has a quotient at least as large. *)
LEMMA QuotientIsMonotone ==
  ASSUME NEW a \in Nat, NEW b \in Nat, NEW k \in Nat \ {0}, a <= b
  PROVE  a \div k \in Nat /\ a \div k <= b \div k
<1>1. a = k * (a \div k) + (a % k) /\ a % k \in 0..k - 1 /\ a \div k \in Int
  OBVIOUS
<1>2. b = k * (b \div k) + (b % k) /\ b % k \in 0..k - 1 /\ b \div k \in Int
  OBVIOUS
<1> DEFINE p == a \div k
<1> DEFINE q == b \div k
<1>3. a \div k >= 0
  OBVIOUS
<1>4. p <= q
  <2>1. p \in Int /\ q \in Int /\ k * p <= a /\ a < k * q + k
    BY <1>1, <1>2
  <2> HIDE DEF p, q
  <2>2. k * p < k * (q + 1)
    BY <2>1
  <2>3. ASSUME p >= q + 1 PROVE FALSE
    <3>1. PICK n \in Nat : p = q + 1 + n
      BY <2>1, <2>3
    <3>2. k * p = k * (q + 1) + k * n /\ k * n >= 0
      BY <2>1, <3>1
    <3> QED
      BY <2>1, <2>2, <3>2
  <2> QED
    BY <2>1, <2>3
<1> QED
  BY <1>1, <1>3, <1>4

(* What the provers know of % and \div, as an existential fact.            *)
LEMMA Division ==
  ASSUME NEW m \in Nat \ {0}, NEW x \in Int
  PROVE  /\ x % m \in 0..m - 1
         /\ \E q \in Int : x = m * q + (x % m)
<1>1. x = m * (x \div m) + (x % m) /\ x \div m \in Int /\ x % m \in 0..m - 1
  OBVIOUS
<1> QED
  BY <1>1

(* The remainder is the only number of 0..m - 1 a multiple of m away.      *)
LEMMA Remainder ==
  ASSUME NEW m \in Nat \ {0}, NEW x \in Int, NEW k \in Int, NEW y \in 0..m - 1,
         y = x + m * k
  PROVE  x % m = y
<1>1. PICK j \in Int : x = m * j + (x % m)
  BY Division
<1>2. x % m \in 0..m - 1
  OBVIOUS
<1>3. PICK r \in Int : r = j + k
  OBVIOUS
<1>4. m * r = m * j + m * k /\ m * j \in Int /\ m * k \in Int
  BY <1>3
<1>5. y = m * r + (x % m)
  BY <1>1, <1>2, <1>4
<1>6. CASE r >= 1
  <2>1. PICK n \in Nat : r = 1 + n
    BY <1>6
  <2>2. m * r = m + m * n /\ m * n \in Nat
    BY <2>1
  <2> QED
    BY <1>2, <1>5, <2>2
<1>7. CASE r <= -1
  <2>1. PICK n \in Nat : r = -1 - n
    BY <1>7
  <2>2. m * r = -m - m * n /\ m * n \in Nat
    BY <2>1
  <2> QED
    BY <1>2, <1>5, <2>2
<1>8. CASE r = 0
  BY <1>2, <1>5, <1>8
<1> QED
  BY <1>6, <1>7, <1>8

(* Two counts that differ by less than m: the difference of their          *)
(* remainders, taken modulo m, is theirs.                                  *)
LEMMA DifferenceOnTheCircle ==
  ASSUME NEW m \in Nat \ {0}, NEW a \in Nat, NEW b \in Nat, a <= b, b - a < m
  PROVE  ((b % m) - (a % m)) % m = b - a
<1>0. a \in Int /\ b \in Int
  OBVIOUS
<1>1. PICK p \in Int : a = m * p + (a % m)
  BY <1>0, Division
<1>2. PICK q \in Int : b = m * q + (b % m)
  BY <1>0, Division
<1>3. a % m \in 0..m - 1 /\ b % m \in 0..m - 1
  OBVIOUS
<1>4. PICK c \in 0..m - 1, d \in 0..m - 1 : c = a % m /\ d = b % m
  BY <1>3
<1>5. m * (q - p) = m * q - m * p /\ m * q \in Int /\ m * p \in Int
  OBVIOUS
<1>6. b - a = (d - c) + m * (q - p)
  BY <1>1, <1>2, <1>4, <1>5
<1>7. (d - c) % m = b - a
  BY <1>6, Remainder
<1> QED
  BY <1>4, <1>7

(* Of a larger part, a larger share. *)
LEMMA PercentGrows ==
  ASSUME NEW part \in Nat, NEW more \in Nat, NEW whole \in Int, part <= more
  PROVE  PercentOf(part, whole) <= PercentOf(more, whole)
<1>1. CASE whole <= 0
  BY <1>1 DEF PercentOf
<1>2. CASE whole > 0
  <2>1. whole \in Nat \ {0} /\ whole \div 2 \in Nat
    BY <1>2
  <2>2. PICK h \in Nat : h = whole \div 2
    BY <2>1
  <2>3. part * 100 + h \in Nat /\ more * 100 + h \in Nat /\ part * 100 + h <= more * 100 + h
    OBVIOUS
  <2>4. /\ (part * 100 + h) \div whole \in Nat
        /\ (part * 100 + h) \div whole <= (more * 100 + h) \div whole
        /\ (more * 100 + h) \div whole \in Nat
    BY <2>1, <2>3, QuotientIsMonotone
  <2>5. PICK p \in Nat : p = (part * 100 + h) \div whole
    BY <2>4
  <2>6. PICK q \in Nat : q = (more * 100 + h) \div whole
    BY <2>4
  <2>7. p <= q
    BY <2>4, <2>5, <2>6
  <2>8. ASSUME NEW n \in Nat PROVE Max({0, Min({n, 100})}) = IF n <= 100 THEN n ELSE 100
    <3>1. n \in Int /\ 100 \in Int /\ 0 \in Int
      OBVIOUS
    <3>2. Min({n, 100}) = IF n <= 100 THEN n ELSE 100
      BY <3>1, MinOfTwo, Zenon
    <3>3. PICK k \in Int : k = Min({n, 100}) /\ 0 <= k /\ k = IF n <= 100 THEN n ELSE 100
      BY <3>2
    <3>4. Max({0, k}) = IF 0 >= k THEN 0 ELSE k
      BY <3>1, MaxOfTwo, Zenon
    <3> QED
      BY <3>3, <3>4
  <2>9. /\ PercentOf(part, whole) = Max({0, Min({p, 100})})
        /\ PercentOf(more, whole) = Max({0, Min({q, 100})})
    BY <1>2, <2>2, <2>5, <2>6 DEF PercentOf
  <2> QED
    BY <2>7, <2>8, <2>9
<1> QED
  BY <1>1, <1>2

-----------------------------------------------------------------------------
(* The uplink figure. *)

Walking == carried.pc \in {"burst", "join", "report"}

OfThisBurst(frame) == frame.role = "carried" /\ frame.burst = carried.bursts

BurstRecord == [slot : Nat, void : Nat, samples : Nat,
                sequences : SUBSET (0..Modulus - 1), first : Int, last : Int]
FixedRecord == [pc : {"start", "loop", "exited"}, open : BOOLEAN, iterations : Nat,
                void : Nat, sequence : 0..Modulus - 1, beacons : Nat, received : Nat]

UplinkTypes ==
  /\ CarriedTypeOK /\ carried.bursts \in Nat
  /\ burst \in BurstRecord
  /\ fixed \in FixedRecord
  /\ fifo \in [{"carried", "fixed"} -> Frames]
  /\ counted \in Nat

(* What is in the two receive FIFOs.  Sending clears the sender's own, so  *)
(* while a beacon of the base station waits to be read there, nothing of   *)
(* the carried node can be counted after it.                               *)
AirInv ==
  /\ fifo["carried"].role = "fixed" =>
       /\ fifo["carried"].total = fixed.received
       /\ fifo["carried"].count = fixed.received % Modulus
       /\ fifo["fixed"].role # "carried"
  /\ fifo["fixed"].role = "carried" =>
       /\ fifo["fixed"].burst <= carried.bursts
       /\ carried.pc \in {"start", "loop"} => fifo["fixed"].burst < carried.bursts

(* What the burst has counted, and what the base station has counted of it.*)
CountInv ==
  /\ burst.slot <= Slots /\ burst.void <= burst.slot
  /\ counted + (IF OfThisBurst(fifo["fixed"]) THEN 1 ELSE 0) <= burst.slot
  /\ burst.sequences = {} <=> burst.first = NoCount

(* The two totals sampled are those of the first and the last beacon heard,*)
(* and whatever was counted since the first one is of this burst.          *)
SampleInv ==
  IF burst.first = NoCount THEN sampled = <<0, 0>>
  ELSE /\ sampled \in Nat \X Nat
       /\ burst.first = sampled[1] % Modulus /\ burst.last = sampled[2] % Modulus
       /\ sampled[1] <= sampled[2] /\ sampled[2] <= fixed.received
       /\ fixed.received - sampled[1] <= counted
       /\ fifo["fixed"].role = "carried" => OfThisBurst(fifo["fixed"])

UplinkInv == UplinkTypes /\ AirInv /\ (Walking => CountInv /\ SampleInv)

(* A frame's role tells its fields.                                        *)
LEMMA FrameKinds ==
  ASSUME NEW frame \in Frames
  PROVE  /\ frame.role = "fixed" => frame \in Beacon
         /\ frame.role = "carried" => frame \in CarriedBeacon
BY DEF Frames, Beacon, CarriedBeacon, NoFrame, OtherFrame

(* What the invariant says of a burst that is about to be reported.        *)
LEMMA ReportedUplink ==
  ASSUME Slots < Modulus, UplinkInv
  PROVE  UplinkIsCounted
<1> SUFFICES ASSUME carried.pc = "report"
             PROVE  /\ Delivered(burst) = sampled[2] - sampled[1]
                    /\ Delivered(burst) <= counted
                    /\ LET sent == burst.slot - burst.void
                       IN burst.sequences # {} /\ counted <= sent
                            => UplinkLossPercent(burst) >= PercentOf(sent - counted, sent)
  BY DEF UplinkIsCounted
<1>1. CountInv /\ SampleInv /\ UplinkTypes
  BY DEF UplinkInv, Walking
<1>2. burst \in BurstRecord /\ counted \in Nat /\ fixed.received \in Nat
  BY <1>1 DEF UplinkTypes, FixedRecord
<1>3. burst.slot \in Nat /\ burst.void \in Nat
  BY <1>2 DEF BurstRecord
<1>4. burst.slot < Modulus /\ counted <= burst.slot
  BY <1>1, <1>2, <1>3, WalkAssumption DEF CountInv
<1>5. CASE burst.first = NoCount
  BY <1>1, <1>2, <1>5 DEF SampleInv, CountInv, Delivered
<1>6. CASE burst.first # NoCount
  <2>1. PICK a \in Nat, b \in Nat : a = sampled[1] /\ b = sampled[2]
    BY <1>1, <1>6 DEF SampleInv
  <2>2. burst.first = a % Modulus /\ burst.last = b % Modulus
    BY <1>1, <1>6, <2>1 DEF SampleInv
  <2>3. a <= b /\ b - a <= counted /\ b - a < Modulus
    <3>1. a <= b /\ b <= fixed.received /\ fixed.received - a <= counted
      BY <1>1, <1>6, <2>1 DEF SampleInv
    <3> QED
      BY <1>2, <1>3, <1>4, <3>1, WalkAssumption
  <2>4. Modulus \in Nat \ {0}
    BY WalkAssumption
  <2>5. Delivered(burst) = b - a
    <3>1. ((b % Modulus) - (a % Modulus)) % Modulus = b - a
      BY <2>3, <2>4, DifferenceOnTheCircle
    <3> QED
      BY <1>6, <2>2, <3>1 DEF Delivered
  <2>6. PICK d \in Nat : d = Delivered(burst) /\ d <= counted
    BY <2>3, <2>5
  <2>7. PICK sent \in Int : sent = burst.slot - burst.void
    BY <1>3
  <2>8. ASSUME burst.sequences # {}, counted <= sent
        PROVE  UplinkLossPercent(burst) >= PercentOf(sent - counted, sent)
    <3>1. CASE sent <= 0
      BY <2>7, <3>1 DEF UplinkLossPercent, PercentOf
    <3>2. CASE sent > 0
      <4>1. Min({d, sent}) = d /\ Max({0, d}) = d
        <5>1. d \in Int /\ sent \in Int /\ 0 \in Int /\ d <= sent /\ 0 <= d
          BY <1>2, <2>6, <2>7, <2>8
        <5>2. Min({d, sent}) = IF d <= sent THEN d ELSE sent
          BY <5>1, MinOfTwo, Zenon
        <5>3. Max({0, d}) = IF 0 >= d THEN 0 ELSE d
          BY <5>1, MaxOfTwo, Zenon
        <5> QED
          BY <5>1, <5>2, <5>3
      <4>2. UplinkLossPercent(burst) = PercentOf(sent - d, sent)
        <5>1. UplinkLossPercent(burst) =
                IF sent <= 0 \/ burst.sequences = {} THEN 0
                ELSE PercentOf(sent - Max({0, Min({Delivered(burst), sent})}), sent)
          BY <2>7, Zenon DEF UplinkLossPercent
        <5>2. Max({0, Min({Delivered(burst), sent})}) = d
          BY <2>6, <4>1, Zenon
        <5>3. ~(sent <= 0) /\ burst.sequences # {}
          BY <2>8, <3>2
        <5> QED
          BY <5>1, <5>2, <5>3, Zenon
      <4>3. PercentOf(sent - counted, sent) <= PercentOf(sent - d, sent)
        <5>1. sent - counted \in Nat /\ sent - d \in Nat /\ sent - counted <= sent - d
          BY <1>2, <2>6, <2>8
        <5> QED
          BY <5>1, PercentGrows
      <4> QED
        BY <4>2, <4>3
    <3> QED
      BY <3>1, <3>2
  <2> QED
    BY <2>1, <2>5, <2>6, <2>7, <2>8
<1> QED
  BY <1>5, <1>6

(* A step that leaves the air, the totals and the burst as they are, and   *)
(* starts no burst.                                                        *)
LEMMA QuietStep ==
  ASSUME UplinkInv, UNCHANGED <<burst, airVars, counted, sampled>>,
         CarriedTypeOK', carried'.bursts = carried.bursts,
         Walking' => Walking, carried'.pc \in {"start", "loop"} => carried.pc \in {"start", "loop"}
  PROVE  UplinkInv'
<1>1. fifo' = fifo /\ fixed' = fixed
  BY DEF airVars
<1>2. UplinkTypes'
  BY <1>1 DEF UplinkInv, UplinkTypes
<1>3. AirInv'
  BY <1>1 DEF UplinkInv, AirInv
<1>4. OfThisBurst(fifo["fixed"])' = OfThisBurst(fifo["fixed"])
  BY <1>1 DEF OfThisBurst
<1>5. CountInv => CountInv'
  BY <1>1, <1>4 DEF CountInv
<1>6. SampleInv => SampleInv'
  BY <1>1, <1>4 DEF SampleInv
<1> QED
  BY <1>2, <1>3, <1>5, <1>6 DEF UplinkInv

(* The number of bursts only grows, and a new one starts by forgetting.    *)
LEMMA BurstBegins ==
  ASSUME UplinkInv, CarriedTypeOK', StartBurst
  PROVE  UplinkInv'
<1>1. /\ carried.pc = "loop" /\ carried'.pc = "burst" /\ carried'.bursts = carried.bursts
      /\ burst' = NewBurst /\ counted' = 0 /\ sampled' = <<0, 0>>
      /\ fixed' = fixed /\ fifo' = fifo
  BY DEF StartBurst, Goes, airVars, UplinkInv, UplinkTypes, CarriedTypeOK
<1>2. UplinkTypes'
  <2>1. NewBurst \in BurstRecord
    BY DEF NewBurst, BurstRecord, NoCount
  <2> QED
    BY <1>1, <2>1 DEF UplinkInv, UplinkTypes
<1>3. AirInv'
  BY <1>1 DEF UplinkInv, AirInv
<1>4. ~OfThisBurst(fifo["fixed"])'
  <2>1. fifo["fixed"].role = "carried" =>
          fifo["fixed"].burst < carried.bursts /\ fifo["fixed"].burst \in Nat
    BY <1>1, FrameKinds DEF UplinkInv, AirInv, UplinkTypes, CarriedBeacon
  <2>2. carried.bursts \in Nat
    BY DEF UplinkInv, UplinkTypes
  <2> QED
    BY <1>1, <2>1, <2>2 DEF OfThisBurst
<1>5. CountInv' /\ SampleInv'
  BY <1>1, <1>4, WalkAssumption DEF CountInv, SampleInv, NewBurst
<1> QED
  BY <1>2, <1>3, <1>5 DEF UplinkInv

(* Reporting ends the burst; its own beacons are now those of an old one.  *)
LEMMA BurstReported ==
  ASSUME UplinkInv, CarriedTypeOK', Report, ~Fails("leave")
  PROVE  UplinkInv'
<1>1. /\ carried'.bursts = carried.bursts + 1 /\ carried'.pc \in {"loop", "leave"}
      /\ carried.pc = "report"
      /\ UNCHANGED <<burst, fixed, fifo, counted, sampled>>
  BY DEF Report, burstVars, truthVars, airVars, UplinkInv, UplinkTypes, CarriedTypeOK
<1>2. carried.bursts \in Nat
  BY DEF UplinkInv, UplinkTypes
<1>3. UplinkTypes'
  BY <1>1, <1>2 DEF UplinkInv, UplinkTypes
<1>4. fifo["fixed"].role = "carried" =>
        fifo["fixed"].burst <= carried.bursts /\ fifo["fixed"].burst \in Nat
  BY FrameKinds DEF UplinkInv, AirInv, UplinkTypes, CarriedBeacon
<1>5. AirInv'
  BY <1>1, <1>2, <1>4 DEF UplinkInv, AirInv
<1>6. ~Walking'
  BY <1>1 DEF Walking
<1> QED
  BY <1>3, <1>5, <1>6 DEF UplinkInv

(* A beacon of the carried node: it waits at the base station, or it is    *)
(* lost, and the carried node has heard nothing since.                     *)
LEMMA CarriedNodeSends ==
  ASSUME UplinkInv, CarriedSlot
  PROVE  UplinkInv'
<1> DEFINE frame == [role |-> "carried", burst |-> carried.bursts]
<1>1. PICK end \in TransmitEnds, delivered \in BOOLEAN, carrierRead \in BOOLEAN :
        /\ Transmits(end, delivered, "fixed", "carried", frame)
        /\ burst' = [burst EXCEPT !.slot = @ + 1,
                                  !.void = IF end = "sent" THEN @ ELSE @ + 1,
                                  !.samples = IF carrierRead THEN @ + 1 ELSE @]
  BY DEF CarriedSlot
<1>2. UNCHANGED <<carried, fixed, counted, sampled>> /\ carried.pc = "burst" /\ burst.slot < Slots
  BY DEF CarriedSlot, truthVars
<1>3. burst \in BurstRecord /\ fifo \in [{"carried", "fixed"} -> Frames] /\ carried.bursts \in Nat
      /\ counted \in Nat /\ UplinkTypes /\ AirInv /\ CountInv /\ SampleInv
  BY <1>2 DEF UplinkInv, UplinkTypes, Walking
<1>4. frame \in CarriedBeacon /\ frame \in Frames /\ NoFrame \in Frames
  BY <1>3 DEF CarriedBeacon, Frames
<1> HIDE DEF frame
<1>5. \/ fifo' = fifo
      \/ fifo' = [fifo EXCEPT !["carried"] = NoFrame]
      \/ fifo' = [fifo EXCEPT !["carried"] = NoFrame, !["fixed"] = frame]
  BY <1>1, <1>3 DEF Transmits, SentTo
<1>6. fifo' \in [{"carried", "fixed"} -> Frames]
  BY <1>3, <1>4, <1>5
<1>7. /\ fifo'["carried"] = fifo["carried"] /\ fifo'["fixed"] = fifo["fixed"]
      \/ /\ fifo'["carried"] = NoFrame
         /\ fifo'["fixed"] = fifo["fixed"] \/ fifo'["fixed"] = frame
  BY <1>3, <1>5
<1>8. /\ burst' \in BurstRecord
      /\ burst'.slot = burst.slot + 1 /\ burst'.void <= burst.void + 1
      /\ burst.slot \in Nat /\ burst.void \in Nat /\ burst'.void \in Nat
      /\ burst'.sequences = burst.sequences
      /\ burst'.first = burst.first /\ burst'.last = burst.last
  <2>1. PICK v \in 0..1, r \in 0..1 :
          burst' = [burst EXCEPT !.slot = burst.slot + 1, !.void = burst.void + v,
                                 !.samples = burst.samples + r]
    <3>1. PICK v \in 0..1 : v = IF end = "sent" THEN 0 ELSE 1
      OBVIOUS
    <3>2. PICK r \in 0..1 : r = IF carrierRead THEN 1 ELSE 0
      OBVIOUS
    <3>3. /\ burst.void + v = IF end = "sent" THEN burst.void ELSE burst.void + 1
          /\ burst.samples + r = IF carrierRead THEN burst.samples + 1 ELSE burst.samples
      BY <1>3, <3>1, <3>2 DEF BurstRecord
    <3> QED
      BY <1>1, <3>3
  <2>2. burst.slot \in Nat /\ burst.void \in Nat /\ burst.samples \in Nat
    BY <1>3 DEF BurstRecord
  <2>3. /\ burst.slot + 1 \in Nat /\ burst.void + v \in Nat /\ burst.samples + r \in Nat
        /\ burst.void + v <= burst.void + 1
    BY <2>2
  <2> QED
    BY <1>3, <2>1, <2>2, <2>3 DEF BurstRecord
<1>9. UplinkTypes'
  BY <1>2, <1>3, <1>6, <1>8 DEF UplinkTypes, CarriedTypeOK
<1>10. frame.role = "carried" /\ frame.burst = carried.bursts
  BY DEF frame
<1>11. AirInv'
  BY <1>2, <1>3, <1>7, <1>10 DEF AirInv, NoFrame
<1>12. OfThisBurst(fifo["fixed"])' <=> fifo'["fixed"].role = "carried"
                                        /\ fifo'["fixed"].burst = carried.bursts
  BY <1>2 DEF OfThisBurst
<1>13. CountInv'
  <2>1. burst'.slot <= Slots
    BY <1>2, <1>8, WalkAssumption
  <2>2. burst'.void <= burst'.slot /\ counted + 1 <= burst'.slot
    BY <1>3, <1>8 DEF CountInv
  <2>3. counted + 0 <= burst'.slot
    BY <1>3, <1>8, <2>2
  <2> QED
    BY <1>2, <1>3, <1>8, <2>1, <2>2, <2>3 DEF CountInv
<1>14. SampleInv'
  BY <1>2, <1>3, <1>7, <1>8, <1>10, <1>12 DEF SampleInv, OfThisBurst
<1> QED
  BY <1>9, <1>11, <1>13, <1>14 DEF UplinkInv

(* The carried node reads a frame: of a beacon it keeps the count, and the *)
(* total that the base station had when it sent it and still has.          *)
LEMMA CarriedNodeHears ==
  ASSUME UplinkInv, CarriedTypeOK', CarriedHears
  PROVE  UplinkInv'
<1> DEFINE frame == fifo["carried"]
<1>1. /\ carried.pc = "burst" /\ UNCHANGED <<fixed, counted>>
      /\ fifo' = [fifo EXCEPT !["carried"] = NoFrame]
      /\ carried'.bursts = carried.bursts /\ carried'.pc \in {"burst", "join"}
  BY DEF CarriedHears, burstVars, truthVars, Fails, UplinkInv, UplinkTypes, CarriedTypeOK
<1>2. /\ burst \in BurstRecord /\ fifo \in [{"carried", "fixed"} -> Frames]
      /\ fixed \in FixedRecord /\ fixed.received \in Nat /\ counted \in Nat
      /\ UplinkTypes /\ AirInv /\ CountInv /\ SampleInv
  BY <1>1 DEF UplinkInv, UplinkTypes, Walking, FixedRecord
<1>3. /\ fifo' \in [{"carried", "fixed"} -> Frames]
      /\ fifo'["carried"] = NoFrame /\ fifo'["fixed"] = fifo["fixed"]
  BY <1>1, <1>2 DEF Frames
<1>4. AirInv'
  BY <1>1, <1>2, <1>3 DEF AirInv, NoFrame
<1>5. OfThisBurst(fifo["fixed"])' <=> OfThisBurst(fifo["fixed"])
  BY <1>1, <1>3 DEF OfThisBurst
<1>6. CASE UNCHANGED <<burst, sampled>>
  <2>1. UplinkTypes'
    BY <1>1, <1>2, <1>3, <1>6 DEF UplinkTypes
  <2>2. CountInv'
    BY <1>1, <1>2, <1>5, <1>6 DEF CountInv
  <2>3. SampleInv'
    BY <1>1, <1>2, <1>3, <1>5, <1>6 DEF SampleInv
  <2> QED
    BY <1>4, <2>1, <2>2, <2>3 DEF UplinkInv
<1>7. CASE ~UNCHANGED <<burst, sampled>>
  <2>1. /\ frame.role = "fixed"
        /\ burst' = [burst EXCEPT !.sequences = @ \cup {frame.sequence},
                                  !.first = IF @ = NoCount THEN frame.count ELSE @,
                                  !.last = frame.count]
        /\ sampled' = <<IF burst.first = NoCount THEN frame.total ELSE sampled[1],
                        frame.total>>
    BY <1>7 DEF CarriedHears, burstVars, truthVars
  <2>2. /\ frame \in Beacon /\ frame.total = fixed.received
        /\ frame.count = fixed.received % Modulus /\ fifo["fixed"].role # "carried"
    BY <1>2, <2>1, FrameKinds DEF AirInv
  <2>3. PICK s \in 0..Modulus - 1, c \in 0..Modulus - 1 : s = frame.sequence /\ c = frame.count
    BY <2>2 DEF Beacon
  <2> DEFINE first == IF burst.first = NoCount THEN c ELSE burst.first
  <2>4. burst' = [burst EXCEPT !.sequences = burst.sequences \cup {s}, !.first = first, !.last = c]
    BY <1>2, <2>1, <2>3 DEF BurstRecord
  <2>5. first \in Int /\ c \in Int /\ first # NoCount
    BY <1>2, <2>3, WalkAssumption DEF BurstRecord, NoCount
  <2>6. /\ burst' \in BurstRecord
        /\ burst'.slot = burst.slot /\ burst'.void = burst.void
        /\ burst'.sequences # {} /\ burst'.first = first /\ burst'.last = c
    <3> HIDE DEF first
    <3>1. burst.sequences \cup {s} \in SUBSET (0..Modulus - 1)
      BY <1>2 DEF BurstRecord
    <3> QED
      BY <1>2, <2>4, <2>5, <3>1 DEF BurstRecord
  <2>7. UplinkTypes'
    BY <1>1, <1>2, <1>3, <2>6 DEF UplinkTypes
  <2>8. CountInv'
    BY <1>1, <1>2, <1>5, <2>5, <2>6 DEF CountInv
  <2>9. SampleInv'
    <3>1. CASE burst.first = NoCount
      <4>1. sampled'[1] = fixed.received /\ sampled'[2] = fixed.received
            /\ sampled' \in Nat \X Nat
        BY <1>2, <2>1, <2>2, <3>1
      <4>2. first = fixed.received % Modulus /\ c = fixed.received % Modulus
        BY <2>2, <2>3, <3>1
      <4>3. fixed.received - fixed.received <= counted
        BY <1>2
      <4> HIDE DEF first
      <4> QED
        BY <1>1, <1>2, <1>3, <2>2, <2>5, <2>6, <4>1, <4>2, <4>3 DEF SampleInv
    <3>2. CASE burst.first # NoCount
      <4>1. sampled'[1] = sampled[1] /\ sampled'[2] = fixed.received
            /\ sampled' \in Nat \X Nat
        BY <1>2, <2>1, <2>2, <3>2 DEF SampleInv
      <4>2. first = sampled[1] % Modulus /\ c = fixed.received % Modulus
            /\ sampled[1] <= fixed.received /\ fixed.received - sampled[1] <= counted
        BY <1>2, <2>2, <2>3, <3>2 DEF SampleInv
      <4> HIDE DEF first
      <4> QED
        BY <1>1, <1>2, <1>3, <2>2, <2>5, <2>6, <4>1, <4>2 DEF SampleInv
    <3> QED
      BY <3>1, <3>2
  <2> QED
    BY <1>4, <2>7, <2>8, <2>9 DEF UplinkInv
<1> QED
  BY <1>6, <1>7

(* A beacon of the base station carries its total, and clears what it had  *)
(* not read.                                                               *)
LEMMA BaseStationSends ==
  ASSUME UplinkInv, FixedSlot
  PROVE  UplinkInv'
<1> DEFINE frame == [role |-> "fixed", sequence |-> fixed.sequence,
                     count |-> fixed.received % Modulus,
                     beacon |-> fixed.beacons, total |-> fixed.received]
<1>1. PICK end \in TransmitEnds, delivered \in BOOLEAN :
        /\ Transmits(end, delivered, "carried", "fixed", frame)
        /\ fixed' = IF end = "sent"
                    THEN [fixed EXCEPT !.iterations = @ + 1, !.beacons = @ + 1,
                                       !.sequence = (@ + 1) % Modulus]
                    ELSE [fixed EXCEPT !.iterations = @ + 1, !.void = @ + 1]
  BY DEF FixedSlot
<1>2. UNCHANGED <<carried, burst, counted, sampled>>
  BY DEF FixedSlot, fixedOnly
<1>3. /\ fixed \in FixedRecord /\ fixed.received \in Nat
      /\ fifo \in [{"carried", "fixed"} -> Frames]
      /\ UplinkTypes /\ AirInv
  BY DEF UplinkInv, UplinkTypes, FixedRecord
<1>4. frame \in Beacon /\ frame \in Frames /\ NoFrame \in Frames
  <2>1. fixed.received % Modulus \in 0..Modulus - 1
    BY <1>3, WalkAssumption
  <2>2. fixed.sequence \in 0..Modulus - 1 /\ fixed.beacons \in Nat
    BY <1>3 DEF FixedRecord
  <2> QED
    BY <1>3, <2>1, <2>2 DEF Beacon, Frames
<1>5. frame.role = "fixed" /\ frame.total = fixed.received
      /\ frame.count = fixed.received % Modulus
  OBVIOUS
<1> HIDE DEF frame
<1>6. \/ fifo' = fifo
      \/ fifo' = [fifo EXCEPT !["fixed"] = NoFrame]
      \/ fifo' = [fifo EXCEPT !["fixed"] = NoFrame, !["carried"] = frame]
  BY <1>1, <1>3 DEF Transmits, SentTo
<1>7. fifo' \in [{"carried", "fixed"} -> Frames]
  BY <1>3, <1>4, <1>6
<1>8. \/ fifo' = fifo
      \/ /\ fifo'["fixed"] = NoFrame
         /\ fifo'["carried"] = fifo["carried"] \/ fifo'["carried"] = frame
  BY <1>3, <1>6
<1>9. fixed' \in FixedRecord /\ fixed'.received = fixed.received
  <2>1. /\ fixed.iterations + 1 \in Nat /\ fixed.beacons + 1 \in Nat /\ fixed.void + 1 \in Nat
        /\ (fixed.sequence + 1) % Modulus \in 0..Modulus - 1
    BY <1>3, WalkAssumption DEF FixedRecord
  <2> QED
    BY <1>1, <1>3, <2>1 DEF FixedRecord
<1>10. UplinkTypes'
  BY <1>2, <1>3, <1>7, <1>9 DEF UplinkTypes, CarriedTypeOK
<1>11. AirInv'
  BY <1>2, <1>3, <1>5, <1>8, <1>9 DEF AirInv, NoFrame
<1>12. OfThisBurst(fifo["fixed"])' => OfThisBurst(fifo["fixed"])
  BY <1>2, <1>8 DEF OfThisBurst, NoFrame
<1>13. ASSUME Walking PROVE CountInv' /\ SampleInv'
  <2>1. CountInv /\ SampleInv /\ burst \in BurstRecord /\ counted \in Nat
    BY <1>13 DEF UplinkInv, UplinkTypes
  <2>2. CountInv'
    BY <1>2, <1>12, <2>1 DEF CountInv, BurstRecord
  <2>3. fifo'["fixed"].role = "carried" => fifo'["fixed"] = fifo["fixed"]
    BY <1>8 DEF NoFrame
  <2>4. SampleInv'
    BY <1>2, <1>9, <2>1, <2>3 DEF SampleInv, OfThisBurst
  <2> QED
    BY <2>2, <2>4
<1> QED
  BY <1>2, <1>10, <1>11, <1>13 DEF UplinkInv, Walking

(* The base station reads a frame: a beacon of this burst is counted on    *)
(* both sides of the invariant; no sampled total is on its way.            *)
LEMMA BaseStationHears ==
  ASSUME UplinkInv, FixedHears
  PROVE  UplinkInv'
<1> DEFINE frame == fifo["fixed"]
<1>1. /\ UNCHANGED <<carried, burst, sampled>>
      /\ fifo' = [fifo EXCEPT !["fixed"] = NoFrame]
  BY DEF FixedHears, fixedOnly
<1>2. /\ fixed \in FixedRecord /\ fixed.received \in Nat /\ counted \in Nat
      /\ fifo \in [{"carried", "fixed"} -> Frames]
      /\ UplinkTypes /\ AirInv
  BY DEF UplinkInv, UplinkTypes, FixedRecord
<1>3. /\ fifo' \in [{"carried", "fixed"} -> Frames]
      /\ fifo'["fixed"] = NoFrame /\ fifo'["carried"] = fifo["carried"]
  BY <1>1, <1>2 DEF Frames
<1>4. fifo'["fixed"].role # "carried" /\ ~OfThisBurst(fifo["fixed"])'
  BY <1>1, <1>3 DEF NoFrame, OfThisBurst
<1>5. CASE frame.role # "carried"
  <2>1. UNCHANGED <<fixed, counted>>
    BY <1>5 DEF FixedHears
  <2>2. UplinkTypes' /\ AirInv'
    BY <1>1, <1>2, <1>3, <1>4, <2>1 DEF UplinkTypes, CarriedTypeOK, AirInv
  <2>3. CountInv => CountInv'
    BY <1>1, <1>2, <1>4, <1>5, <2>1 DEF CountInv, OfThisBurst
  <2>4. SampleInv => SampleInv'
    BY <1>1, <1>4, <2>1 DEF SampleInv
  <2> QED
    BY <1>1, <2>2, <2>3, <2>4 DEF UplinkInv, Walking
<1>6. CASE frame.role = "carried"
  <2>1. /\ fixed' = [fixed EXCEPT !.received = @ + 1]
        /\ counted' = IF OfThisBurst(frame) THEN counted + 1 ELSE counted
    BY <1>6 DEF FixedHears, OfThisBurst
  <2>2. fixed' \in FixedRecord /\ fixed'.received = fixed.received + 1
    BY <1>2, <2>1 DEF FixedRecord
  <2>3. counted' \in Nat
    BY <1>2, <2>1
  <2>4. UplinkTypes'
    BY <1>1, <1>2, <1>3, <2>2, <2>3 DEF UplinkTypes, CarriedTypeOK
  <2>5. fifo'["carried"].role # "fixed"
    BY <1>2, <1>3, <1>6 DEF AirInv
  <2>6. AirInv'
    BY <1>4, <2>5 DEF AirInv
  <2>7. CountInv => CountInv'
    BY <1>1, <1>2, <1>4, <2>1 DEF CountInv
  <2>8. SampleInv => SampleInv'
    <3> SUFFICES ASSUME SampleInv PROVE SampleInv'
      OBVIOUS
    <3>1. CASE burst.first = NoCount
      BY <1>1, <3>1 DEF SampleInv
    <3>2. CASE burst.first # NoCount
      <4>1. PICK a \in Nat, b \in Nat : sampled = <<a, b>>
        BY <3>2 DEF SampleInv
      <4>2. /\ a <= b /\ b <= fixed.received /\ fixed.received - a <= counted
            /\ counted' = counted + 1
            /\ burst.first = a % Modulus /\ burst.last = b % Modulus
        BY <1>6, <2>1, <3>2, <4>1 DEF SampleInv
      <4>3. b <= fixed'.received /\ fixed'.received - a <= counted'
        BY <1>2, <2>2, <4>1, <4>2
      <4> QED
        BY <1>1, <1>4, <3>2, <4>1, <4>2, <4>3 DEF SampleInv
    <3> QED
      BY <3>1, <3>2
  <2> QED
    BY <1>1, <2>4, <2>6, <2>7, <2>8 DEF UplinkInv, Walking
<1> QED
  BY <1>5, <1>6

(* A frame of another station counts for nobody.                           *)
LEMMA OtherStationSends ==
  ASSUME UplinkInv, OtherTraffic
  PROVE  UplinkInv'
<1>1. UNCHANGED <<carried, burst, fixed, counted, sampled>>
  BY DEF OtherTraffic, truthVars
<1>2. PICK n \in {"carried", "fixed"} : fifo' = [fifo EXCEPT ![n] = OtherFrame]
  BY DEF OtherTraffic
<1>3. UplinkTypes /\ AirInv /\ fifo \in [{"carried", "fixed"} -> Frames]
  BY DEF UplinkInv, UplinkTypes
<1>4. /\ fifo' \in [{"carried", "fixed"} -> Frames]
      /\ \A k \in {"carried", "fixed"} : fifo'[k] = fifo[k] \/ fifo'[k] = OtherFrame
  BY <1>2, <1>3 DEF Frames
<1>5. UplinkTypes'
  BY <1>1, <1>3, <1>4 DEF UplinkTypes, CarriedTypeOK
<1>6. AirInv'
  BY <1>1, <1>3, <1>4 DEF AirInv, OtherFrame
<1>7. OfThisBurst(fifo["fixed"])' => OfThisBurst(fifo["fixed"])
  BY <1>1, <1>4 DEF OfThisBurst, OtherFrame
<1>8. CountInv => CountInv'
  BY <1>1, <1>3, <1>7 DEF CountInv, UplinkTypes, BurstRecord
<1>9. SampleInv => SampleInv'
  BY <1>1, <1>4 DEF SampleInv, OfThisBurst, OtherFrame
<1> QED
  BY <1>1, <1>5, <1>6, <1>8, <1>9 DEF UplinkInv, Walking

(* The base station is opened or left.                                     *)
LEMMA BaseStationCommand ==
  ASSUME UplinkInv, OpenFixed \/ LeaveFixed
  PROVE  UplinkInv'
<1>1. UNCHANGED <<carried, burst, fifo, counted, sampled>>
  BY DEF OpenFixed, LeaveFixed, fixedOnly
<1>2. fixed' \in FixedRecord /\ fixed'.received = fixed.received
  BY DEF OpenFixed, LeaveFixed, UplinkInv, UplinkTypes, FixedRecord
<1>3. UplinkTypes' /\ AirInv'
  BY <1>1, <1>2 DEF UplinkInv, UplinkTypes, CarriedTypeOK, AirInv
<1>4. CountInv => CountInv'
  BY <1>1 DEF CountInv, OfThisBurst
<1>5. SampleInv => SampleInv'
  BY <1>1, <1>2 DEF SampleInv, OfThisBurst
<1> QED
  BY <1>1, <1>3, <1>4, <1>5 DEF UplinkInv, Walking

(* The base station's total, the beacons it has counted of this burst and  *)
(* the two totals the burst has sampled keep pace in every state: between  *)
(* two samples the total grows by beacons of this burst alone.             *)
THEOREM UplinkInvariant == Spec => []UplinkInv
<1>1. Init => UplinkInv
  <2> SUFFICES ASSUME Init PROVE UplinkInv
    OBVIOUS
  <2>1. PICK c \in BOOLEAN :
          carried = [pc |-> "start", continuous |-> c, stop |-> FALSE,
                     bursts |-> 0, open |-> FALSE, error |-> FALSE]
    BY DEF Init
  <2>2. PICK start \in {0, Modulus - 1} :
          fixed = [pc |-> "start", open |-> FALSE, iterations |-> 0,
                   void |-> 0, sequence |-> start, beacons |-> start, received |-> start]
    BY DEF Init
  <2>3. start \in 0..Modulus - 1 /\ start \in Nat
    BY <2>2, WalkAssumption
  <2>4. fixed \in FixedRecord
    BY <2>2, <2>3 DEF FixedRecord
  <2>5. burst \in BurstRecord
    BY DEF Init, NewBurst, BurstRecord, NoCount
  <2>6. fifo \in [{"carried", "fixed"} -> Frames]
        /\ fifo["carried"] = NoFrame /\ fifo["fixed"] = NoFrame
    BY DEF Init, Frames
  <2>7. UplinkTypes
    BY <2>1, <2>4, <2>5, <2>6 DEF Init, UplinkTypes, CarriedTypeOK
  <2> QED
    BY <2>1, <2>6, <2>7 DEF UplinkInv, AirInv, Walking, NoFrame
<1>2. LedInv /\ LedInv' /\ UplinkInv /\ [Next]_vars => UplinkInv'
  <2> SUFFICES ASSUME CarriedTypeOK, CarriedTypeOK', UplinkInv, [Next]_vars PROVE UplinkInv'
    BY DEF LedInv
  <2>1. CASE UNCHANGED <<carried, burst, fixed, fifo, counted, sampled>>
    BY <2>1, QuietStep DEF airVars, Walking
  <2>2. CASE OpenCarried
    BY <2>2, QuietStep DEF OpenCarried, Fails, burstVars, truthVars, Walking, CarriedTypeOK
  <2>3. CASE StopLoop \/ LastSlotEnds
    BY <2>3, QuietStep
       DEF StopLoop, LastSlotEnds, Goes, burstVars, truthVars, Walking, CarriedTypeOK
  <2>4. CASE ListenRaises \/ JoinFeedback
    BY <2>4, QuietStep
       DEF ListenRaises, JoinFeedback, Goes, Fails, burstVars, truthVars, Walking, CarriedTypeOK
  <2>5. CASE Report /\ Fails("leave")
    BY <2>5, QuietStep DEF Report, Fails, burstVars, truthVars, Walking, CarriedTypeOK
  <2>6. CASE LeaveCarried \/ StopCarried
    BY <2>6, QuietStep
       DEF LeaveCarried, StopCarried, burstVars, truthVars, Walking, CarriedTypeOK
  <2>7. CASE InterruptBurst
    BY <2>7, QuietStep DEF InterruptBurst, truthVars, Walking, CarriedTypeOK
  <2>8. CASE LedWorks \/ UNCHANGED vars
    BY <2>1, <2>8 DEF LedWorks, truthVars, vars
  <2> QED
    BY <2>2, <2>3, <2>4, <2>5, <2>6, <2>7, <2>8, BurstBegins, BurstReported,
       CarriedNodeSends, CarriedNodeHears, BaseStationSends, BaseStationHears,
       OtherStationSends, BaseStationCommand
       DEF Next, CarriedStep
<1> QED
  BY <1>1, <1>2, LedInvariant, PTL DEF Spec

(* The uplink figure of a reported burst is the growth of the unbounded    *)
(* total, it never exceeds the beacons counted, and the loss is never below*)
(* that of the beacons counted (run_carried_burst), for every Modulus and  *)
(* any number of bursts, beacons and failures.  A burst must have fewer    *)
(* beacons than the field has values: --slots is 100 unless it is given,   *)
(* and the code does not refuse a larger one.                              *)
THEOREM UplinkCorrect ==
  ASSUME Slots < Modulus
  PROVE  Spec => []UplinkIsCounted
<1>1. UplinkInv => UplinkIsCounted
  BY ReportedUplink
<1> QED
  BY <1>1, UplinkInvariant, PTL

-----------------------------------------------------------------------------
(* The window of beacons heard, on the circle of sequence numbers.         *)

(* A set of numbers has a least one, and a bounded one a greatest.         *)
LEMMA LeastNatural ==
  ASSUME NEW T \in SUBSET Nat, T # {}
  PROVE  \E x \in T : \A y \in T : x <= y
<1>1. PICK x \in T : \A y \in T : ~(<<y, x>> \in OpToRel(<, Nat))
  BY NatLessThanWellFounded, WFMin
<1>2. ASSUME NEW y \in T PROVE x <= y
  <2>1. x \in Nat /\ y \in Nat
    OBVIOUS
  <2>2. ~(y < x)
    BY <1>1, <2>1 DEF OpToRel
  <2> QED
    BY <2>1, <2>2
<1> QED
  BY <1>2

LEMMA GreatestNatural ==
  ASSUME NEW T \in SUBSET Nat, T # {}, NEW bound \in Nat, \A x \in T : x <= bound
  PROVE  \E x \in T : \A y \in T : x >= y
<1> DEFINE U == {bound - x : x \in T}
<1>1. U \in SUBSET Nat /\ U # {}
  <2>1. ASSUME NEW x \in T PROVE bound - x \in Nat
    BY <2>1
  <2>2. PICK x \in T : TRUE
    OBVIOUS
  <2>3. bound - x \in U
    BY <2>2
  <2> QED
    BY <2>1, <2>3
<1>2. PICK u \in U : \A v \in U : u <= v
  BY <1>1, LeastNatural
<1>3. PICK x \in T : u = bound - x
  OBVIOUS
<1>4. ASSUME NEW y \in T PROVE x >= y
  <2>1. bound - y \in U
    OBVIOUS
  <2>2. bound - x <= bound - y
    BY <1>2, <1>3, <2>1
  <2>3. x \in Nat /\ y \in Nat
    OBVIOUS
  <2> HIDE DEF U
  <2> QED
    BY <2>2, <2>3
<1> QED
  BY <1>4

(* Min and Max are chosen: there is only one to choose.                    *)
LEMMA MinIsLeast ==
  ASSUME NEW S \in SUBSET Int, NEW m \in S, \A x \in S : m <= x
  PROVE  Min(S) = m
<1>1. Min(S) \in S /\ \A y \in S : Min(S) <= y
  BY DEF Min
<1>2. Min(S) \in Int /\ m \in Int
  BY <1>1
<1>3. Min(S) <= m /\ m <= Min(S)
  BY <1>1
<1> QED
  BY <1>2, <1>3

LEMMA MaxIsGreatest ==
  ASSUME NEW S \in SUBSET Int, NEW m \in S, \A x \in S : m >= x
  PROVE  Max(S) = m
<1>1. Max(S) \in S /\ \A y \in S : Max(S) >= y
  BY DEF Max
<1>2. Max(S) \in Int /\ m \in Int
  BY <1>1
<1>3. Max(S) >= m /\ m >= Max(S)
  BY <1>1
<1> QED
  BY <1>2, <1>3

(* Numbers less than m apart are told apart by their remainders.           *)
LEMMA SameRemainder ==
  ASSUME NEW m \in Nat \ {0}, NEW a \in Nat, NEW b \in Nat, a - b < m, b - a < m,
         a % m = b % m
  PROVE  a = b
<1>1. 0 % m = 0 /\ a % m \in Int
  OBVIOUS
<1>2. CASE a <= b
  <2>1. ((b % m) - (a % m)) % m = b - a
    BY <1>2, DifferenceOnTheCircle
  <2>2. (b % m) - (a % m) = 0
    BY <1>1
  <2> QED
    BY <1>1, <2>1, <2>2
<1>3. CASE b <= a
  <2>1. ((a % m) - (b % m)) % m = a - b
    BY <1>3, DifferenceOnTheCircle
  <2>2. (a % m) - (b % m) = 0
    BY <1>1
  <2> QED
    BY <1>1, <2>1, <2>2
<1> QED
  BY <1>2, <1>3

(* A step taken on the circle is the step taken on the line.               *)
LEMMA StepOnTheCircle ==
  ASSUME NEW m \in Nat \ {0}, NEW x \in Int, NEW d \in Int
  PROVE  ((x % m) + d) % m = (x + d) % m
<1>1. PICK q \in Int : x = m * q + (x % m)
  BY Division
<1>2. PICK y \in Int : y = x + d
  OBVIOUS
<1>3. PICK p \in Int : y = m * p + (y % m)
  BY Division
<1>4. PICK r \in 0..m - 1 : r = y % m
  BY Division
<1>5. PICK c \in 0..m - 1 : c = x % m
  BY Division
<1>6. PICK k \in Int : k = q - p /\ m * k = m * q - m * p /\ m * q \in Int /\ m * p \in Int
  <2>1. m * (q - p) = m * q - m * p /\ m * q \in Int /\ m * p \in Int /\ q - p \in Int
    OBVIOUS
  <2> QED
    BY <2>1
<1>7. PICK z \in Int : z = c + d
  OBVIOUS
<1>8. r = z + m * k
  BY <1>1, <1>2, <1>3, <1>4, <1>5, <1>6, <1>7
<1>9. z % m = r
  BY <1>8, Remainder
<1> QED
  BY <1>2, <1>4, <1>5, <1>7, <1>9

LEMMA OnceAround ==
  ASSUME NEW m \in Nat \ {0}, NEW x \in Int
  PROVE  (x + m) % m = x % m
<1>1. PICK q \in Int : x = m * q + (x % m)
  BY Division
<1>2. PICK r \in 0..m - 1 : r = x % m
  BY Division
<1>3. PICK k \in Int : k = -1 - q /\ m * k = -m - m * q /\ m * q \in Int
  <2>1. m * (-1 - q) = -m - m * q /\ m * q \in Int /\ -1 - q \in Int
    OBVIOUS
  <2> QED
    BY <2>1
<1>4. PICK y \in Int : y = x + m
  OBVIOUS
<1>5. r = y + m * k
  BY <1>1, <1>2, <1>3, <1>4
<1>6. y % m = r
  BY <1>5, Remainder
<1> QED
  BY <1>2, <1>4, <1>6

(* Beacons heard within half the circle, and their sequence numbers.       *)
Window(H) == H \in SUBSET Nat /\ H # {} /\ \A x, y \in H : x - y < MaxBeacons

Residues(H) == {b % Modulus : b \in H}

LEMMA ModulusFacts ==
  /\ Modulus \in Nat \ {0} /\ MaxBeacons \in Nat /\ 2 * MaxBeacons <= Modulus
BY WalkAssumption

(* Going around the circle from b, one meets the beacons after b and then, *)
(* one round later, those up to b.                                         *)
LEMMA MetAfter ==
  ASSUME NEW H, Window(H), NEW b \in H, NEW d \in 1..Modulus
  PROVE  ((b % Modulus) + d) % Modulus \in Residues(H)
           <=> \E c \in H : d = c - b \/ d = c - b + Modulus
<1> USE ModulusFacts
<1>1. b \in Nat /\ b \in Int /\ d \in Int
  BY DEF Window
<1>2. PICK e \in Nat : e = b + d
  BY <1>1
<1>3. ((b % Modulus) + d) % Modulus = e % Modulus
  <2>1. ((b % Modulus) + d) % Modulus = (b + d) % Modulus
    BY <1>1, ModulusFacts, StepOnTheCircle, Zenon
  <2> QED
    BY <1>2, <2>1
<1>4. ASSUME NEW c \in H, d = c - b \/ d = c - b + Modulus
      PROVE  e % Modulus \in Residues(H)
  <2>1. c \in Int /\ (e = c \/ e = c + Modulus)
    BY <1>1, <1>2, <1>4 DEF Window
  <2>2. (c + Modulus) % Modulus = c % Modulus
    BY <2>1, OnceAround
  <2> QED
    BY <2>1, <2>2 DEF Residues
<1>5. ASSUME NEW c \in H, e % Modulus = c % Modulus
      PROVE  d = c - b \/ d = c - b + Modulus
  <2>1. c \in Nat /\ c \in Int /\ c - b < MaxBeacons /\ b - c < MaxBeacons
    BY DEF Window
  <2>2. CASE c > b
    <3>1. e - c < Modulus /\ c - e < Modulus
      BY <1>1, <1>2, <2>1, <2>2
    <3>2. e = c
      BY <1>5, <2>1, <3>1, SameRemainder
    <3> QED
      BY <1>1, <1>2, <2>1, <3>2
  <2>3. CASE c <= b
    <3>1. PICK f \in Nat : f = c + Modulus
      BY <2>1
    <3>2. e - f < Modulus /\ f - e < Modulus
      BY <1>1, <1>2, <2>1, <2>3, <3>1
    <3>3. f % Modulus = c % Modulus
      BY <2>1, <3>1, OnceAround
    <3>4. e = f
      BY <1>5, <3>2, <3>3, SameRemainder
    <3> QED
      BY <1>1, <1>2, <2>1, <3>1, <3>4
  <2> QED
    BY <1>1, <2>1, <2>2, <2>3
<1> QED
  BY <1>3, <1>4, <1>5 DEF Residues

(* The next number met is that of the next beacon heard ...                *)
LEMMA StepToNext ==
  ASSUME NEW H, Window(H), NEW b \in H, NEW c \in H, b < c, \A x \in H : b < x => c <= x
  PROVE  StepTo(Residues(H), b % Modulus) = c - b
<1> USE ModulusFacts
<1> DEFINE D == {d \in 1..Modulus : ((b % Modulus) + d) % Modulus \in Residues(H)}
<1>1. b \in Nat /\ c \in Nat /\ c - b < MaxBeacons /\ c - b \in 1..Modulus
  BY DEF Window
<1>2. c - b \in D
  BY <1>1, MetAfter
<1>3. ASSUME NEW d \in D PROVE c - b <= d
  <2>1. PICK x \in H : d = x - b \/ d = x - b + Modulus
    BY MetAfter
  <2>2. x \in Nat /\ b - x < MaxBeacons /\ d \in 1..Modulus
    BY DEF Window
  <2>3. CASE d = x - b
    BY <1>1, <2>2, <2>3
  <2>4. CASE d = x - b + Modulus
    BY <1>1, <2>2, <2>4
  <2> QED
    BY <2>1, <2>3, <2>4
<1>4. D \in SUBSET Int
  OBVIOUS
<1>5. Min(D) = c - b
  <2> HIDE DEF D
  <2> QED
    BY <1>2, <1>3, <1>4, MinIsLeast
<1> QED
  BY <1>5 DEF StepTo

(* ... and after the last one, that of the first, around the circle.       *)
LEMMA StepToFirst ==
  ASSUME NEW H, Window(H), NEW lo \in H, NEW hi \in H, \A x \in H : lo <= x /\ x <= hi
  PROVE  StepTo(Residues(H), hi % Modulus) = lo - hi + Modulus
<1> USE ModulusFacts
<1> DEFINE D == {d \in 1..Modulus : ((hi % Modulus) + d) % Modulus \in Residues(H)}
<1>1. lo \in Nat /\ hi \in Nat /\ hi - lo < MaxBeacons /\ lo <= hi
  BY DEF Window
<1>2. PICK s \in 1..Modulus : s = lo - hi + Modulus
  BY <1>1
<1>3. s \in D
  BY <1>2, MetAfter
<1>4. ASSUME NEW d \in D PROVE s <= d
  <2>1. PICK x \in H : d = x - hi \/ d = x - hi + Modulus
    BY MetAfter
  <2>2. x \in Nat /\ lo <= x /\ x <= hi /\ d \in 1..Modulus
    BY DEF Window
  <2> QED
    BY <1>1, <1>2, <2>1, <2>2
<1>5. D \in SUBSET Int
  OBVIOUS
<1>6. Min(D) = s
  <2> HIDE DEF D
  <2> QED
    BY <1>3, <1>4, <1>5, MinIsLeast
<1> QED
  BY <1>2, <1>6 DEF StepTo

(* A window has a first and a last beacon, and each but the last a next.   *)
LEMMA Ends ==
  ASSUME NEW H, Window(H)
  PROVE  \E lo, hi \in H : \A x \in H : lo <= x /\ x <= hi
<1>1. H \in SUBSET Nat /\ H # {}
  BY DEF Window
<1>2. PICK lo \in H : \A x \in H : lo <= x
  BY <1>1, LeastNatural
<1>3. PICK bound \in Nat : \A x \in H : x <= bound
  <2>1. lo + MaxBeacons \in Nat
    BY <1>1, ModulusFacts
  <2>2. ASSUME NEW x \in H PROVE x <= lo + MaxBeacons
    BY <1>1, ModulusFacts DEF Window
  <2> QED
    BY <2>1, <2>2
<1>4. PICK hi \in H : \A x \in H : hi >= x
  BY <1>1, <1>3, GreatestNatural
<1>5. \A x \in H : lo <= x /\ x <= hi
  BY <1>1, <1>2, <1>4
<1> QED
  BY <1>5

LEMMA NextHeard ==
  ASSUME NEW H, Window(H), NEW b \in H, NEW y \in H, b < y
  PROVE  \E c \in H : b < c /\ \A x \in H : b < x => c <= x
<1> DEFINE T == {x \in H : b < x}
<1>1. T \in SUBSET Nat /\ T # {}
  BY DEF Window
<1>2. PICK c \in T : \A x \in T : c <= x
  BY <1>1, LeastNatural
<1> QED
  BY <1>2

(* Where the circle is cut: after the last beacon heard.                   *)
LEMMA CutAfterLast ==
  ASSUME NEW H, Window(H), NEW lo \in H, NEW hi \in H, \A x \in H : lo <= x /\ x <= hi
  PROVE  Cut(Residues(H)) = hi % Modulus
<1> USE ModulusFacts
<1> DEFINE S == Residues(H)
<1> DEFINE cut == hi % Modulus
<1>1. lo \in Nat /\ hi \in Nat /\ hi - lo < MaxBeacons /\ lo <= hi
  BY DEF Window
<1>2. cut \in S /\ cut \in Nat
  BY <1>1 DEF Residues
<1>3. PICK g \in Int : g = GapAfter(S, cut) /\ g = lo - hi + Modulus - 1
  <2>1. StepTo(S, cut) = lo - hi + Modulus
    BY StepToFirst, Zenon
  <2>2. GapAfter(S, cut) = (lo - hi + Modulus) - 1
    BY <2>1, Zenon DEF GapAfter
  <2> HIDE DEF S, cut
  <2> QED
    BY <1>1, <2>2
<1>4. SuccessorOf(S, cut) \in Int
  <2>1. PICK r \in Int : r = StepTo(S, cut)
    <3>1. StepTo(S, cut) = lo - hi + Modulus
      BY StepToFirst, Zenon
    <3> HIDE DEF S, cut
    <3> QED
      BY <1>1, <3>1
  <2>2. PICK n \in Int : n = cut
    BY <1>2
  <2>3. (n + r) % Modulus \in Int
    OBVIOUS
  <2> HIDE DEF S, cut
  <2> QED
    BY <2>1, <2>2, <2>3 DEF SuccessorOf
<1>5. ASSUME NEW t \in S, t # cut PROVE GapAfter(S, t) \in Int /\ GapAfter(S, t) < g
  <2>1. PICK b \in H : t = b % Modulus
    BY DEF Residues
  <2>2. b \in Nat /\ b < hi
    BY <1>1, <1>5, <2>1 DEF Window
  <2>3. PICK c \in H : b < c /\ \A x \in H : b < x => c <= x
    BY <2>2, NextHeard
  <2>4. c \in Nat /\ c - b < MaxBeacons
    BY DEF Window
  <2>5. StepTo(S, t) = c - b
    BY <2>1, <2>3, StepToNext
  <2> QED
    BY <1>1, <1>3, <2>2, <2>4, <2>5 DEF GapAfter
<1> DEFINE Best(s) == \A t \in S : \/ GapAfter(S, t) < GapAfter(S, s)
                                   \/ /\ GapAfter(S, t) = GapAfter(S, s)
                                      /\ SuccessorOf(S, s) <= SuccessorOf(S, t)
<1> HIDE DEF S, cut
<1>6. Best(cut)
  <2> SUFFICES ASSUME NEW t \in S
               PROVE  \/ GapAfter(S, t) < GapAfter(S, cut)
                      \/ /\ GapAfter(S, t) = GapAfter(S, cut)
                         /\ SuccessorOf(S, cut) <= SuccessorOf(S, t)
    OBVIOUS
  <2>1. CASE t = cut
    BY <1>4, <2>1
  <2>2. CASE t # cut
    BY <1>3, <1>5, <2>2
  <2> QED
    BY <2>1, <2>2
<1>7. ASSUME NEW s \in S, Best(s) PROVE s = cut
  <2> SUFFICES ASSUME s # cut PROVE FALSE
    OBVIOUS
  <2>1. GapAfter(S, s) \in Int /\ GapAfter(S, s) < g
    BY <1>5
  <2>2. g < GapAfter(S, s) \/ g = GapAfter(S, s)
    BY <1>2, <1>3, <1>7
  <2> QED
    BY <1>3, <2>1, <2>2
<1>8. Cut(S) = CHOOSE s \in S : Best(s)
  BY DEF Cut
<1> HIDE DEF Best
<1>9. Cut(S) \in S /\ Best(Cut(S))
  BY <1>2, <1>6, <1>8
<1>10. Cut(S) = cut
  BY <1>7, <1>9
<1> QED
  BY <1>10 DEF S, cut

(* No two beacons of a window have the same sequence number.               *)
LEMMA AsManyNumbers ==
  ASSUME NEW H, Window(H)
  PROVE  Cardinality(Residues(H)) = Cardinality(H)
<1>1. PICK lo \in H, hi \in H : \A x \in H : lo <= x /\ x <= hi
  BY Ends
<1>2. IsFiniteSet(H)
  <2>1. lo \in Int /\ hi \in Int /\ H \in SUBSET (lo..hi)
    BY <1>1 DEF Window
  <2> QED
    BY <2>1, FS_Interval, FS_Subset
<1> DEFINE f == [b \in H |-> b % Modulus]
<1>3. f \in [H -> Residues(H)] /\ \A r \in Residues(H) : \E b \in H : f[b] = r
  BY DEF Residues
<1>4. ASSUME NEW a \in H, NEW b \in H, f[a] = f[b] PROVE a = b
  <2>1. a \in Nat /\ b \in Nat /\ a - b < MaxBeacons /\ b - a < MaxBeacons
    BY DEF Window
  <2>2. a - b < Modulus /\ b - a < Modulus
    BY <2>1, ModulusFacts
  <2>3. a % Modulus = b % Modulus
    BY <1>4
  <2> QED
    BY <2>1, <2>2, <2>3, ModulusFacts, SameRemainder
<1>5. f \in Bijection(H, Residues(H))
  BY <1>3, <1>4 DEF Bijection, Injection, Surjection, IsInjective
<1> QED
  BY <1>2, <1>5, FS_Bijection DEF ExistsBijection

(* The longest run of missed beacons, of those heard in H.                 *)
Misses(H) == {n \in 1..MaxBeacons : \E b \in H :
                b + n + 1 \in H /\ \A i \in 1..n : b + i \notin H}

(* The gaps that are not cut are the runs of beacons missed.               *)
LEMMA GapsAreMisses ==
  ASSUME NEW H, Window(H), NEW lo \in H, NEW hi \in H, \A x \in H : lo <= x /\ x <= hi
  PROVE  {0} \cup {GapAfter(Residues(H), s) : s \in Residues(H) \ {hi % Modulus}}
           = {0} \cup Misses(H)
<1> DEFINE S == Residues(H)
<1> DEFINE cut == hi % Modulus
<1>1. \A x \in H : x \in Nat
  BY DEF Window
<1>2. ASSUME NEW s \in S \ {cut}
      PROVE  GapAfter(S, s) = 0 \/ GapAfter(S, s) \in Misses(H)
  <2>1. PICK b \in H : s = b % Modulus
    BY DEF Residues
  <2>2. b \in Nat /\ hi \in Nat /\ b < hi
    BY <1>1, <1>2, <2>1
  <2>3. PICK c \in H : b < c /\ \A x \in H : b < x => c <= x
    BY <2>2, NextHeard
  <2>4. c \in Nat /\ c - b < MaxBeacons
    BY <1>1 DEF Window
  <2>5. StepTo(S, s) = c - b
    BY <2>1, <2>3, StepToNext
  <2>6. PICK n \in Nat : n = c - b - 1
    BY <2>2, <2>3, <2>4
  <2>7. GapAfter(S, s) = n
    BY <2>5, <2>6, Zenon DEF GapAfter
  <2>8. ASSUME n # 0 PROVE n \in Misses(H)
    <3>1. n \in 1..MaxBeacons /\ b + n + 1 = c
      BY <2>2, <2>4, <2>6, <2>8, ModulusFacts
    <3>2. ASSUME NEW i \in 1..n, b + i \in H PROVE FALSE
      BY <2>2, <2>3, <2>4, <2>6, <3>2
    <3> QED
      BY <3>1, <3>2 DEF Misses
  <2> QED
    BY <2>7, <2>8
<1>3. ASSUME NEW n \in Misses(H)
      PROVE  \E s \in S \ {cut} : n = GapAfter(S, s)
  <2>1. PICK b \in H : b + n + 1 \in H /\ \A i \in 1..n : b + i \notin H
    BY DEF Misses
  <2>2. PICK c \in H : c = b + n + 1
    BY <2>1
  <2>3. b \in Nat /\ n \in 1..MaxBeacons /\ c \in Nat /\ hi \in Nat /\ c <= hi
    BY <1>1 DEF Misses
  <2>4. ASSUME NEW x \in H, b < x PROVE c <= x
    <3> SUFFICES ASSUME ~(c <= x) PROVE FALSE
      OBVIOUS
    <3>1. x \in Nat
      BY <1>1
    <3>2. PICK i \in 1..n : x = b + i
      <4>1. x - b \in 1..n /\ x = b + (x - b)
        BY <2>2, <2>3, <2>4, <3>1
      <4> QED
        BY <4>1
    <3> QED
      BY <2>1, <3>2
  <2>5. b < c
    BY <2>2, <2>3
  <2>6. StepTo(S, b % Modulus) = c - b
    BY <2>4, <2>5, StepToNext
  <2>7. GapAfter(S, b % Modulus) = n
    <3>1. GapAfter(S, b % Modulus) = c - b - 1
      BY <2>6, Zenon DEF GapAfter
    <3> HIDE DEF S
    <3> QED
      BY <2>2, <2>3, <3>1
  <2>8. b % Modulus # cut
    <3>1. b - hi < Modulus /\ hi - b < Modulus /\ b # hi
      BY <2>2, <2>3, ModulusFacts DEF Window
    <3> QED
      BY <2>3, <3>1, ModulusFacts, SameRemainder
  <2>9. b % Modulus \in S
    BY DEF Residues
  <2> QED
    BY <2>7, <2>8, <2>9
<1> HIDE DEF S, cut
<1>4. {0} \cup {GapAfter(S, s) : s \in S \ {cut}} = {0} \cup Misses(H)
  BY <1>2, <1>3
<1> QED
  BY <1>4 DEF S, cut

(* _distinct_gap_stats of a window of beacons.                             *)
LEMMA StatsOfAWindow ==
  ASSUME NEW H, Window(H)
  PROVE  /\ DistinctGapStats(Residues(H)).received = Cardinality(H)
         /\ DistinctGapStats(Residues(H)).span = Max(H) - Min(H) + 1
         /\ DistinctGapStats(Residues(H)).longest = Max({0} \cup Misses(H))
<1>1. PICK lo \in H, hi \in H : \A x \in H : lo <= x /\ x <= hi
  BY Ends
<1>2. lo \in Nat /\ hi \in Nat /\ H \in SUBSET Int
  BY DEF Window
<1>3. Min(H) = lo /\ Max(H) = hi
  BY <1>1, <1>2, MinIsLeast, MaxIsGreatest
<1> DEFINE S == Residues(H)
<1>4. S # {}
  BY DEF Residues
<1>5. Cut(S) = hi % Modulus
  BY <1>1, CutAfterLast
<1>6. StepTo(S, hi % Modulus) = lo - hi + Modulus
  BY <1>1, StepToFirst
<1>7. {0} \cup {GapAfter(S, s) : s \in S \ {hi % Modulus}} = {0} \cup Misses(H)
  BY <1>1, GapsAreMisses
<1>8. Cardinality(S) = Cardinality(H)
  BY AsManyNumbers
<1> HIDE DEF S
<1>9. DistinctGapStats(S) =
        [received |-> Cardinality(S),
         longest |-> Max({0} \cup {GapAfter(S, s) : s \in S \ {Cut(S)}}),
         span |-> Modulus - GapAfter(S, Cut(S))]
  BY <1>4 DEF DistinctGapStats
<1>10. Modulus - GapAfter(S, Cut(S)) = Max(H) - Min(H) + 1
  <2>1. GapAfter(S, Cut(S)) = (lo - hi + Modulus) - 1
    BY <1>5, <1>6, Zenon DEF GapAfter
  <2> QED
    BY <1>2, <1>3, <2>1, ModulusFacts
<1>11. Max({0} \cup {GapAfter(S, s) : s \in S \ {Cut(S)}}) = Max({0} \cup Misses(H))
  BY <1>5, <1>7
<1> QED
  BY <1>8, <1>9, <1>10, <1>11 DEF S

(* The numbers of the beacons the base station has sent since it started.  *)
(* One whose transmission failed late may have been heard all the same;    *)
(* the next one has its number.                                            *)
SentBeacons ==
  {b \in Nat : /\ fixed.beacons + fixed.void <= b + fixed.iterations
               /\ b < fixed.beacons \/ (b = fixed.beacons /\ fixed.void > 0)}

WindowInv ==
  /\ fixed.iterations <= MaxBeacons /\ fixed.void <= fixed.iterations
  /\ fixed.sequence = fixed.beacons % Modulus
  /\ fifo["carried"].role = "fixed" =>
       /\ fifo["carried"].sequence = fifo["carried"].beacon % Modulus
       /\ fifo["carried"].beacon \in SentBeacons
  /\ heard \in SUBSET SentBeacons
  /\ burst.sequences = Residues(heard)

(* The step moves neither the base station's counters nor what was heard.  *)
LEMMA WindowKept ==
  ASSUME WindowInv, UNCHANGED heard, burst'.sequences = burst.sequences,
         fixed'.beacons = fixed.beacons, fixed'.void = fixed.void,
         fixed'.iterations = fixed.iterations, fixed'.sequence = fixed.sequence,
         fifo'["carried"] = fifo["carried"] \/ fifo'["carried"].role # "fixed"
  PROVE  WindowInv'
<1>1. SentBeacons' = SentBeacons
  BY DEF SentBeacons
<1> QED
  BY <1>1 DEF WindowInv, Residues

(* The base station sends: its numbers grow, and the newest is in the air. *)
LEMMA WindowSends ==
  ASSUME UplinkTypes, WindowInv, FixedSlot
  PROVE  WindowInv'
<1> DEFINE frame == [role |-> "fixed", sequence |-> fixed.sequence,
                     count |-> fixed.received % Modulus,
                     beacon |-> fixed.beacons, total |-> fixed.received]
<1>1. PICK end \in TransmitEnds, delivered \in BOOLEAN :
        /\ Transmits(end, delivered, "carried", "fixed", frame)
        /\ fixed' = IF end = "sent"
                    THEN [fixed EXCEPT !.iterations = @ + 1, !.beacons = @ + 1,
                                       !.sequence = (@ + 1) % Modulus]
                    ELSE [fixed EXCEPT !.iterations = @ + 1, !.void = @ + 1]
  BY DEF FixedSlot
<1>2. /\ UNCHANGED <<burst, heard>> /\ fixed.iterations < MaxBeacons
      /\ fixed \in FixedRecord /\ fifo \in [{"carried", "fixed"} -> Frames]
  BY DEF FixedSlot, fixedOnly, UplinkTypes
<1>3. /\ fixed.beacons \in Nat /\ fixed.iterations \in Nat /\ fixed.void \in Nat
      /\ fixed.sequence = fixed.beacons % Modulus /\ fixed.void <= fixed.iterations
  BY <1>2 DEF FixedRecord, WindowInv
<1>4. /\ frame.sequence = fixed.beacons % Modulus /\ frame.beacon = fixed.beacons
  BY <1>3
<1> HIDE DEF frame
<1>5. fifo'["carried"] \in {fifo["carried"], frame}
  BY <1>1, <1>2 DEF Transmits, SentTo
<1>6. /\ fixed'.iterations = fixed.iterations + 1
      /\ \/ fixed'.beacons = fixed.beacons + 1 /\ fixed'.void = fixed.void
         \/ fixed'.beacons = fixed.beacons /\ fixed'.void = fixed.void + 1
      /\ fixed'.sequence = fixed'.beacons % Modulus
  <2>1. CASE end = "sent"
    <3>1. /\ fixed'.beacons = fixed.beacons + 1 /\ fixed'.iterations = fixed.iterations + 1
          /\ fixed'.void = fixed.void
          /\ fixed'.sequence = (fixed.sequence + 1) % Modulus
      BY <1>1, <1>2, <2>1 DEF FixedRecord
    <3>2. ((fixed.beacons % Modulus) + 1) % Modulus = (fixed.beacons + 1) % Modulus
      <4>1. fixed.beacons \in Int /\ 1 \in Int
        BY <1>3
      <4> QED
        BY <4>1, ModulusFacts, StepOnTheCircle, Zenon
    <3> QED
      BY <1>3, <3>1, <3>2
  <2>2. CASE end # "sent"
    BY <1>1, <1>2, <1>3, <2>2 DEF FixedRecord
  <2> QED
    BY <2>1, <2>2
<1>7. SentBeacons \subseteq SentBeacons' /\ fixed.beacons \in SentBeacons'
  BY <1>3, <1>6 DEF SentBeacons
<1>8. fixed'.iterations <= MaxBeacons /\ fixed'.void <= fixed'.iterations
  BY <1>2, <1>3, <1>6, ModulusFacts
<1>9. /\ heard' \in SUBSET SentBeacons'
      /\ burst'.sequences = Residues(heard')
  BY <1>2, <1>7 DEF WindowInv
<1>10. fifo'["carried"].role = "fixed" =>
         /\ fifo'["carried"].sequence = fifo'["carried"].beacon % Modulus
         /\ fifo'["carried"].beacon \in SentBeacons'
  BY <1>4, <1>5, <1>7 DEF WindowInv
<1> QED
  BY <1>6, <1>8, <1>9, <1>10 DEF WindowInv, Residues

(* A beacon heard adds its number to both sets.                            *)
LEMMA WindowHears ==
  ASSUME UplinkTypes, WindowInv, CarriedHears
  PROVE  WindowInv'
<1> DEFINE frame == fifo["carried"]
<1>1. /\ UNCHANGED fixed
      /\ fifo' = [fifo EXCEPT !["carried"] = NoFrame]
      /\ fifo \in [{"carried", "fixed"} -> Frames] /\ burst \in BurstRecord
  BY DEF CarriedHears, UplinkTypes
<1>2. fifo'["carried"].role # "fixed"
  BY <1>1 DEF NoFrame
<1>3. CASE UNCHANGED <<burst, heard>>
  BY <1>1, <1>2, <1>3, WindowKept
<1>4. CASE ~UNCHANGED <<burst, heard>>
  <2>1. /\ frame.role = "fixed"
        /\ burst' = [burst EXCEPT !.sequences = @ \cup {frame.sequence},
                                  !.first = IF @ = NoCount THEN frame.count ELSE @,
                                  !.last = frame.count]
        /\ heard' = heard \cup {frame.beacon}
    BY <1>4 DEF CarriedHears, burstVars, truthVars
  <2>2. burst'.sequences = burst.sequences \cup {frame.sequence}
    BY <1>1, <2>1 DEF BurstRecord
  <2>3. frame.sequence = frame.beacon % Modulus /\ frame.beacon \in SentBeacons
    BY <2>1 DEF WindowInv
  <2>4. burst'.sequences = Residues(heard')
    BY <2>1, <2>2, <2>3 DEF WindowInv, Residues
  <2>5. SentBeacons' = SentBeacons
    BY <1>1 DEF SentBeacons
  <2>6. Residues(heard)' = Residues(heard')
    BY DEF Residues
  <2> QED
    BY <1>1, <1>2, <2>1, <2>3, <2>4, <2>5, <2>6 DEF WindowInv
<1> QED
  BY <1>3, <1>4

(* A burst begins with both sets empty.                                    *)
LEMMA WindowStarts ==
  ASSUME WindowInv, StartBurst
  PROVE  WindowInv'
<1>1. /\ UNCHANGED <<fixed, fifo>> /\ burst'.sequences = {} /\ heard' = {}
  BY DEF StartBurst, airVars, NewBurst
<1>2. SentBeacons' = SentBeacons
  BY <1>1 DEF SentBeacons
<1> QED
  BY <1>1, <1>2 DEF WindowInv, Residues

(* What the invariant says of the burst's figures.                         *)
LEMMA WindowOfABurst ==
  ASSUME UplinkTypes, WindowInv
  PROVE  WindowIsTrue
<1> SUFFICES ASSUME heard # {}
             PROVE  LET stats == DistinctGapStats(burst.sequences) IN
                    /\ stats.received = Cardinality(heard)
                    /\ stats.span = Max(heard) - Min(heard) + 1
                    /\ stats.longest = LongestMiss
  BY DEF WindowIsTrue
<1>1. fixed.beacons \in Nat /\ fixed.iterations \in Nat /\ fixed.void \in Nat
  BY DEF UplinkTypes, FixedRecord
<1>2. ASSUME NEW x \in heard, NEW y \in heard PROVE x - y < MaxBeacons
  <2>1. x \in SentBeacons /\ y \in SentBeacons /\ fixed.iterations <= MaxBeacons
    BY DEF WindowInv
  <2>2. /\ x \in Nat /\ y \in Nat
        /\ x < fixed.beacons \/ (x = fixed.beacons /\ fixed.void > 0)
        /\ fixed.beacons + fixed.void <= y + fixed.iterations
    BY <2>1 DEF SentBeacons
  <2> QED
    BY <1>1, <2>1, <2>2, ModulusFacts
<1>3. Window(heard)
  BY <1>2 DEF Window, WindowInv, SentBeacons
<1>4. burst.sequences = Residues(heard)
  BY DEF WindowInv
<1>5. LongestMiss = Max({0} \cup Misses(heard))
  BY DEF LongestMiss, Misses
<1> QED
  BY <1>3, <1>4, <1>5, StatsOfAWindow

(* The sequence numbers a burst has noted are those of the beacons it has  *)
(* heard, and these lie within half the circle, in every state.            *)
THEOREM WindowInvariant == Spec => []WindowInv
<1>1. Init => WindowInv
  <2> SUFFICES ASSUME Init PROVE WindowInv
    OBVIOUS
  <2>1. PICK start \in {0, Modulus - 1} :
          fixed = [pc |-> "start", open |-> FALSE, iterations |-> 0,
                   void |-> 0, sequence |-> start, beacons |-> start, received |-> start]
    BY DEF Init
  <2>2. start % Modulus = start
    BY <2>1, ModulusFacts
  <2>3. heard = {} /\ burst.sequences = {} /\ fifo["carried"].role # "fixed"
    BY DEF Init, NewBurst, NoFrame
  <2>4. /\ fixed.iterations <= MaxBeacons /\ fixed.void <= fixed.iterations
        /\ fixed.sequence = fixed.beacons % Modulus
    BY <2>1, <2>2, ModulusFacts
  <2> QED
    BY <2>3, <2>4 DEF WindowInv, Residues
<1>2. UplinkInv /\ WindowInv /\ [Next]_vars => WindowInv'
  <2> SUFFICES ASSUME UplinkTypes, WindowInv, [Next]_vars PROVE WindowInv'
    BY DEF UplinkInv
  <2>1. CASE UNCHANGED <<burst, fixed, fifo, heard>>
    BY <2>1, WindowKept
  <2>2. CASE OpenCarried \/ StopLoop \/ LastSlotEnds \/ JoinFeedback \/ Report \/ LeaveCarried
    BY <2>1, <2>2 DEF OpenCarried, StopLoop, LastSlotEnds, JoinFeedback, Report, LeaveCarried,
                      burstVars, truthVars, airVars
  <2>3. CASE ListenRaises \/ StopCarried \/ InterruptBurst \/ LedWorks \/ UNCHANGED vars
    BY <2>1, <2>3 DEF ListenRaises, StopCarried, InterruptBurst, LedWorks, vars,
                      burstVars, truthVars, airVars
  <2>4. CASE CarriedSlot
    <3>1. UNCHANGED <<fixed, heard>> /\ burst'.sequences = burst.sequences
      BY <2>4 DEF CarriedSlot, truthVars, UplinkTypes, BurstRecord
    <3>2. fifo'["carried"] \in {fifo["carried"], NoFrame}
      <4>1. PICK end \in TransmitEnds, delivered \in BOOLEAN :
              Transmits(end, delivered, "fixed", "carried",
                        [role |-> "carried", burst |-> carried.bursts])
        BY <2>4 DEF CarriedSlot
      <4> QED
        BY <4>1 DEF Transmits, SentTo, UplinkTypes
    <3> QED
      BY <3>1, <3>2, WindowKept DEF NoFrame
  <2>5. CASE FixedHears
    BY <2>5, WindowKept DEF FixedHears, fixedOnly, UplinkTypes, FixedRecord
  <2>6. CASE OpenFixed \/ LeaveFixed
    BY <2>6, WindowKept DEF OpenFixed, LeaveFixed, fixedOnly, UplinkTypes, FixedRecord
  <2>7. CASE OtherTraffic
    <3>1. UNCHANGED <<burst, fixed, heard>>
      BY <2>7 DEF OtherTraffic, truthVars
    <3>2. fifo'["carried"] \in {fifo["carried"], OtherFrame}
      BY <2>7 DEF OtherTraffic, UplinkTypes
    <3> QED
      BY <3>1, <3>2, WindowKept DEF OtherFrame
  <2> QED
    BY <2>2, <2>3, <2>4, <2>5, <2>6, <2>7, WindowStarts, WindowHears, WindowSends
       DEF Next, CarriedStep
<1> QED
  BY <1>1, <1>2, UplinkInvariant, PTL DEF Spec

(* The span and the longest run of missed beacons that _distinct_gap_stats *)
(* finds in 16-bit sequence numbers are those of the beacons really sent,  *)
(* in every state of every burst shorter than half the circle.             *)
THEOREM WindowCorrect == Spec => []WindowIsTrue
<1>1. UplinkInv /\ WindowInv => WindowIsTrue
  BY WindowOfABurst DEF UplinkInv
<1> QED
  BY <1>1, UplinkInvariant, WindowInvariant, PTL
=============================================================================
