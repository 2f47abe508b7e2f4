----------------------- MODULE PhysicalCaptureSafety -----------------------
(***************************************************************************)
(* The types of module PhysicalCapture, and what its operation lock and the*)
(* order of its shutdown guarantee, for every number of frames, requests   *)
(* and faults: the radio's mode, the life of the hardware, and the         *)
(* published receiver state.                                               *)
(*                                                                         *)
(* Each of the safety properties follows from ControlInv, which says for   *)
(* every point of the two threads who owns the lock, what the pins are set *)
(* to, which parts of the process are alive, and what will restore the     *)
(* receiver state.                                                         *)
(***************************************************************************)
EXTENDS PhysicalCapture, TLAPS

(* TypeOK is not inductive as it stands: that there are no more than two   *)
(* calls of lines.close() depends on how far the shutdown has come.        *)
ReleasesBounded ==
  \/ web.pc = "done"
  \/ web.pc = "exiting" /\ releases <= 1
  \/ releases = 0

TypeInv == TypeOK /\ ReleasesBounded

(* A batch may be empty.                                                   *)
LEMMA EmptyTyped == <<>> \in Seq(CarrierFrames)
  OBVIOUS

(* Each pin setting the driver leaves behind, complete or partial          *)
(* (_standby, _receive_mode, transmit), is a setting of the three pins.    *)
LEMMA PinSettings ==
  /\ ReceivePins \in Pins /\ TransmitPins \in Pins /\ PoweredDown \in Pins
  /\ [PoweredDown EXCEPT !.pwr_up = TRUE] \in Pins
  /\ \A p \in Pins :
       /\ PartialReceiveMode(p) \subseteq Pins
       /\ PartialTransmit(p) \subseteq Pins
       /\ PartialStandby(p) \subseteq Pins
       /\ [p EXCEPT !.trx_ce = TRUE, !.tx_en = TRUE] \in Pins
       /\ [p EXCEPT !.trx_ce = FALSE] \in Pins
  BY DEF Pins, ReceivePins, TransmitPins, PoweredDown, PartialReceiveMode, PartialTransmit,
         PartialStandby

(* Switching to a pin setting keeps the types of what it changes.          *)
LEMMA SwitchTyped ==
  ASSUME DeviceTypeOK, NEW p \in Pins, SwitchPins(p)
  PROVE  pins' \in Pins /\ dataReady' \in BOOLEAN /\ air' \in AirStates
  BY DEF DeviceTypeOK, SwitchPins, AirStates

(* What the chip does and each driver operation but close, completed or    *)
(* cut short by an exception, keeps the types of the device and releases   *)
(* nothing.                                                                *)
LEMMA DeviceTyped ==
  ASSUME DeviceTypeOK,
         \/ FrameArrives \/ TransmissionEnds
         \/ OpenDevice \/ OpenDeviceRaises
         \/ EnterReceiveMode \/ ReceiveModeRaises
         \/ StartTransmission \/ StartTransmissionRaises
         \/ ReadFifo \/ ReadFifoRaises
         \/ UNCHANGED deviceVars
  PROVE  DeviceTypeOK' /\ releases' = releases
<1> USE MaxFramesAssumption DEF DeviceTypeOK
<1>1. CASE FrameArrives
  BY <1>1 DEF FrameArrives
<1>2. CASE TransmissionEnds
  BY <1>2 DEF TransmissionEnds, AirStates
<1>3. CASE EnterReceiveMode
  BY <1>3, SwitchTyped, PinSettings DEF EnterReceiveMode
<1>4. CASE ReceiveModeRaises
  BY <1>4, SwitchTyped, PinSettings DEF ReceiveModeRaises
<1>5. CASE StartTransmission
  BY <1>5, PinSettings DEF StartTransmission, AirStates
<1>6. CASE StartTransmissionRaises
  BY <1>6, PinSettings DEF StartTransmissionRaises, AirStates
<1>7. CASE ReadFifo
  BY <1>7, PinSettings DEF ReadFifo
<1>8. CASE ReadFifoRaises
  BY <1>8, PinSettings DEF ReadFifoRaises
<1>9. CASE OpenDevice
  BY <1>9, PinSettings DEF OpenDevice
<1>10. CASE OpenDeviceRaises
  BY <1>10, PinSettings DEF OpenDeviceRaises
<1>11. CASE UNCHANGED deviceVars
  BY <1>11 DEF deviceVars
<1> QED
  BY <1>1, <1>2, <1>3, <1>4, <1>5, <1>6, <1>7, <1>8, <1>9, <1>10, <1>11

(* close releases the hardware once more, whether or not it raises (the    *)
(* finally block of Nrf905.close).                                         *)
LEMMA CloseTyped ==
  ASSUME DeviceTypeOK, releases \in 0..1, CloseDevice \/ CloseDeviceRaises
  PROVE  DeviceTypeOK' /\ releases' = releases + 1
<1>1. pins' \in Pins /\ dataReady' \in BOOLEAN /\ air' \in AirStates
  <2>1. CASE CloseDevice
    BY <2>1, SwitchTyped, PinSettings DEF CloseDevice
  <2>2. CASE CloseDeviceRaises /\ linesOpen
    <3>1. PICK p \in PartialStandby(pins) : SwitchPins(p)
      BY <2>2 DEF CloseDeviceRaises
    <3>2. p \in Pins
      BY <3>1, PinSettings DEF DeviceTypeOK
    <3> QED
      BY <3>1, <3>2, SwitchTyped
  <2>3. CASE CloseDeviceRaises /\ ~linesOpen
    BY <2>3 DEF CloseDeviceRaises, DeviceTypeOK
  <2> QED
    BY <2>1, <2>2, <2>3
<1>2. linesOpen' = FALSE /\ releases' = releases + 1 /\ UNCHANGED <<fifo, heard>>
  BY DEF CloseDevice, CloseDeviceRaises
<1>3. releases' \in 0..2
  BY <1>2
<1>4. linesOpen' \in BOOLEAN
  BY <1>2
<1> QED
  BY <1>1, <1>2, <1>3, <1>4 DEF DeviceTypeOK

(* The receiver thread goes to another point of _run: its locals stay.     *)
LEMMA ReceiverToTyped ==
  ASSUME rx \in ReceiverThread, NEW pc \in ReceiverPC, ReceiverTo(pc)
  PROVE  /\ rx' \in ReceiverThread
         /\ rx'.pc = pc
         /\ rx'.call = rx.call /\ rx'.hand = rx.hand /\ rx'.number = rx.number
         /\ rx'.batch = rx.batch /\ rx'.pending = rx.pending /\ rx'.faulted = rx.faulted
  BY DEF ReceiverTo, ReceiverThread

(* The receiver thread calls _capture_after_wait: its lists stay.          *)
LEMMA ReceiverCallsTyped ==
  ASSUME rx \in ReceiverThread, NEW call \in {"wait", "drain", "after"}, ReceiverCalls(call)
  PROVE  /\ rx' \in ReceiverThread
         /\ rx'.pc = "lock" /\ rx'.call = call
         /\ rx'.batch = rx.batch /\ rx'.pending = rx.pending
  BY DEF ReceiverCalls, ReceiverThread, ReceiverPC

(* The receiver thread goes on with other lists.                           *)
LEMMA BatchesTyped ==
  ASSUME rx \in ReceiverThread, NEW pc \in ReceiverPC,
         NEW batch \in Seq(CarrierFrames), NEW pending \in Seq(CarrierFrames),
         rx' = [rx EXCEPT !.pc = pc, !.batch = batch, !.pending = pending]
  PROVE  /\ rx' \in ReceiverThread
         /\ rx'.pc = pc /\ rx'.call = rx.call
         /\ rx'.batch = batch /\ rx'.pending = pending
  BY DEF ReceiverThread

(* The web thread goes to another point: its locals stay.                  *)
LEMMA WebToTyped ==
  ASSUME web \in WebThread, NEW pc \in WebPC, WebTo(pc)
  PROVE  /\ web' \in WebThread
         /\ web'.pc = pc
         /\ web'.number = web.number /\ web'.running = web.running /\ web'.sends = web.sends
  BY DEF WebTo, WebThread
(* Types, and the bound on releases, are an invariant: each action of      *)
(* either thread, the chip and the shutdown keeps them.                    *)
LEMMA TypeInvariant == Spec => []TypeInv
<1> USE CaptureBoundsAssumption
<1>1. Init => TypeInv
  <2> SUFFICES ASSUME Init
               PROVE  TypeInv
    OBVIOUS
  <2>1. DeviceTypeOK /\ releases = 0
    <3>1. dataReady \in BOOLEAN /\ linesOpen \in BOOLEAN
      BY DEF Init, DeviceInit
    <3>2. fifo \in 0..MaxFrames /\ heard \in 0..MaxFrames /\ releases = 0
      BY MaxFramesAssumption DEF Init, DeviceInit
    <3>3. pins \in Pins /\ air \in AirStates
      BY PinSettings DEF Init, DeviceInit, AirStates
    <3> QED
      BY <3>1, <3>2, <3>3 DEF DeviceTypeOK
  <2>2. rx \in ReceiverThread /\ rx.pc = "unstarted"
    BY MaxFramesAssumption DEF Init, ReceiverThread, ReceiverPC
  <2>3. web \in WebThread
    <3>1. PICK e \in BOOLEAN : web = [pc |-> "opening", number |-> 0, running |-> FALSE,
                                      sends |-> 0, enabled |-> e]
      BY DEF Init
    <3> QED
      BY <3>1 DEF WebThread, WebPC
  <2>4. closed \in BOOLEAN /\ stop \in BOOLEAN /\ thread \in BOOLEAN /\ modeLost \in BOOLEAN
    BY DEF Init
  <2>5. /\ sequence \in Nat /\ faults \in 0..MaxFaults /\ receiverState \in ReceiverStates
        /\ opLock \in {"free", "receiver", "web"}
    BY DEF Init, ReceiverStates
  <2>6. /\ receivedLog \in Seq(CarrierFrames) /\ captured \in Seq(CarrierFrames)
        /\ sentLog \in Seq(Nat)
    BY DEF Init
  <2> QED
    BY <2>1, <2>2, <2>3, <2>4, <2>5, <2>6 DEF TypeInv, TypeOK, ReleasesBounded
<1>2. TypeInv /\ [Next]_vars => TypeInv'
  <2> SUFFICES ASSUME TypeInv, [Next]_vars
               PROVE  TypeInv'
    OBVIOUS
  <2> USE DEF TypeInv, TypeOK, ReleasesBounded, ReceiverPC, WebPC, OnlyReceiverMoves,
              transportVars, lifecycleVars, modelVars, historyVars
  <2>1. CASE ReceiverBegins
    BY <2>1, ReceiverToTyped, DeviceTyped DEF ReceiverBegins, ReceiverAt, ReceiverStates
  <2>2. CASE LoopHead
    <3>1. CASE stop /\ ReceiverTo("exit")
      BY <2>2, <3>1, ReceiverToTyped, DeviceTyped DEF LoopHead
    <3>2. CASE rx' = [rx EXCEPT !.pc = "drain", !.batch = rx.pending, !.pending = <<>>]
      BY <2>2, <3>2, EmptyTyped, BatchesTyped, DeviceTyped DEF LoopHead, ReceiverThread
    <3>3. CASE ReceiverTo("wait")
      BY <2>2, <3>3, ReceiverToTyped, DeviceTyped DEF LoopHead
    <3> QED
      BY <2>2, <3>1, <3>2, <3>3 DEF LoopHead
  <2>3. CASE WaitForFrame
    BY <2>3, ReceiverToTyped, ReceiverCallsTyped, DeviceTyped DEF WaitForFrame, ReceiverAt
  <2>4. CASE Drain
    BY <2>4, ReceiverToTyped, ReceiverCallsTyped, DeviceTyped DEF Drain
  <2>5. CASE PollAfterBatch
    BY <2>5, ReceiverToTyped, ReceiverCallsTyped, DeviceTyped DEF PollAfterBatch, ReceiverAt
  <2>6. CASE WaitRaises
    BY <2>6, ReceiverToTyped, DeviceTyped DEF WaitRaises, Raise
  <2>7. CASE ReceiverLocks
    BY <2>7, ReceiverToTyped, DeviceTyped DEF ReceiverLocks, ReceiverAt
  <2>8. CASE CaptureNothing
    BY <2>8, ReceiverToTyped, DeviceTyped
       DEF CaptureNothing, ReceiverAt, AfterNoFrame, ReceiverThread
  <2>9. CASE CaptureFrame
    BY <2>9, ReceiverToTyped, DeviceTyped
       DEF CaptureFrame, ReceiverAt, ReceiverThread, DeviceTypeOK
  <2>10. CASE CaptureRaises
    BY <2>10, ReceiverToTyped, DeviceTyped DEF CaptureRaises, ReceiverAt, Raise
  <2>11. CASE NumberFrame
    BY <2>11, ReceiverToTyped, DeviceTyped DEF NumberFrame, ReceiverAt, ReceiverThread
  <2>12. CASE HandOver
    <3> DEFINE item == [frame |-> rx.hand, sequence |-> rx.number]
    <3>1. item \in CarrierFrames
      BY DEF ReceiverThread, CarrierFrames
    <3>2. captured' \in Seq(CarrierFrames) /\ <<item>> \in Seq(CarrierFrames)
          /\ Append(rx.batch, item) \in Seq(CarrierFrames)
      BY <2>12, <3>1 DEF HandOver, ReceiverThread
    <3>3. rx' \in ReceiverThread /\ rx'.pc \in {"loop", "drain"}
      BY <2>12, <3>2 DEF HandOver, ReceiverThread
    <3> QED
      BY <2>12, <3>2, <3>3, DeviceTyped DEF HandOver
  <2>13. CASE ConsumeNext
    BY <2>13, ReceiverToTyped, DeviceTyped DEF ConsumeNext, ReceiverAt
  <2>14. CASE PublishReceived
    <3>1. Head(rx.batch) \in CarrierFrames /\ Tail(rx.batch) \in Seq(CarrierFrames)
      BY <2>14 DEF PublishReceived, ReceiverAt, ReceiverThread
    <3>2. rx' \in ReceiverThread /\ rx'.pc = "consume"
      BY <2>14, <3>1 DEF PublishReceived, ReceiverThread
    <3> QED
      BY <2>14, <3>1, <3>2, DeviceTyped DEF PublishReceived
  <2>15. CASE ConsumeRaises
    <3>1. Head(rx.batch) \in CarrierFrames
      BY <2>15 DEF ConsumeRaises, ReceiverAt, ReceiverThread
    <3>2. receivedLog' \in Seq(CarrierFrames)
      <4>1. Append(receivedLog, Head(rx.batch)) \in Seq(CarrierFrames)
        BY <3>1
      <4> QED
        BY <2>15, <4>1 DEF ConsumeRaises
    <3> QED
      BY <2>15, <3>2, ReceiverToTyped, DeviceTyped DEF ConsumeRaises, Raise
  <2>16. CASE BatchEnds
    BY <2>16, ReceiverToTyped, DeviceTyped, EmptyTyped
       DEF BatchEnds, ReceiverAt, ReceiverThread
  <2>17. CASE PublishFault
    BY <2>17, ReceiverToTyped, DeviceTyped
       DEF PublishFault, ReceiverAt, ReceiverStates, ReceiverThread
  <2>18. CASE PublishStopped
    BY <2>18, ReceiverToTyped, DeviceTyped DEF PublishStopped, ReceiverAt, ReceiverStates
  <2>19. CASE ReceiverEnds
    BY <2>19, ReceiverToTyped, DeviceTyped DEF ReceiverEnds, ReceiverAt
  <2>20. CASE StartService
    BY <2>20, WebToTyped, DeviceTyped, ReceiverToTyped
       DEF StartService, WebAt, ReceiverAt, ReceiverStates
  <2>21. CASE BeginTransmit
    <3> DEFINE running == Running
    <3>1. running \in BOOLEAN
      BY DEF Running
    <3>2. web.sends + 1 \in 0..MaxSends
      BY <2>21 DEF BeginTransmit, WebThread
    <3>3. web' = [web EXCEPT !.pc = "send", !.sends = web.sends + 1, !.running = running]
      BY <2>21 DEF BeginTransmit, WebThread
    <3> HIDE DEF running
    <3>4. web' \in WebThread /\ web'.pc = "send"
      BY <3>1, <3>2, <3>3 DEF WebThread
    <3> QED
      BY <2>21, <3>4, DeviceTyped DEF BeginTransmit, WebAt, ReceiverStates
  <2>22. CASE SendLocks
    BY <2>22, WebToTyped, DeviceTyped DEF SendLocks, WebAt
  <2>23. CASE PulseTransmit
    BY <2>23, WebToTyped, DeviceTyped DEF PulseTransmit, WebAt, OnlyRadioAndWeb
  <2>24. CASE PulseRaises
    BY <2>24, WebToTyped, DeviceTyped DEF PulseRaises, WebAt, OnlyRadioAndWeb, Raise
  <2>25. CASE SeeCompletion
    BY <2>25, WebToTyped, DeviceTyped DEF SeeCompletion, WebAt, OnlyRadioAndWeb
  <2>26. CASE ReturnRaises
    BY <2>26, WebToTyped, DeviceTyped DEF ReturnRaises, WebAt, OnlyRadioAndWeb, Raise
  <2>27. CASE CompletionTimeout
    BY <2>27, WebToTyped, DeviceTyped DEF CompletionTimeout, WebAt, OnlyRadioAndWeb
  <2>28. CASE CleanUp
    BY <2>28, WebToTyped, DeviceTyped DEF CleanUp, WebAt
  <2>29. CASE CleanUpRaises
    BY <2>29, WebToTyped, DeviceTyped DEF CleanUpRaises, WebAt, Raise
  <2>30. CASE NumberSent
    BY <2>30, WebToTyped, DeviceTyped DEF NumberSent, WebAt, WebThread
  <2>31. CASE SendReturns
    BY <2>31, WebToTyped, DeviceTyped DEF SendReturns, WebAt
  <2>32. CASE PublishSent
    BY <2>32, WebToTyped, DeviceTyped DEF PublishSent, WebAt, WebThread
  <2>33. CASE PublishSentRaises
    BY <2>33, WebToTyped, DeviceTyped DEF PublishSentRaises, WebAt, Raise
  <2>34. CASE EndTransmit
    BY <2>34, WebToTyped, DeviceTyped
       DEF EndTransmit, WebAt, RestoreListening, ReceiverStates
  <2>35. CASE StopFaultedReceiver
    BY <2>35, WebToTyped, DeviceTyped DEF StopFaultedReceiver, WebAt
  <2>36. CASE EndFaultedTransmit
    BY <2>36, WebToTyped, DeviceTyped
       DEF EndFaultedTransmit, WebAt, ReceiverAt, ReceiverStates
  <2>37. CASE BeginClose
    BY <2>37, WebToTyped, DeviceTyped DEF BeginClose, WebAt, ReceiverStates
  <2>38. CASE JoinBeforeClose
    BY <2>38, WebToTyped, DeviceTyped DEF JoinBeforeClose, WebAt
  <2>39. CASE JoinTimesOut
    BY <2>39, WebToTyped, DeviceTyped DEF JoinTimesOut, WebAt
  <2>43. CASE OpenRadio
    BY <2>43, WebToTyped, DeviceTyped DEF OpenRadio, WebAt, OnlyRadioOpens
  <2>44. CASE OpenRaises
    BY <2>44, WebToTyped, DeviceTyped DEF OpenRaises, WebAt, OnlyRadioOpens, Raise
  <2>45. CASE ServiceRaises
    BY <2>45, WebToTyped, DeviceTyped DEF ServiceRaises, OnlyRadioOpens, Raise
  <2>46. CASE ReopenRadio
    BY <2>46, WebToTyped, DeviceTyped DEF ReopenRadio, WebAt, OnlyRadioOpens
  <2>47. CASE SendRefused
    BY <2>47, WebToTyped, DeviceTyped DEF SendRefused, WebAt
  <2>48. CASE LeaveUnclosed
    BY <2>48, WebToTyped, DeviceTyped DEF LeaveUnclosed
  <2>49. CASE ExitUnopened
    BY <2>49, WebToTyped, DeviceTyped DEF ExitUnopened, WebAt
  <2>40. ASSUME NEW from \in {"close", "exiting"}, NEW to \in {"exiting", "done"},
                from = "close" => to = "exiting", from = "exiting" => to = "done",
                CloseBy(from, to)
         PROVE  TypeInv'
    <3>1. web.pc = from /\ releases \in 0..1 /\ (from = "close" => releases = 0)
      BY <2>40 DEF CloseBy, CloseTransport, CloseAgain, CloseRaises, WebAt, DeviceTypeOK
    <3>2. web' \in WebThread /\ web'.pc = to
      BY <2>40, WebToTyped DEF CloseBy, CloseTransport, CloseAgain, CloseRaises
    <3>3. CASE CloseTransport(from, to)
      BY <2>40, <3>1, <3>2, <3>3, CloseTyped DEF CloseTransport
    <3>4. CASE CloseAgain(from, to)
      BY <2>40, <3>1, <3>2, <3>4, DeviceTyped DEF CloseAgain
    <3>5. CASE CloseRaises(from, to)
      BY <2>40, <3>1, <3>2, <3>5, CloseTyped DEF CloseRaises, Raise
    <3> QED
      BY <2>40, <3>3, <3>4, <3>5 DEF CloseBy
  <2>41. CASE ChipStep
    BY <2>41, DeviceTyped DEF ChipStep
  <2>42. CASE UNCHANGED vars
    BY <2>42, DeviceTyped DEF vars
  <2> QED
    <3>1. CASE ReceiverStep \/ ReceiverRaises
      BY <3>1, <2>1, <2>2, <2>3, <2>4, <2>5, <2>6, <2>7, <2>8, <2>9, <2>10, <2>11,
         <2>12, <2>13, <2>14, <2>15, <2>16, <2>17, <2>18, <2>19
         DEF ReceiverStep, ReceiverRaises
    <3>2. CASE CloseCarrier \/ AtExit
      BY <3>2, <2>40 DEF CloseCarrier, AtExit, CloseBy
    <3>3. CASE WebRequest \/ WebStep \/ WebRaises \/ JoinTimesOut
      BY <3>2, <3>3, <2>20, <2>21, <2>22, <2>23, <2>24, <2>25, <2>26, <2>27, <2>28,
         <2>29, <2>30, <2>31, <2>32, <2>33, <2>34, <2>35, <2>36, <2>37, <2>38, <2>39,
         <2>43, <2>44, <2>45, <2>46, <2>47, <2>48, <2>49
         DEF WebRequest, WebStep, WebRaises
    <3> QED
      BY <3>1, <3>3, <2>41, <2>42 DEF Next, ProcessEnds
<1> QED
  BY <1>1, <1>2, PTL DEF Spec

(* Every state of the capture path has its type; the receiver thread       *)
(* publishes only out of a batch that has a frame in it (_run, whatever    *)
(* became of the stop event meanwhile).                                    *)
THEOREM TypeCorrect == Spec => []TypeOK
<1>1. TypeInv => TypeOK
  BY DEF TypeInv
<1> QED
  BY <1>1, TypeInvariant, PTL

-----------------------------------------------------------------------------
(* The lock, the shutdown and the receiver state. *)

(* The web thread is inside send.                                          *)
WebHolds == web.pc \in {"tx-enter", "tx-wait", "tx-fail", "number", "stamp"}

(* The operation lock is held by the thread that is between its            *)
(* acquisition and its release.                                            *)
LockInv ==
  /\ opLock = "receiver" <=> rx.pc = "locked"
  /\ opLock = "web" <=> WebHolds

(* The radio is set to transmit while the web thread waits for completion, *)
(* and to receive unless a transmission is under way or was broken off.    *)
ModeInv ==
  /\ web.pc = "tx-wait" => pins = TransmitPins
  /\ linesOpen /\ ~modeLost /\ web.pc \notin {"tx-wait", "tx-fail"} => pins = ReceivePins

(* The receiver thread exists from the start of the service to its own     *)
(* end, inside the time the radio is open.  A service that was never       *)
(* started has no receiver to stop and is not closed.                      *)
LifeInv ==
  /\ web.pc \in {"opening", "starting", "unavailable"} => rx.pc = "unstarted"
  /\ rx.pc = "unstarted" => ~thread /\ web.pc \notin {"join", "close-join", "close"}
  /\ ~thread => rx.pc \in {"unstarted", "dead"}
  /\ web.pc = "starting" => linesOpen
  /\ web.pc = "close" => rx.pc = "dead"
  /\ ~linesOpen =>
       \/ rx.pc = "dead" /\ web.pc \in {"exiting", "done"}
       \/ rx.pc = "unstarted" /\ web.pc \in {"opening", "unavailable", "exiting", "done"}

(* A request that found the receiver running knows it and will restore the *)
(* published state; one that did not found no receiver, or a dead one.     *)
StateInv ==
  /\ web.pc \in {"send", "publish", "sent", "failed", "reentry"} \/ WebHolds
       => web.running \/ rx.pc \in {"unstarted", "dead"}
  /\ web.pc = "join" => stop
  /\ web.pc = "idle" /\ ReceiverWorking /\ rx.pc # "begin" => receiverState = "listening"

ControlInv == LockInv /\ ModeInv /\ LifeInv /\ StateInv

(* ControlInv is inductive, given the types: one step for each action of   *)
(* the receiver thread (receiver.py, nrf905_transport.py), of the web      *)
(* thread (service.py), of the shutdown and of the chip.                   *)
LEMMA ControlInvariant == Spec => []ControlInv
<1>1. Init => ControlInv
  BY DEF Init, DeviceInit, ControlInv, LockInv, WebHolds, ModeInv, LifeInv, StateInv
<1>2. TypeInv /\ ControlInv /\ [Next]_vars => ControlInv'
  <2> SUFFICES ASSUME TypeInv, ControlInv, [Next]_vars
               PROVE  ControlInv'
    OBVIOUS
  <2>0. rx \in ReceiverThread /\ web \in WebThread
    BY DEF TypeInv, TypeOK
  <2> USE <2>0 DEF ControlInv, LockInv, WebHolds, ModeInv, LifeInv, StateInv, ReceiverWorking,
          OnlyReceiverMoves, deviceVars, transportVars, lifecycleVars, modelVars, historyVars
  <2>1. CASE ReceiverBegins
    BY <2>1, ReceiverToTyped DEF ReceiverBegins, ReceiverPC, ReceiverAt
  <2>2. CASE LoopHead
    BY <2>2, ReceiverToTyped DEF LoopHead, ReceiverThread, ReceiverPC, ReceiverAt
  <2>3. CASE WaitForFrame
    BY <2>3, ReceiverToTyped, ReceiverCallsTyped DEF WaitForFrame, ReceiverPC, ReceiverAt
  <2>4. CASE Drain
    BY <2>4, ReceiverToTyped, ReceiverCallsTyped DEF Drain, ReceiverPC, ReceiverAt
  <2>5. CASE PollAfterBatch
    BY <2>5, ReceiverToTyped, ReceiverCallsTyped DEF PollAfterBatch, ReceiverPC, ReceiverAt
  <2>6. CASE WaitRaises
    BY <2>6, ReceiverToTyped DEF WaitRaises, ReceiverPC, ReceiverAt
  <2>7. CASE ReceiverLocks
    BY <2>7, ReceiverToTyped DEF ReceiverLocks, LockIsFree, ReceiverPC, ReceiverAt
  <2>8. CASE CaptureNothing
    BY <2>8, ReceiverToTyped
       DEF CaptureNothing, AfterNoFrame, ReceiverThread, ReceiverPC, ReceiverAt
  <2>9. CASE CaptureFrame
    BY <2>9 DEF CaptureFrame, ReadFifo, ReceiverThread, ReceiverPC, ReceiverAt
  <2>10. CASE CaptureRaises
    BY <2>10, ReceiverToTyped DEF CaptureRaises, ReadFifoRaises, ReceiverPC, ReceiverAt
  <2>11. CASE NumberFrame
    BY <2>11 DEF NumberFrame, ReceiverThread, ReceiverPC, ReceiverAt
  <2>12. CASE HandOver
    BY <2>12 DEF HandOver, ReceiverThread, ReceiverPC, ReceiverAt
  <2>13. CASE ConsumeNext
    BY <2>13, ReceiverToTyped DEF ConsumeNext, ReceiverPC, ReceiverAt
  <2>14. CASE PublishReceived
    BY <2>14 DEF PublishReceived, ReceiverThread, ReceiverPC, ReceiverAt
  <2>15. CASE ConsumeRaises
    BY <2>15, ReceiverToTyped DEF ConsumeRaises, ReceiverPC, ReceiverAt
  <2>16. CASE BatchEnds
    BY <2>16, ReceiverToTyped DEF BatchEnds, ReceiverThread, ReceiverPC, ReceiverAt
  <2>17. CASE PublishFault
    BY <2>17 DEF PublishFault, ReceiverThread, ReceiverPC, ReceiverAt
  <2>18. CASE PublishStopped
    BY <2>18, ReceiverToTyped DEF PublishStopped, ReceiverPC, ReceiverAt
  <2>19. CASE ReceiverEnds
    BY <2>19, ReceiverToTyped DEF ReceiverEnds, ReceiverPC, ReceiverAt
  <2>20. CASE StartService
    BY <2>20, WebToTyped, ReceiverToTyped
       DEF StartService, WebPC, WebAt, ReceiverPC, ReceiverAt
  <2>21. CASE BeginTransmit
    BY <2>21, WebToTyped DEF BeginTransmit, Running, WebThread, WebPC, WebAt
  <2>22. CASE SendLocks
    BY <2>22, WebToTyped DEF SendLocks, LockIsFree, WebPC, WebAt
  <2>23. CASE PulseTransmit
    BY <2>23, WebToTyped DEF PulseTransmit, StartTransmission, WebPC, WebAt, OnlyRadioAndWeb
  <2>24. CASE PulseRaises
    BY <2>24, WebToTyped
       DEF PulseRaises, StartTransmissionRaises, WebPC, WebAt, OnlyRadioAndWeb
  <2>25. CASE SeeCompletion
    BY <2>25, WebToTyped
       DEF SeeCompletion, EnterReceiveMode, SwitchPins, WebPC, WebAt, OnlyRadioAndWeb
  <2>26. CASE ReturnRaises
    BY <2>26, WebToTyped DEF ReturnRaises, ReceiveModeRaises, WebPC, WebAt, OnlyRadioAndWeb
  <2>27. CASE CompletionTimeout
    BY <2>27, WebToTyped DEF CompletionTimeout, WebPC, WebAt, OnlyRadioAndWeb
  <2>28. CASE CleanUp
    BY <2>28, WebToTyped DEF CleanUp, EnterReceiveMode, SwitchPins, WebPC, WebAt
  <2>29. CASE CleanUpRaises
    BY <2>29, WebToTyped DEF CleanUpRaises, ReceiveModeRaises, WebPC, WebAt
  <2>30. CASE NumberSent
    BY <2>30, WebToTyped DEF NumberSent, WebThread, WebPC, WebAt
  <2>31. CASE SendReturns
    BY <2>31, WebToTyped DEF SendReturns, WebPC, WebAt
  <2>32. CASE PublishSent
    BY <2>32, WebToTyped DEF PublishSent, WebPC, WebAt
  <2>33. CASE PublishSentRaises
    BY <2>33, WebToTyped DEF PublishSentRaises, WebPC, WebAt
  <2>34. CASE EndTransmit
    BY <2>34, WebToTyped DEF EndTransmit, RestoreListening, WebPC, WebAt
  <2>35. CASE StopFaultedReceiver
    BY <2>35, WebToTyped DEF StopFaultedReceiver, Running, WebPC, WebAt
  <2>36. CASE EndFaultedTransmit
    <3>1. CASE WebAt("reentry")
      BY <2>36, <3>1, WebToTyped DEF EndFaultedTransmit, Running, WebPC, WebAt
    <3>2. CASE WebAt("join") /\ thread' = (thread /\ ~ReceiverAt("dead"))
      <4>1. rx.pc # "unstarted" /\ stop
        BY <3>2 DEF WebAt
      <4>2. web' \in WebThread /\ web'.pc = "idle" /\ UNCHANGED <<rx, stop, opLock>>
        BY <2>36, WebToTyped DEF EndFaultedTransmit, WebPC
      <4>3. LifeInv'
        BY <2>36, <3>2, <4>1, <4>2 DEF EndFaultedTransmit, WebAt, ReceiverAt
      <4> QED
        BY <2>36, <3>2, <4>1, <4>2, <4>3 DEF EndFaultedTransmit, WebAt
    <3> QED
      BY <2>36, <3>1, <3>2 DEF EndFaultedTransmit
  <2>37. CASE BeginClose
    BY <2>37, WebToTyped DEF BeginClose, WebPC, WebAt, ReceiverAt
  <2>38. CASE JoinBeforeClose
    BY <2>38, WebToTyped
       DEF JoinBeforeClose, ReceiverJoined, WebPC, WebAt, ReceiverPC, ReceiverAt
  <2>39. CASE JoinTimesOut
    BY <2>39, WebToTyped DEF JoinTimesOut, WebPC, WebAt, ReceiverAt
  <2>43. CASE OpenRadio
    BY <2>43, WebToTyped DEF OpenRadio, OpenDevice, WebPC, WebAt, OnlyRadioOpens
  <2>44. CASE OpenRaises
    BY <2>44, WebToTyped DEF OpenRaises, OpenDeviceRaises, WebPC, WebAt, OnlyRadioOpens
  <2>45. CASE ServiceRaises
    BY <2>45, WebToTyped DEF ServiceRaises, OpenDevice, WebPC, OnlyRadioOpens
  <2>46. CASE ReopenRadio
    BY <2>46, WebToTyped DEF ReopenRadio, OpenDevice, WebPC, WebAt, OnlyRadioOpens
  <2>47. CASE SendRefused
    BY <2>47, WebToTyped DEF SendRefused, WebPC, WebAt
  <2>48. CASE LeaveUnclosed
    BY <2>48, WebToTyped DEF LeaveUnclosed, WebPC, ReceiverAt
  <2>49. CASE ExitUnopened
    BY <2>49, WebToTyped DEF ExitUnopened, NeverOpened, WebPC, WebAt, ReceiverAt
  <2>40. ASSUME NEW from \in {"close", "exiting"}, NEW to \in {"exiting", "done"},
                from = "close" => to = "exiting", from = "exiting" => to = "done",
                rx.pc \in {"unstarted", "dead"}, CloseBy(from, to)
         PROVE  ControlInv'
    <3>1. web' \in WebThread /\ web'.pc = to /\ web.pc = from
      BY <2>40, WebToTyped
         DEF CloseBy, CloseTransport, CloseAgain, CloseRaises, WebPC, WebAt
    <3> QED
      BY <2>40, <3>1 DEF CloseBy, CloseTransport, CloseAgain, CloseRaises, CloseDevice,
                         CloseDeviceRaises
  <2>41. CASE ChipStep
    BY <2>41 DEF ChipStep, FrameArrives, TransmissionEnds
  <2>42. CASE UNCHANGED vars
    BY <2>42 DEF vars
  <2> QED
    <3>1. CASE ReceiverStep \/ ReceiverRaises
      BY <3>1, <2>1, <2>2, <2>3, <2>4, <2>5, <2>6, <2>7, <2>8, <2>9, <2>10, <2>11,
         <2>12, <2>13, <2>14, <2>15, <2>16, <2>17, <2>18, <2>19
         DEF ReceiverStep, ReceiverRaises
    <3>2. CASE CloseCarrier
      <4>1. rx.pc = "dead"
        BY <3>2 DEF CloseCarrier, CloseTransport, CloseRaises, WebAt
      <4> QED
        BY <3>2, <4>1, <2>40 DEF CloseCarrier, CloseBy
    <3>3. CASE AtExit
      BY <3>3, <2>40 DEF AtExit
    <3>4. CASE WebRequest \/ WebStep \/ WebRaises \/ JoinTimesOut
      BY <3>2, <3>3, <3>4, <2>20, <2>21, <2>22, <2>23, <2>24, <2>25, <2>26, <2>27,
         <2>28, <2>29, <2>30, <2>31, <2>32, <2>33, <2>34, <2>35, <2>36, <2>37,
         <2>38, <2>39, <2>43, <2>44, <2>45, <2>46, <2>47, <2>48, <2>49 DEF WebRequest, WebStep, WebRaises
    <3> QED
      BY <3>1, <3>4, <2>41, <2>42 DEF Next, ProcessEnds
<1> QED
  BY <1>1, <1>2, TypeInvariant, PTL DEF Spec

(* Whenever the operation lock is free, the radio listens, unless the      *)
(* driver reported that it could not get back to receive mode.             *)
THEOREM ModeRestored == Spec => []ReceiveModeRestored
<1>1. ControlInv => ReceiveModeRestored
  BY DEF ControlInv, LockInv, WebHolds, ModeInv, ReceiveModeRestored, LockIsFree
<1> QED
  BY <1>1, ControlInvariant, PTL

(* The receiver thread, awake because DR rose, leaves the radio alone    *)
(* while the web thread waits for the completion of a transmission.        *)
THEOREM TransmissionUndisturbed == Spec => []TransmitUndisturbed
<1>1. ControlInv => TransmitUndisturbed
  BY DEF ControlInv, ModeInv, TransmitUndisturbed, WebAt
<1> QED
  BY <1>1, ControlInvariant, PTL

(* The receiver thread runs only while GPIO and SPI are open: after every  *)
(* failed startup, and when its join timed out and atexit closes the       *)
(* carrier.                                                                *)
THEOREM ReceiverEndsFirst == Spec => []HardwareOutlivesReceiver
<1>1. ControlInv => HardwareOutlivesReceiver
  BY DEF ControlInv, LifeInv, HardwareOutlivesReceiver
<1> QED
  BY <1>1, ControlInvariant, PTL

(* Between requests a working receiver is published as listening, however  *)
(* the last transmission ended.                                            *)
THEOREM ListeningRestored == Spec => []StateMatchesReceiver
<1>1. ControlInv => StateMatchesReceiver
  BY DEF ControlInv, StateInv, StateMatchesReceiver, ReceiverAt, WebAt
<1> QED
  BY <1>1, ControlInvariant, PTL

=============================================================================
