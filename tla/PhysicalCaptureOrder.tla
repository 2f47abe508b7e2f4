------------------------ MODULE PhysicalCaptureOrder ------------------------
(***************************************************************************)
(* The frames' way through module PhysicalCapture, for every number of     *)
(* frames, requests and faults: from the chip, whose DR line also rises    *)
(* for transmissions, to the transport, and from there, by way of the      *)
(* batch and the pending list, to the published log.  The module           *)
(* CaptureLog says what a reader of the log may rely on; its safety part   *)
(* is shown to be implemented.                                             *)
(***************************************************************************)
EXTENDS PhysicalCaptureSafety, SequenceTheorems

-----------------------------------------------------------------------------
(* From the chip to the transport. *)

(* A transmission whose completion was seen had finished, or could not be  *)
(* told from one (air = "masked"); while the web thread waits, DR is not   *)
(* high on account of a transmission that goes on.                         *)
SendInv ==
  /\ web.pc = "tx-wait" => air \in {"sending", "masked", "done"} /\ (dataReady => air # "sending")
  /\ web.pc \in {"number", "stamp", "publish"} => air \in {"masked", "done"}

(* The FIFO holds the frame accepted last.  A radio that is opened, anew   *)
(* or after a failure, was not left in transmit mode.                      *)
ChipInv ==
  /\ fifo = heard
  /\ web.pc \in {"opening", "unavailable"} => ~pins.tx_en

(* A frame is in hand from its read to its hand-over.                      *)
InHand == rx.pc \in {"number", "stamp"}

AllBefore(n) == \A i \in DOMAIN captured : captured[i].frame < n

(* Outside transmit mode DR announces a frame that was not read: it comes  *)
(* after the frame in hand, which comes after all that were handed over.   *)
FreshInv ==
  /\ \A i \in DOMAIN captured : captured[i].frame \in 1..heard
  /\ \A i, j \in DOMAIN captured : i < j => captured[i].frame < captured[j].frame
  /\ InHand => rx.hand \in 1..heard /\ AllBefore(rx.hand)
  /\ dataReady /\ ~pins.tx_en =>
       heard > 0 /\ AllBefore(heard) /\ (InHand => rx.hand < heard)

FrameInv == SendInv /\ ChipInv /\ (~modeLost => FreshInv)

(* The chip accepts no frame and DR announces none that it did not before. *)
Quiet ==
  /\ fifo' = fifo /\ heard' = heard
  /\ dataReady' /\ ~pins'.tx_en => dataReady /\ ~pins.tx_en

(* Whatever pins are switched, DR does not start to announce a frame:      *)
(* TX_EN falling clears it.                                                *)
LEMMA SwitchIsQuiet ==
  ASSUME DeviceTypeOK, NEW p \in Pins, SwitchPins(p)
  PROVE  dataReady' /\ ~pins'.tx_en => dataReady /\ ~pins.tx_en
  BY DEF DeviceTypeOK, Pins, SwitchPins

(* The end of a transmission and the driver's operations, complete or cut  *)
(* short, announce no frame: DR raised by a completed transmission falls   *)
(* with TX_EN.                                                             *)
LEMMA DeviceIsQuiet ==
  ASSUME DeviceTypeOK,
         \/ TransmissionEnds
         \/ ~pins.tx_en /\ (OpenDevice \/ OpenDeviceRaises)
         \/ EnterReceiveMode \/ ReceiveModeRaises
         \/ StartTransmission \/ StartTransmissionRaises
         \/ ReadFifo
         \/ CloseDevice \/ CloseDeviceRaises
         \/ UNCHANGED deviceVars
  PROVE  Quiet
<1> USE DEF Quiet
<1>0. pins \in Pins
  BY DEF DeviceTypeOK
<1>1. CASE TransmissionEnds
  BY <1>1 DEF TransmissionEnds
<1>2. CASE ~pins.tx_en /\ (OpenDevice \/ OpenDeviceRaises)
  <2>1. dataReady' => dataReady
    BY <1>2, Zenon DEF OpenDevice, OpenDeviceRaises
  <2>2. fifo' = fifo /\ heard' = heard
    BY <1>2 DEF OpenDevice, OpenDeviceRaises
  <2> QED
    BY <1>2, <2>1, <2>2
<1>3. CASE EnterReceiveMode
  BY <1>3, PinSettings, SwitchIsQuiet DEF EnterReceiveMode
<1>4. CASE ReceiveModeRaises
  <2>1. PICK p \in PartialReceiveMode(pins) : SwitchPins(p)
    BY <1>4 DEF ReceiveModeRaises
  <2>2. p \in Pins
    BY <1>0, <2>1, PinSettings
  <2> QED
    BY <1>4, <2>1, <2>2, SwitchIsQuiet DEF ReceiveModeRaises
<1>5. CASE StartTransmission
  BY <1>5 DEF StartTransmission, TransmitPins
<1>6. CASE StartTransmissionRaises
  <2>1. pins.tx_en => pins'.tx_en
    BY <1>0, <1>6 DEF StartTransmissionRaises, PartialTransmit, Pins
  <2>2. dataReady' => dataReady
    BY <1>6, Zenon DEF StartTransmissionRaises
  <2>3. fifo' = fifo /\ heard' = heard
    BY <1>6 DEF StartTransmissionRaises
  <2> QED
    BY <2>1, <2>2, <2>3
<1>7. CASE ReadFifo
  BY <1>7 DEF ReadFifo
<1>8. CASE CloseDevice
  BY <1>8, PinSettings, SwitchIsQuiet DEF CloseDevice
<1>9. CASE CloseDeviceRaises
  <2>1. CASE linesOpen
    <3>1. PICK p \in PartialStandby(pins) : SwitchPins(p)
      BY <1>9, <2>1 DEF CloseDeviceRaises
    <3>2. p \in Pins
      BY <1>0, <3>1, PinSettings
    <3> QED
      BY <1>9, <3>1, <3>2, SwitchIsQuiet DEF CloseDeviceRaises
  <2> QED
    BY <1>9, <2>1 DEF CloseDeviceRaises
<1>10. CASE UNCHANGED deviceVars
  BY <1>10 DEF deviceVars
<1> QED
  BY <1>1, <1>2, <1>3, <1>4, <1>5, <1>6, <1>7, <1>8, <1>9, <1>10

(* Then, without a new frame in hand, the frames stay in order.            *)
LEMMA QuietKeepsFresh ==
  ASSUME FreshInv, Quiet, captured' = captured, InHand' => InHand /\ rx'.hand = rx.hand
  PROVE  FreshInv'
  BY DEF FreshInv, Quiet, AllBefore

(* Only the read of the FIFO, the hand-over and the arrival of a frame     *)
(* move a frame, and each keeps them in order.                             *)
LEMMA FreshKept ==
  ASSUME TypeInv, ControlInv, FrameInv, [Next]_vars, ~modeLost'
  PROVE  FreshInv'
<1>0. /\ rx \in ReceiverThread /\ DeviceTypeOK /\ pins \in Pins
      /\ captured \in Seq(CarrierFrames) /\ heard \in Nat
  BY MaxFramesAssumption DEF TypeInv, TypeOK, DeviceTypeOK
<1> USE <1>0 DEF OnlyReceiverMoves, lifecycleVars, modelVars, historyVars
<1>1. ASSUME modeLost' = modeLost, Quiet, captured' = captured,
             InHand' => InHand /\ rx'.hand = rx.hand
      PROVE  FreshInv'
  BY <1>1, QuietKeepsFresh DEF FrameInv
<1>2. ASSUME UNCHANGED <<deviceVars, captured, modeLost>>,
             InHand' => InHand /\ rx'.hand = rx.hand
      PROVE  FreshInv'
  BY <1>1, <1>2, DeviceIsQuiet
<1>3. CASE NumberFrame
  BY <1>2, <1>3 DEF NumberFrame, InHand, ReceiverAt, ReceiverThread
<1>4. ASSUME NEW pc \in ReceiverPC \ {"number", "stamp"},
             UNCHANGED <<deviceVars, captured, modeLost>>, rx'.pc = pc
      PROVE  FreshInv'
  BY <1>2, <1>4 DEF InHand
<1>5. CASE \/ ReceiverBegins \/ LoopHead \/ WaitForFrame \/ Drain \/ PollAfterBatch
           \/ ReceiverLocks \/ ConsumeNext \/ PublishReceived \/ BatchEnds \/ PublishFault
           \/ PublishStopped \/ ReceiverEnds \/ WaitRaises \/ ConsumeRaises
  <2>1. /\ UNCHANGED <<deviceVars, captured, modeLost>>
        /\ rx'.pc \in {"loop", "exit", "drain", "wait", "lock", "consume", "locked", "publish",
                       "after", "ending", "dead", "fault"}
    BY <1>5
       DEF ReceiverBegins, LoopHead, WaitForFrame, Drain, PollAfterBatch, ReceiverLocks,
           ConsumeNext, PublishReceived, BatchEnds, PublishFault, PublishStopped,
           ReceiverEnds, WaitRaises, ConsumeRaises, ReceiverTo, ReceiverCalls, ReceiverThread
  <2> QED
    BY <1>4, <2>1 DEF ReceiverPC
<1>6. CASE CaptureNothing
  <2>1. rx'.pc \in {"wait", "consume", "loop"}
    BY <1>6 DEF CaptureNothing, AfterNoFrame, ReceiverTo, ReceiverThread
  <2> QED
    BY <1>4, <1>6, <2>1 DEF CaptureNothing, ReceiverPC
<1>7. CASE CaptureFrame
  <2>1. dataReady /\ rx.pc = "locked" /\ pins' = ReceivePins /\ ~dataReady'
    BY <1>7 DEF CaptureFrame, NothingToRead, ReadFifo, ReceiverAt
  <2>2. captured' = captured /\ heard' = heard /\ modeLost' = modeLost
        /\ rx'.hand = heard
    BY <1>7 DEF CaptureFrame, ReadFifo, ReceiverThread, FrameInv, ChipInv
  <2>3. ~pins.tx_en
    <3>1. web.pc \notin {"tx-wait", "tx-fail"} /\ linesOpen
      BY <2>1 DEF ControlInv, LockInv, WebHolds, LifeInv
    <3> QED
      BY <2>2, <3>1 DEF ControlInv, ModeInv, ReceivePins
  <2>4. FreshInv
    BY <2>2 DEF FrameInv
  <2> QED
    BY <2>1, <2>2, <2>3, <2>4 DEF FreshInv, AllBefore
<1>8. CASE CaptureRaises
  BY <1>8 DEF CaptureRaises
<1>9. CASE HandOver
  <2> DEFINE item == [frame |-> rx.hand, sequence |-> rx.number]
             n == Len(captured)
  <2>1. /\ InHand /\ ~InHand'
        /\ UNCHANGED <<deviceVars, modeLost>> /\ captured' = Append(captured, item)
    BY <1>9 DEF HandOver, InHand, ReceiverAt, ReceiverThread
  <2>2. FreshInv
    BY <2>1 DEF FrameInv
  <2>3. /\ DOMAIN captured = 1..n /\ DOMAIN captured' = 1..(n + 1) /\ n \in Nat
        /\ \A i \in 1..n : captured'[i] = captured[i]
        /\ captured'[n + 1].frame = rx.hand
    <3>1. item \in CarrierFrames /\ item.frame = rx.hand
      BY DEF ReceiverThread, CarrierFrames
    <3> HIDE DEF item
    <3> QED
      BY <2>1, <3>1
  <2> HIDE DEF n
  <2>4. \A i \in DOMAIN captured' :
          /\ captured'[i].frame \in 1..heard
          /\ i # n + 1 => captured'[i].frame < rx.hand
          /\ captured'[i].frame <= rx.hand
    BY <2>1, <2>2, <2>3 DEF FreshInv, AllBefore
  <2>5. \A i, j \in DOMAIN captured' : i < j => captured'[i].frame < captured'[j].frame
    BY <2>2, <2>3, <2>4 DEF FreshInv
  <2>6. dataReady' /\ ~pins'.tx_en => heard' > 0 /\ AllBefore(heard)'
    BY <2>1, <2>2, <2>4 DEF FreshInv, AllBefore, deviceVars
  <2> QED
    BY <2>1, <2>4, <2>5, <2>6 DEF FreshInv, deviceVars
<1>10. CASE ChipStep
  <2>1. CASE TransmissionEnds
    BY <1>1, <1>10, <2>1, DeviceIsQuiet DEF ChipStep, InHand
  <2>2. CASE FrameArrives
    <3>1. /\ heard' = heard + 1
          /\ captured' = captured /\ rx' = rx /\ modeLost' = modeLost
      BY <1>10, <2>2 DEF ChipStep, FrameArrives
    <3>2. FreshInv
      BY <3>1 DEF FrameInv
    <3> QED
      BY <3>1, <3>2 DEF FreshInv, AllBefore, InHand
  <2> QED
    BY <1>10, <2>1, <2>2 DEF ChipStep
<1>11. ASSUME UNCHANGED <<rx, captured>>, modeLost' = modeLost,
              \/ ~pins.tx_en /\ (OpenDevice \/ OpenDeviceRaises)
              \/ EnterReceiveMode \/ ReceiveModeRaises
              \/ StartTransmission \/ StartTransmissionRaises
              \/ CloseDevice \/ CloseDeviceRaises
              \/ UNCHANGED deviceVars
       PROVE  FreshInv'
  BY <1>1, <1>11, DeviceIsQuiet DEF InHand
<1>12. CASE StartService
  BY <1>4, <1>12 DEF StartService, ReceiverTo, ReceiverThread, ReceiverPC
<1>13. CASE OpenRadio \/ OpenRaises \/ ServiceRaises \/ ReopenRadio
  <2>1. ~pins.tx_en
    BY <1>13 DEF FrameInv, ChipInv, OpenRadio, OpenRaises, ServiceRaises, ReopenRadio, WebAt
  <2> QED
    BY <1>11, <1>13, <2>1
       DEF OpenRadio, OpenRaises, ServiceRaises, ReopenRadio, OnlyRadioOpens
<1>14. CASE \/ PulseTransmit \/ PulseRaises \/ SeeCompletion \/ ReturnRaises
            \/ CompletionTimeout \/ CleanUp
  BY <1>11, <1>14 DEF PulseTransmit, PulseRaises, SeeCompletion, ReturnRaises,
     CompletionTimeout, CleanUp, OnlyRadioAndWeb
<1>15. CASE CleanUpRaises
  BY <1>15 DEF CleanUpRaises
<1>16. CASE CloseCarrier \/ AtExit
  BY <1>11, <1>16
     DEF CloseCarrier, AtExit, CloseBy, CloseTransport, CloseAgain, CloseRaises
<1>17. CASE \/ BeginTransmit \/ BeginClose \/ LeaveUnclosed \/ SendLocks \/ SendRefused
            \/ NumberSent \/ SendReturns \/ PublishSent \/ PublishSentRaises \/ EndTransmit
            \/ StopFaultedReceiver \/ EndFaultedTransmit \/ JoinBeforeClose \/ JoinTimesOut
            \/ ExitUnopened
  BY <1>11, <1>17
     DEF BeginTransmit, BeginClose, LeaveUnclosed, SendLocks, SendRefused, NumberSent,
         SendReturns, PublishSent, PublishSentRaises, EndTransmit, StopFaultedReceiver,
         EndFaultedTransmit, JoinBeforeClose, JoinTimesOut, ExitUnopened
<1>18. CASE UNCHANGED vars
  BY <1>11, <1>18 DEF vars
<1> QED
  <2>1. CASE ReceiverStep \/ ReceiverRaises
    BY <1>3, <1>5, <1>6, <1>7, <1>8, <1>9, <2>1 DEF ReceiverStep, ReceiverRaises
  <2>2. CASE WebRequest \/ WebStep \/ WebRaises \/ JoinTimesOut
    BY <1>12, <1>13, <1>14, <1>15, <1>16, <1>17, <2>2 DEF WebRequest, WebStep, WebRaises
  <2> QED
    BY <1>10, <1>18, <2>1, <2>2 DEF Next, ProcessEnds

(* The FIFO holds the frame that came last, and every radio that is opened *)
(* was out of transmit mode.                                               *)
LEMMA ChipKept ==
  ASSUME TypeInv, ControlInv, ChipInv, [Next]_vars
  PROVE  ChipInv'
<1>0. web \in WebThread /\ DeviceTypeOK /\ pins \in Pins
  BY DEF TypeInv, TypeOK, DeviceTypeOK
<1> USE <1>0 DEF ChipInv
<1>1. ASSUME UNCHANGED <<fifo, heard>>, web'.pc \notin {"opening", "unavailable"}
      PROVE  ChipInv'
  BY <1>1
<1>2. ASSUME UNCHANGED <<fifo, heard, pins, web>>
      PROVE  ChipInv'
  BY <1>2
<1>3. CASE OpenRaises \/ ServiceRaises
  <2>1. \A p \in {PoweredDown, [PoweredDown EXCEPT !.pwr_up = TRUE], ReceivePins} : ~p.tx_en
    BY DEF PoweredDown, ReceivePins
  <2>2. /\ UNCHANGED <<fifo, heard>>
        /\ pins' \in {PoweredDown, [PoweredDown EXCEPT !.pwr_up = TRUE], ReceivePins}
    BY <1>3 DEF OpenRaises, ServiceRaises, OpenDevice, OpenDeviceRaises
  <2> QED
    BY <2>1, <2>2
<1>4. CASE OpenRadio \/ ReopenRadio
  BY <1>1, <1>4 DEF OpenRadio, ReopenRadio, OpenDevice, WebTo, WebThread
<1>5. CASE ReceiverStep \/ ReceiverRaises
  <2>1. UNCHANGED <<fifo, heard, web>>
    BY <1>5
       DEF ReceiverStep, ReceiverRaises, OnlyReceiverMoves, deviceVars, ReceiverBegins,
           LoopHead, WaitForFrame, Drain, PollAfterBatch, ReceiverLocks, CaptureNothing,
           CaptureFrame, NumberFrame, HandOver, ConsumeNext, PublishReceived, BatchEnds,
           PublishFault, PublishStopped, ReceiverEnds, WaitRaises, CaptureRaises,
           ConsumeRaises, ReadFifo, ReadFifoRaises
  <2>2. UNCHANGED pins \/ pins' = ReceivePins \/ rx.pc = "locked"
    BY <1>5
       DEF ReceiverStep, ReceiverRaises, OnlyReceiverMoves, deviceVars, ReceiverBegins,
           LoopHead, WaitForFrame, Drain, PollAfterBatch, ReceiverLocks, CaptureNothing,
           CaptureFrame, NumberFrame, HandOver, ConsumeNext, PublishReceived, BatchEnds,
           PublishFault, PublishStopped, ReceiverEnds, WaitRaises, CaptureRaises,
           ConsumeRaises, ReadFifo, ReadFifoRaises, ReceiverAt
  <2>3. rx.pc = "locked" => web.pc \notin {"opening", "unavailable"}
    BY DEF ControlInv, LifeInv
  <2> QED
    BY <2>1, <2>2, <2>3 DEF ReceivePins
<1>6. CASE WebRequest \/ WebStep \/ WebRaises \/ JoinTimesOut
  <2>1. CASE CloseCarrier \/ AtExit
    BY <1>1, <2>1
       DEF CloseCarrier, AtExit, CloseBy, CloseTransport, CloseAgain, CloseRaises,
           CloseDevice, CloseDeviceRaises, deviceVars, WebTo, WebThread
  <2>2. CASE \/ PulseTransmit \/ PulseRaises \/ SeeCompletion \/ ReturnRaises
             \/ CompletionTimeout \/ CleanUp \/ CleanUpRaises
    BY <1>1, <2>2
       DEF PulseTransmit, PulseRaises, SeeCompletion, ReturnRaises, CompletionTimeout,
           CleanUp, CleanUpRaises, StartTransmission, StartTransmissionRaises,
           EnterReceiveMode, ReceiveModeRaises, deviceVars, WebTo, WebThread
  <2>3. CASE \/ BeginTransmit \/ BeginClose \/ LeaveUnclosed \/ SendLocks \/ SendRefused
             \/ NumberSent \/ SendReturns \/ PublishSent \/ PublishSentRaises \/ EndTransmit
             \/ StopFaultedReceiver \/ EndFaultedTransmit \/ JoinBeforeClose \/ JoinTimesOut
             \/ ExitUnopened \/ StartService
    BY <1>1, <2>3
       DEF BeginTransmit, BeginClose, LeaveUnclosed, SendLocks, SendRefused, NumberSent,
           SendReturns, PublishSent, PublishSentRaises, EndTransmit, StopFaultedReceiver,
           EndFaultedTransmit, JoinBeforeClose, JoinTimesOut, ExitUnopened, StartService,
           deviceVars, WebTo, WebThread
  <2> QED
    BY <1>3, <1>4, <1>6, <2>1, <2>2, <2>3 DEF WebRequest, WebStep, WebRaises
<1>7. CASE ChipStep
  BY <1>7 DEF ChipStep, FrameArrives, TransmissionEnds, ReceivePins
<1>8. CASE UNCHANGED vars
  BY <1>2, <1>8 DEF vars, deviceVars
<1> QED
  BY <1>5, <1>6, <1>7, <1>8 DEF Next, ProcessEnds

(* A completion is seen with DR high, which a transmission that goes on    *)
(* does not raise.                                                         *)
LEMMA SendKept ==
  ASSUME TypeInv, ControlInv, SendInv, [Next]_vars
  PROVE  SendInv'
<1>0. web \in WebThread /\ DeviceTypeOK
  BY DEF TypeInv, TypeOK
<1> USE <1>0 DEF SendInv
<1>1. ASSUME UNCHANGED <<web, air>>, dataReady' => dataReady
      PROVE  SendInv'
  BY <1>1
<1>2. ASSUME web'.pc \notin {"tx-wait", "number", "stamp", "publish"}
      PROVE  SendInv'
  BY <1>2
<1>3. CASE ReceiverStep \/ ReceiverRaises
  <2>1. UNCHANGED <<web, air>>
    BY <1>3
       DEF ReceiverStep, ReceiverRaises, OnlyReceiverMoves, deviceVars, ReceiverBegins,
           LoopHead, WaitForFrame, Drain, PollAfterBatch, ReceiverLocks, CaptureNothing,
           CaptureFrame, NumberFrame, HandOver, ConsumeNext, PublishReceived, BatchEnds,
           PublishFault, PublishStopped, ReceiverEnds, WaitRaises, CaptureRaises,
           ConsumeRaises, ReadFifo, ReadFifoRaises
  <2>2. dataReady' = dataReady \/ dataReady' = FALSE
    BY <1>3
       DEF ReceiverStep, ReceiverRaises, OnlyReceiverMoves, deviceVars, ReceiverBegins,
           LoopHead, WaitForFrame, Drain, PollAfterBatch, ReceiverLocks, CaptureNothing,
           CaptureFrame, NumberFrame, HandOver, ConsumeNext, PublishReceived, BatchEnds,
           PublishFault, PublishStopped, ReceiverEnds, WaitRaises, CaptureRaises,
           ConsumeRaises, ReadFifo, ReadFifoRaises
  <2> QED
    BY <1>1, <2>1, <2>2
<1>4. CASE PulseTransmit
  BY <1>4 DEF PulseTransmit, StartTransmission, WebTo, WebThread
<1>5. CASE SeeCompletion
  <2>1. dataReady /\ web.pc = "tx-wait" /\ web'.pc = "number"
    BY <1>5 DEF SeeCompletion, WebAt, WebTo, WebThread
  <2>2. air' = air
    BY <1>5, <2>1 DEF SeeCompletion, EnterReceiveMode, SwitchPins
  <2> QED
    BY <2>1, <2>2
<1>6. CASE NumberSent \/ SendReturns
  BY <1>6 DEF NumberSent, SendReturns, deviceVars, WebAt, WebTo, WebThread
<1>7. CASE \/ PulseRaises \/ ReturnRaises \/ CompletionTimeout \/ CleanUp \/ CleanUpRaises
           \/ OpenRadio \/ OpenRaises \/ ServiceRaises \/ ReopenRadio
  BY <1>2, <1>7
     DEF PulseRaises, ReturnRaises, CompletionTimeout, CleanUp, CleanUpRaises, OpenRadio,
         OpenRaises, ServiceRaises, ReopenRadio, WebTo, WebThread
<1>8. CASE CloseCarrier \/ AtExit
  BY <1>2, <1>8
     DEF CloseCarrier, AtExit, CloseBy, CloseTransport, CloseAgain, CloseRaises, WebTo,
         WebThread
<1>9. CASE \/ BeginTransmit \/ BeginClose \/ LeaveUnclosed \/ SendLocks \/ SendRefused
           \/ PublishSent \/ PublishSentRaises \/ EndTransmit
           \/ StopFaultedReceiver \/ EndFaultedTransmit \/ JoinBeforeClose \/ JoinTimesOut
           \/ ExitUnopened \/ StartService
  BY <1>2, <1>9
     DEF BeginTransmit, BeginClose, LeaveUnclosed, SendLocks, SendRefused, PublishSent,
         PublishSentRaises, EndTransmit, StopFaultedReceiver, EndFaultedTransmit,
         JoinBeforeClose, JoinTimesOut, ExitUnopened, StartService, WebTo, WebThread
<1>10. CASE ChipStep
  <2>1. CASE FrameArrives
    <3>1. web.pc # "tx-wait"
      BY <2>1 DEF FrameArrives, ControlInv, ModeInv, ReceivePins, TransmitPins
    <3> QED
      BY <1>10, <2>1, <3>1 DEF ChipStep, FrameArrives
  <2>2. CASE TransmissionEnds
    BY <1>10, <2>2 DEF ChipStep, TransmissionEnds
  <2> QED
    BY <1>10, <2>1, <2>2 DEF ChipStep
<1>11. CASE UNCHANGED vars
  BY <1>1, <1>11 DEF vars, deviceVars
<1> QED
  <2>1. CASE WebRequest \/ WebStep \/ WebRaises \/ JoinTimesOut
    BY <1>4, <1>5, <1>6, <1>7, <1>8, <1>9, <2>1 DEF WebRequest, WebStep, WebRaises
  <2> QED
    BY <1>3, <1>10, <1>11, <2>1 DEF Next, ProcessEnds

(* modeLost stays once it is set.                                          *)
LEMMA FrameInvariant == Spec => []FrameInv
<1>1. Init => FrameInv
  BY DEF Init, DeviceInit, FrameInv, SendInv, ChipInv, FreshInv, InHand, AllBefore,
         PoweredDown
<1>2. TypeInv /\ ControlInv /\ FrameInv /\ [Next]_vars => FrameInv'
  BY FreshKept, ChipKept, SendKept DEF FrameInv
<1> QED
  BY <1>1, <1>2, TypeInvariant, ControlInvariant, PTL DEF Spec

(* Each frame the chip accepted reaches the receiver at most once and in   *)
(* order, as long as the driver gets back to receive mode: DR raised by a  *)
(* completed transmission is never taken for a frame (_capture_after_wait, *)
(* _receive_mode).                                                         *)
THEOREM CapturedCorrectly == Spec => []CapturedOnceInOrder
<1>1. FrameInv => CapturedOnceInOrder
  BY DEF FrameInv, FreshInv, CapturedOnceInOrder
<1> QED
  BY <1>1, FrameInvariant, PTL

(* No transmission that the chip had to give up is reported as sent (the   *)
(* completion loop of transmit).                                           *)
THEOREM SentFinished == Spec => []SentWasFinished
<1>1. FrameInv => SentWasFinished
  BY DEF FrameInv, SendInv, SentWasFinished, WebAt
<1> QED
  BY <1>1, FrameInvariant, PTL

-----------------------------------------------------------------------------
(* From the transport to the log. *)

(* What was captured is published, in the batch or pending, until a stop   *)
(* or a fault drops the rest; the pending list is in use at the loop head  *)
(* only, and a batch is not extended by the calls that look for the next   *)
(* one.                                                                    *)
OrderInv ==
  /\ \/ rx.pc \in {"fault", "ending", "dead"}
     \/ rx.pc \in {"loop", "exit"} /\ stop
     \/ captured = receivedLog \o rx.batch \o rx.pending
  /\ rx.pending # <<>> => rx.pc \in {"loop", "exit", "ending", "dead"}
  /\ rx.batch # <<>> =>
       \/ rx.pc \in {"drain", "consume", "publish", "fault", "ending", "dead"}
       \/ rx.pc \in {"lock", "locked", "number", "stamp"} /\ rx.call = "drain"

(* Publishing the first frame of a batch moves it from the batch to the    *)
(* log.                                                                    *)
LEMMA HeadMoves ==
  ASSUME NEW log \in Seq(CarrierFrames), NEW batch \in Seq(CarrierFrames),
         NEW pending \in Seq(CarrierFrames), batch # <<>>
  PROVE  Append(log, Head(batch)) \o Tail(batch) \o pending = log \o batch \o pending
<1>1. /\ batch = <<Head(batch)>> \o Tail(batch)
      /\ Head(batch) \in CarrierFrames /\ Tail(batch) \in Seq(CarrierFrames)
  BY HeadTailProperties
<1>2. Append(log, Head(batch)) = log \o <<Head(batch)>>
  BY <1>1, AppendIsConcat
<1>3. (log \o <<Head(batch)>>) \o Tail(batch) = log \o (<<Head(batch)>> \o Tail(batch))
  BY <1>1, ConcatAssociative
<1> QED
  BY <1>1, <1>2, <1>3

(* The frame at the head of the batch is the next one to be published.     *)
LEMMA HeadIsNext ==
  ASSUME NEW log \in Seq(CarrierFrames), NEW batch \in Seq(CarrierFrames),
         NEW pending \in Seq(CarrierFrames), batch # <<>>
  PROVE  LET all == log \o batch \o pending
         IN  Len(log) < Len(all) /\ all[Len(log) + 1] = Head(batch)
  OBVIOUS

(* A frame that a wait or the drain loop returns goes to the end of the    *)
(* batch.                                                                  *)
LEMMA AppendToBatch ==
  ASSUME NEW log \in Seq(CarrierFrames), NEW batch \in Seq(CarrierFrames),
         NEW item \in CarrierFrames
  PROVE  Append(log \o batch \o <<>>, item) = log \o Append(batch, item) \o <<>>
<1>1. log \o batch \o <<>> = log \o batch
  BY ConcatProperties, ConcatEmptySeq
<1>2. log \o Append(batch, item) \o <<>> = log \o Append(batch, item)
  BY AppendProperties, ConcatProperties, ConcatEmptySeq
<1>3. Append(batch, item) = batch \o <<item>>
  BY AppendIsConcat
<1>4. Append(log \o batch, item) = (log \o batch) \o <<item>>
  BY ConcatProperties, AppendIsConcat
<1>5. <<item>> \in Seq(CarrierFrames)
  OBVIOUS
<1>6. (log \o batch) \o <<item>> = log \o (batch \o <<item>>)
  BY <1>5, ConcatAssociative
<1> QED
  BY <1>1, <1>2, <1>3, <1>4, <1>6

(* A frame that the poll after a batch returns becomes the pending list.   *)
LEMMA AppendToPending ==
  ASSUME NEW log \in Seq(CarrierFrames), NEW item \in CarrierFrames
  PROVE  Append(log \o <<>> \o <<>>, item) = log \o <<>> \o <<item>>
  BY ConcatEmptySeq, AppendIsConcat

(* The pending list is taken over as the next batch.                       *)
LEMMA PendingBecomesBatch ==
  ASSUME NEW log \in Seq(CarrierFrames), NEW pending \in Seq(CarrierFrames)
  PROVE  log \o <<>> \o pending = log \o pending \o <<>>
  BY ConcatProperties, ConcatEmptySeq

(* OrderInv is inductive, given the types: one step for each action of the *)
(* receiver thread (_run in receiver.py); no other action touches the      *)
(* lists.                                                                  *)
LEMMA OrderInvariant == Spec => []OrderInv
<1>1. Init => OrderInv
  BY ConcatEmptySeq DEF Init, OrderInv
<1>2. TypeInv /\ OrderInv /\ [Next]_vars => OrderInv'
  <2> SUFFICES ASSUME TypeInv, OrderInv, [Next]_vars
               PROVE  OrderInv'
    OBVIOUS
  <2>0. /\ rx \in ReceiverThread
        /\ rx.batch \in Seq(CarrierFrames) /\ rx.pending \in Seq(CarrierFrames)
        /\ captured \in Seq(CarrierFrames) /\ receivedLog \in Seq(CarrierFrames)
    BY DEF TypeInv, TypeOK, ReceiverThread
  <2> USE <2>0 DEF OrderInv, OnlyReceiverMoves, lifecycleVars, modelVars, historyVars
  <2>1. CASE ReceiverBegins
    BY <2>1, ReceiverToTyped DEF ReceiverBegins, ReceiverAt, ReceiverPC
  <2>2. CASE LoopHead
    <3>1. CASE stop /\ ReceiverTo("exit")
      BY <2>2, <3>1, ReceiverToTyped DEF LoopHead, ReceiverAt, ReceiverPC
    <3>2. CASE rx.pending = <<>> /\ ReceiverTo("wait")
      <4>1. rx'.pc = "wait" /\ rx'.batch = rx.batch /\ rx'.pending = rx.pending
        BY <3>2, ReceiverToTyped DEF ReceiverPC
      <4>2. rx.batch = <<>> /\ (stop \/ captured = receivedLog \o rx.batch \o rx.pending)
        BY <2>2 DEF LoopHead, ReceiverAt
      <4>3. ~stop \/ rx'.pc # "wait"
        BY <2>2, <4>1 DEF LoopHead, ReceiverTo, ReceiverThread
      <4> QED
        BY <2>2, <3>2, <4>1, <4>2, <4>3 DEF LoopHead
    <3>3. CASE ~stop /\ rx' = [rx EXCEPT !.pc = "drain", !.batch = rx.pending, !.pending = <<>>]
      <4>1. rx'.pc = "drain" /\ rx'.batch = rx.pending /\ rx'.pending = <<>>
        BY <3>3 DEF ReceiverThread
      <4>2. rx.batch = <<>> /\ captured = receivedLog \o rx.batch \o rx.pending
        BY <2>2, <3>3 DEF LoopHead, ReceiverAt
      <4>3. receivedLog \o <<>> \o rx.pending = receivedLog \o rx.pending \o <<>>
        BY PendingBecomesBatch
      <4> QED
        BY <2>2, <4>1, <4>2, <4>3 DEF LoopHead
    <3> QED
      BY <2>2, <3>1, <3>3, <3>2 DEF LoopHead
  <2>3. CASE WaitForFrame
    BY <2>3, ReceiverToTyped, ReceiverCallsTyped DEF WaitForFrame, ReceiverAt, ReceiverPC
  <2>4. CASE Drain
    BY <2>4, ReceiverToTyped, ReceiverCallsTyped DEF Drain, ReceiverAt, ReceiverPC
  <2>5. CASE PollAfterBatch
    BY <2>5, ReceiverToTyped, ReceiverCallsTyped DEF PollAfterBatch, ReceiverAt, ReceiverPC
  <2>6. CASE WaitRaises
    BY <2>6, ReceiverToTyped DEF WaitRaises, ReceiverAt, ReceiverPC
  <2>7. CASE ReceiverLocks
    BY <2>7, ReceiverToTyped DEF ReceiverLocks, ReceiverAt, ReceiverPC
  <2>8. CASE CaptureNothing
    <3>1. \/ rx.call = "wait" /\ ReceiverTo("wait")
          \/ rx.call = "drain" /\ ReceiverTo("consume")
          \/ rx.call = "after" /\ ReceiverTo("loop")
      BY <2>8 DEF CaptureNothing, AfterNoFrame, ReceiverThread
    <3> QED
      BY <2>8, <3>1, ReceiverToTyped DEF CaptureNothing, ReceiverAt, ReceiverPC
  <2>9. CASE CaptureFrame
    BY <2>9 DEF CaptureFrame, ReceiverAt, ReceiverThread
  <2>10. CASE CaptureRaises
    BY <2>10, ReceiverToTyped DEF CaptureRaises, ReceiverAt, ReceiverPC
  <2>11. CASE NumberFrame
    BY <2>11 DEF NumberFrame, ReceiverAt, ReceiverThread
  <2>12. CASE HandOver
    <3> DEFINE item == [frame |-> rx.hand, sequence |-> rx.number]
    <3>1. item \in CarrierFrames
      BY DEF ReceiverThread, CarrierFrames
    <3>2. /\ rx.pc = "stamp" /\ rx.pending = <<>>
          /\ captured = receivedLog \o rx.batch \o <<>>
          /\ captured' = Append(captured, item) /\ receivedLog' = receivedLog
      BY <2>12 DEF HandOver, ReceiverAt
    <3> HIDE DEF item
    <3>3. CASE rx.call = "after"
      <4>1. rx'.pc = "loop" /\ rx'.batch = rx.batch /\ rx'.pending = <<item>>
        BY <2>12, <3>3 DEF HandOver, ReceiverThread, item
      <4>2. rx.batch = <<>>
        BY <3>2, <3>3
      <4> QED
        BY <3>1, <3>2, <4>1, <4>2, AppendToPending
    <3>4. CASE rx.call # "after"
      <4>1. rx'.pc = "drain" /\ rx'.batch = Append(rx.batch, item) /\ rx'.pending = rx.pending
        BY <2>12, <3>4 DEF HandOver, ReceiverThread, item
      <4> QED
        <5>1. Append(receivedLog \o rx.batch \o <<>>, item)
                = receivedLog \o Append(rx.batch, item) \o <<>>
          BY <3>1, AppendToBatch
        <5>2. captured' = receivedLog' \o rx'.batch \o <<>>
          BY <3>2, <4>1, <5>1
        <5> QED
          BY <3>2, <4>1, <5>2
    <3> QED
      BY <3>3, <3>4
  <2>13. CASE ConsumeNext
    BY <2>13, ReceiverToTyped DEF ConsumeNext, ReceiverAt, ReceiverPC
  <2>14. CASE PublishReceived
    <3>1. /\ rx.pc = "publish" /\ rx.batch # <<>>
          /\ captured = receivedLog \o rx.batch \o rx.pending /\ rx.pending = <<>>
          /\ receivedLog' = Append(receivedLog, Head(rx.batch)) /\ captured' = captured
      BY <2>14 DEF PublishReceived, ReceiverAt, TypeInv, TypeOK
    <3>2. rx'.pc = "consume" /\ rx'.batch = Tail(rx.batch) /\ rx'.pending = rx.pending
      BY <2>14 DEF PublishReceived, ReceiverThread
    <3>3. Append(receivedLog, Head(rx.batch)) \o Tail(rx.batch) \o rx.pending
            = receivedLog \o rx.batch \o rx.pending
      BY <3>1, HeadMoves
    <3>4. captured' = receivedLog' \o rx'.batch \o rx'.pending
      BY <3>1, <3>2, <3>3
    <3> QED
      BY <3>1, <3>2, <3>4
  <2>15. CASE ConsumeRaises
    BY <2>15, ReceiverToTyped DEF ConsumeRaises, ReceiverAt, ReceiverPC
  <2>16. CASE BatchEnds
    <3>1. CASE stop /\ rx' = [rx EXCEPT !.pc = "loop", !.batch = <<>>]
      BY <2>16, <3>1 DEF BatchEnds, ReceiverAt, ReceiverThread
    <3>2. CASE rx.batch = <<>> /\ ReceiverTo("after")
      BY <2>16, <3>2, ReceiverToTyped DEF BatchEnds, ReceiverAt, ReceiverPC
    <3> QED
      BY <2>16, <3>1, <3>2 DEF BatchEnds
  <2>17. CASE PublishFault
    BY <2>17 DEF PublishFault, ReceiverAt, ReceiverThread
  <2>18. CASE PublishStopped
    BY <2>18, ReceiverToTyped DEF PublishStopped, ReceiverAt, ReceiverPC
  <2>19. CASE ReceiverEnds
    BY <2>19, ReceiverToTyped DEF ReceiverEnds, ReceiverAt, ReceiverPC
  <2>20. CASE StartService
    BY <2>20, ReceiverToTyped DEF StartService, ReceiverAt, ReceiverPC
  <2>21. ASSUME UNCHANGED <<rx, captured, receivedLog>>, stop => stop'
         PROVE  OrderInv'
    BY <2>21
  <2>22. CASE CloseCarrier \/ AtExit
    BY <2>21, <2>22
       DEF CloseCarrier, AtExit, CloseBy, CloseTransport, CloseAgain, CloseRaises
  <2>23. CASE WebRequest \/ (WebStep /\ ~StartService) \/ WebRaises \/ JoinTimesOut
    BY <2>21, <2>22, <2>23
       DEF WebRequest, WebStep, WebRaises, OnlyRadioAndWeb, BeginTransmit, SendLocks,
           PulseTransmit, PulseRaises, SeeCompletion, ReturnRaises, CompletionTimeout,
           CleanUp, CleanUpRaises, NumberSent, SendReturns, PublishSent,
           PublishSentRaises, EndTransmit, StopFaultedReceiver, EndFaultedTransmit,
           BeginClose, JoinBeforeClose, JoinTimesOut, OpenRadio, OpenRaises,
           ServiceRaises, ReopenRadio, OnlyRadioOpens, SendRefused, LeaveUnclosed,
           ExitUnopened
  <2>24. CASE ChipStep \/ UNCHANGED vars
    BY <2>21, <2>24 DEF ChipStep, vars
  <2> QED
    <3>1. CASE ReceiverStep \/ ReceiverRaises
      BY <3>1, <2>1, <2>2, <2>3, <2>4, <2>5, <2>6, <2>7, <2>8, <2>9, <2>10, <2>11,
         <2>12, <2>13, <2>14, <2>15, <2>16, <2>17, <2>18, <2>19
         DEF ReceiverStep, ReceiverRaises
    <3> QED
      BY <3>1, <2>20, <2>23, <2>24 DEF Next, ProcessEnds
<1> QED
  BY <1>1, <1>2, TypeInvariant, PTL DEF Spec

(* While the receiver works, the hand-over from the transport to the log   *)
(* loses, repeats and reorders nothing (_run: batch, pending, consume      *)
(* loop).                                                                  *)
THEOREM NothingSkippedAlways == Spec => []NothingSkipped
<1>1. OrderInv => NothingSkipped
  <2> SUFFICES ASSUME OrderInv, ReceiverWorking
               PROVE  captured = receivedLog \o rx.batch \o rx.pending
    BY DEF NothingSkipped
  <2> QED
    BY DEF OrderInv, ReceiverWorking
<1> QED
  BY <1>1, OrderInvariant, PTL

(* The capture path implements the safety part of CaptureLog: each step    *)
(* takes one more frame, publishes the next one of those taken, ends the   *)
(* receiver, or is none of the log's business.                             *)
THEOREM ImplementsCaptureLog == Spec => CaptureLogSafety
<1> DEFINE LogStep == [Capture!LogNext]_Capture!logVars
           Working == rx.pc \notin {"ending", "dead"}
<1>1. Init => Capture!LogInit
  BY DEF Init, Capture!LogInit
<1>2. TypeInv /\ TypeInv' /\ OrderInv /\ [Next]_vars => LogStep
  <2> SUFFICES ASSUME TypeInv, TypeInv', OrderInv, [Next]_vars
               PROVE  LogStep
    OBVIOUS
  <2>0. /\ rx \in ReceiverThread /\ rx' \in ReceiverThread
        /\ rx.batch \in Seq(CarrierFrames) /\ rx.pending \in Seq(CarrierFrames)
        /\ captured \in Seq(CarrierFrames) /\ receivedLog \in Seq(CarrierFrames)
    BY DEF TypeInv, TypeOK, ReceiverThread
  <2> USE <2>0 DEF OnlyReceiverMoves, modelVars, historyVars
  <2>1. ASSUME UNCHANGED <<captured, receivedLog>>, Working' <=> Working
        PROVE  LogStep
    BY <2>1 DEF Capture!logVars
  <2>2. ASSUME UNCHANGED <<captured, receivedLog>>, Working, ~Working'
        PROVE  LogStep
    BY <2>2 DEF Capture!LogNext, Capture!End
  <2>3. CASE HandOver
    <3> DEFINE item == [frame |-> rx.hand, sequence |-> rx.number]
    <3>1. item \in CarrierFrames
      BY DEF ReceiverThread, CarrierFrames
    <3>2. captured' = Append(captured, item) /\ UNCHANGED receivedLog /\ Working
      BY <2>3 DEF HandOver, ReceiverAt
    <3>3. Working'
      BY <2>3 DEF HandOver, ReceiverThread
    <3> HIDE DEF item
    <3>4. /\ Len(captured') = Len(captured) + 1
          /\ captured'[Len(captured')] \in CarrierFrames
      BY <3>1, <3>2
    <3>5. SubSeq(captured', 1, Len(captured)) = captured
      BY <3>1, <3>2
    <3> QED
      BY <3>2, <3>3, <3>4, <3>5 DEF Capture!LogNext, Capture!Take
  <2>4. ASSUME rx.pc = "publish", UNCHANGED captured, Working',
               receivedLog' = Append(receivedLog, Head(rx.batch))
        PROVE  LogStep
    <3>1. rx.batch # <<>> /\ captured = receivedLog \o rx.batch \o rx.pending
      BY <2>4 DEF OrderInv, TypeInv, TypeOK
    <3>2. Len(receivedLog) < Len(captured) /\ captured[Len(receivedLog) + 1] = Head(rx.batch)
      BY <3>1, HeadIsNext
    <3> QED
      BY <2>4, <3>2 DEF Capture!LogNext, Capture!Log
  <2>5. CASE PublishReceived
    <3>1. rx.pc = "publish" /\ rx'.pc = "consume"
      BY <2>5 DEF PublishReceived, ReceiverAt, ReceiverThread
    <3> QED
      BY <2>4, <2>5, <3>1 DEF PublishReceived
  <2>6. CASE ConsumeRaises
    <3>1. rx.pc = "publish" /\ rx'.pc = "fault"
      BY <2>6 DEF ConsumeRaises, ReceiverAt, ReceiverTo, ReceiverThread
    <3> QED
      BY <2>1, <2>4, <2>6, <3>1 DEF ConsumeRaises
  <2>7. CASE PublishFault \/ PublishStopped
    <3>1. rx.pc \in {"fault", "exit"} /\ rx'.pc = "ending"
      BY <2>7 DEF PublishFault, PublishStopped, ReceiverAt, ReceiverTo, ReceiverThread
    <3> QED
      BY <2>2, <2>7, <3>1 DEF PublishFault, PublishStopped
  <2>8. CASE ReceiverEnds
    <3>1. rx.pc = "ending" /\ rx'.pc = "dead"
      BY <2>8 DEF ReceiverEnds, ReceiverAt, ReceiverTo, ReceiverThread
    <3> QED
      BY <2>1, <2>8, <3>1 DEF ReceiverEnds
  <2>9. CASE LoopHead
    BY <2>1, <2>9 DEF LoopHead, ReceiverAt, ReceiverTo, ReceiverCalls, ReceiverThread
  <2>10. CASE WaitForFrame
    BY <2>1, <2>10 DEF WaitForFrame, ReceiverAt, ReceiverTo, ReceiverCalls, ReceiverThread
  <2>11. CASE Drain
    BY <2>1, <2>11 DEF Drain, ReceiverAt, ReceiverTo, ReceiverCalls, ReceiverThread
  <2>12. CASE PollAfterBatch
    BY <2>1, <2>12 DEF PollAfterBatch, ReceiverAt, ReceiverTo, ReceiverCalls, ReceiverThread
  <2>13. CASE WaitRaises
    BY <2>1, <2>13 DEF WaitRaises, ReceiverAt, ReceiverTo, ReceiverCalls, ReceiverThread
  <2>14. CASE ReceiverLocks
    BY <2>1, <2>14 DEF ReceiverLocks, ReceiverAt, ReceiverTo, ReceiverCalls, ReceiverThread
  <2>15. CASE CaptureNothing
    BY <2>1, <2>15
       DEF CaptureNothing, ReceiverAt, ReceiverTo, ReceiverCalls, ReceiverThread,
           AfterNoFrame
  <2>16. CASE CaptureFrame
    BY <2>1, <2>16 DEF CaptureFrame, ReceiverAt, ReceiverTo, ReceiverCalls, ReceiverThread
  <2>17. CASE CaptureRaises
    BY <2>1, <2>17 DEF CaptureRaises, ReceiverAt, ReceiverTo, ReceiverCalls, ReceiverThread
  <2>18. CASE NumberFrame
    BY <2>1, <2>18 DEF NumberFrame, ReceiverAt, ReceiverTo, ReceiverCalls, ReceiverThread
  <2>19. CASE ConsumeNext
    BY <2>1, <2>19 DEF ConsumeNext, ReceiverAt, ReceiverTo, ReceiverCalls, ReceiverThread
  <2>20. CASE BatchEnds
    BY <2>1, <2>20 DEF BatchEnds, ReceiverAt, ReceiverTo, ReceiverCalls, ReceiverThread
  <2>21. CASE ReceiverBegins
    BY <2>1, <2>21 DEF ReceiverBegins, ReceiverAt, ReceiverTo, ReceiverCalls, ReceiverThread
  <2>22. CASE StartService
    BY <2>1, <2>22 DEF StartService, ReceiverAt, ReceiverTo, ReceiverThread
  <2>23. ASSUME UNCHANGED <<rx, captured, receivedLog>>
         PROVE  LogStep
    BY <2>1, <2>23
  <2>24. CASE CloseCarrier \/ AtExit
    BY <2>23, <2>24
       DEF CloseCarrier, AtExit, CloseBy, CloseTransport, CloseAgain, CloseRaises
  <2>25. CASE WebRequest \/ (WebStep /\ ~StartService) \/ WebRaises \/ JoinTimesOut
    BY <2>23, <2>24, <2>25
       DEF WebRequest, WebStep, WebRaises, OnlyRadioAndWeb, BeginTransmit, SendLocks,
           PulseTransmit, PulseRaises, SeeCompletion, ReturnRaises, CompletionTimeout,
           CleanUp, CleanUpRaises, NumberSent, SendReturns, PublishSent,
           PublishSentRaises, EndTransmit, StopFaultedReceiver, EndFaultedTransmit,
           BeginClose, JoinBeforeClose, JoinTimesOut, OpenRadio, OpenRaises,
           ServiceRaises, ReopenRadio, OnlyRadioOpens, SendRefused, LeaveUnclosed,
           ExitUnopened
  <2>26. CASE ChipStep \/ UNCHANGED vars
    BY <2>23, <2>26 DEF ChipStep, vars
  <2> HIDE DEF LogStep
  <2> QED
    <3>1. CASE ReceiverStep \/ ReceiverRaises
      BY <3>1, <2>3, <2>5, <2>6, <2>7, <2>8, <2>9, <2>10, <2>11, <2>12, <2>13,
         <2>14, <2>15, <2>16, <2>17, <2>18, <2>19, <2>20, <2>21
         DEF ReceiverStep, ReceiverRaises
    <3> QED
      BY <3>1, <2>22, <2>25, <2>26 DEF Next, ProcessEnds
<1> QED
  BY <1>1, <1>2, TypeInvariant, OrderInvariant, PTL
     DEF Spec, CaptureLogSafety, Capture!LogSafety

=============================================================================
