--------------------------- MODULE PhysicalCapture ---------------------------
(***************************************************************************)
(* One workbench process with a physical adapter: the receiver thread      *)
(* (receiver.py), the transport whose operation lock serialises the radio  *)
(* (nrf905_transport.py), and the web thread on which every request        *)
(* handler and the shutdown run (service.py, web.py).                      *)
(*                                                                         *)
(* A step ends where the other thread can see or change what the code goes *)
(* on to use: at an unlocked read of DR, at a lock, at the shared sequence *)
(* counter, at a publication, at the stop event and at a join.             *)
(***************************************************************************)
EXTENDS Nrf905Device, Sequences

CONSTANTS
  MaxSends,    \* bound: confirmed transmit requests
  MaxFaults    \* bound: exceptions raised by the hardware or the decoder

ASSUME CaptureBoundsAssumption == MaxSends \in Nat /\ MaxFaults \in Nat

VARIABLES
  opLock,        \* Nrf905Transport._operation_lock: its owner, or "free"
  sequence,      \* Nrf905Transport._sequence
  closed,        \* Nrf905Transport._closed
  rx,            \* the receiver thread and the locals of _run
  web,           \* the web thread and the locals of transmit
  stop,          \* PhysicalReceiver._stop is set
  thread,        \* PhysicalReceiver._thread is not None
  receiverState, \* the receiver state the model publishes
  receivedLog,   \* received observations in the model, in order
  sentLog,       \* sent observations in the model, in order
  captured,      \* history: every CarrierFrame the receiver was handed
  faults,        \* exceptions raised so far
  modeLost       \* history: the driver gave up outside receive mode

transportVars == <<opLock, sequence, closed>>
lifecycleVars == <<stop, thread>>
modelVars == <<receiverState, receivedLog, sentLog>>
historyVars == <<captured, faults, modeLost>>
vars == <<deviceVars, transportVars, rx, web, lifecycleVars, modelVars, historyVars>>

ReceiverPC ==
  {"unstarted", "begin", "loop", "wait", "lock", "locked", "number", "stamp",
   "drain", "consume", "publish", "after", "fault", "exit", "ending", "dead"}
WebPC ==
  {"opening", "starting", "unavailable", "idle", "send", "tx-enter", "tx-wait",
   "tx-fail", "number", "stamp", "publish", "sent", "failed", "reentry", "join",
   "close-join", "close", "exiting", "done"}
ReceiverStates == {"starting", "listening", "transmitting", "faulted", "stopped"}

CarrierFrames == [frame : 0..MaxFrames, sequence : Nat]

(* pc; which call a capture serves (wait_for_frame, the drain loop's poll  *)
(* or the poll after the batch); the frame read and the number taken for   *)
(* it; batch (less what is consumed), pending and faulted.                 *)
ReceiverThread ==
  [pc : ReceiverPC, call : {"wait", "drain", "after"}, hand : 0..MaxFrames,
   number : Nat, batch : Seq(CarrierFrames), pending : Seq(CarrierFrames),
   faulted : BOOLEAN]

(* pc; the number send has taken; receiver_running; requests taken; and    *)
(* what the profile in use says of radio.transmit_enabled.                 *)
WebThread ==
  [pc : WebPC, number : Nat, running : BOOLEAN, sends : 0..MaxSends, enabled : BOOLEAN]

TypeOK ==
  /\ DeviceTypeOK
  /\ opLock \in {"free", "receiver", "web"}
  /\ sequence \in Nat
  /\ closed \in BOOLEAN
  /\ rx \in ReceiverThread
  /\ rx.pc = "publish" => rx.batch # <<>>
  /\ web \in WebThread
  /\ stop \in BOOLEAN
  /\ thread \in BOOLEAN
  /\ receiverState \in ReceiverStates
  /\ receivedLog \in Seq(CarrierFrames)
  /\ sentLog \in Seq(Nat)
  /\ captured \in Seq(CarrierFrames)
  /\ faults \in 0..MaxFaults
  /\ modeLost \in BOOLEAN

Init ==
  /\ DeviceInit
  /\ opLock = "free" /\ sequence = 0 /\ closed = FALSE
  /\ rx = [pc |-> "unstarted", call |-> "wait", hand |-> 0, number |-> 0,
           batch |-> <<>>, pending |-> <<>>, faulted |-> FALSE]
  /\ web \in {[pc |-> "opening", number |-> 0, running |-> FALSE, sends |-> 0,
              enabled |-> e] : e \in BOOLEAN}
  /\ stop = FALSE /\ thread = FALSE
  /\ receiverState = "stopped" /\ receivedLog = <<>> /\ sentLog = <<>>
  /\ captured = <<>> /\ faults = 0 /\ modeLost = FALSE

(* PhysicalReceiver.running: the thread exists and has not returned.       *)
Running == thread /\ rx.pc \notin {"unstarted", "dead"}

(* Something raises here; the number of times is bounded.                  *)
Raise == faults < MaxFaults /\ faults' = faults + 1

(* Mutant: nobody waits for the operation lock.                            *)
MutantLockIgnored == TRUE

LockIsFree == opLock = "free"

-----------------------------------------------------------------------------
(* The receiver thread: PhysicalReceiver._run. *)

ReceiverAt(pc) == rx.pc = pc
ReceiverTo(pc) == rx' = [rx EXCEPT !.pc = pc]
ReceiverCalls(call) == rx' = [rx EXCEPT !.pc = "lock", !.call = call]

OnlyReceiverMoves ==
  UNCHANGED <<deviceVars, transportVars, web, lifecycleVars, modelVars, historyVars>>

(* The thread starts and publishes "listening".                            *)
ReceiverBegins ==
  /\ ReceiverAt("begin")
  /\ ReceiverTo("loop")
  /\ receiverState' = "listening"
  /\ UNCHANGED <<deviceVars, transportVars, web, lifecycleVars, receivedLog, sentLog,
                 historyVars>>

(* Mutant: the frame polled after a batch is forgotten at the loop head.   *)
MutantPendingForgotten ==
  /\ ReceiverAt("loop")
  /\ rx' = [rx EXCEPT !.pc = IF stop THEN "exit" ELSE "wait", !.pending = <<>>]
  /\ OnlyReceiverMoves

(* The loop head: leave, take the pending frames as the next batch, or     *)
(* wait for a frame.                                                       *)
LoopHead ==
  /\ ReceiverAt("loop")
  /\ \/ stop /\ ReceiverTo("exit")
     \/ /\ ~stop /\ rx.pending # <<>>
        /\ rx' = [rx EXCEPT !.pc = "drain", !.batch = rx.pending, !.pending = <<>>]
     \/ ~stop /\ rx.pending = <<>> /\ ReceiverTo("wait")
  /\ OnlyReceiverMoves

(* Mutant: the wait has no cancellation timeout, so stop is not noticed.   *)
MutantWaitIgnoresStop ==
  /\ ReceiverAt("wait")
  /\ dataReady
  /\ ReceiverCalls("wait")
  /\ OnlyReceiverMoves

(* wait_for_frame: the bounded DR wait reports ready, or the stop event    *)
(* ends the wait.  A wait that times out changes nothing and is repeated.  *)
WaitForFrame ==
  /\ ReceiverAt("wait")
  /\ \/ stop /\ ReceiverTo("loop")
     \/ ~stop /\ dataReady /\ ReceiverCalls("wait")
  /\ OnlyReceiverMoves

(* The drain loop before decoding: poll until DR is low or stop is set.    *)
Drain ==
  /\ ReceiverAt("drain")
  /\ IF ~stop /\ dataReady THEN ReceiverCalls("drain") ELSE ReceiverTo("consume")
  /\ OnlyReceiverMoves

(* The poll after the batch; the stop event is not looked at here.         *)
PollAfterBatch ==
  /\ ReceiverAt("after")
  /\ IF dataReady THEN ReceiverCalls("after") ELSE ReceiverTo("loop")
  /\ OnlyReceiverMoves

(* wait_data_ready raises in any of the three calls.                       *)
WaitRaises ==
  /\ rx.pc \in {"wait", "drain", "after"}
  /\ Raise
  /\ ReceiverTo("fault")
  /\ UNCHANGED <<deviceVars, transportVars, web, lifecycleVars, modelVars, captured,
                 modeLost>>

(* _capture_after_wait takes the operation lock.                           *)
ReceiverLocks ==
  /\ ReceiverAt("lock")
  /\ LockIsFree
  /\ opLock' = "receiver"
  /\ ReceiverTo("locked")
  /\ UNCHANGED <<deviceVars, sequence, closed, web, lifecycleVars, modelVars,
                 historyVars>>

(* Mutant: DR is not read again under the lock.                            *)
MutantNoRecheck == closed \/ (rx.call = "wait" /\ stop)

(* The checks made again under the lock: closed, stopping (only when a     *)
(* stop event was passed), or DR low after all.                            *)
NothingToRead == closed \/ (rx.call = "wait" /\ stop) \/ ~dataReady

(* Where each of the three calls continues when there was no frame.        *)
AfterNoFrame == [wait |-> "wait", drain |-> "consume", after |-> "loop"]

CaptureNothing ==
  /\ ReceiverAt("locked")
  /\ NothingToRead
  /\ opLock' = "free"
  /\ ReceiverTo(AfterNoFrame[rx.call])
  /\ UNCHANGED <<deviceVars, sequence, closed, web, lifecycleVars, modelVars,
                 historyVars>>

(* The frame is read and the lock released; numbering it comes after.      *)
CaptureFrame ==
  /\ ReceiverAt("locked")
  /\ ~NothingToRead
  /\ ReadFifo
  /\ rx' = [rx EXCEPT !.pc = "number", !.hand = fifo]
  /\ opLock' = "free"
  /\ UNCHANGED <<sequence, closed, web, lifecycleVars, modelVars, historyVars>>

CaptureRaises ==
  /\ ReceiverAt("locked")
  /\ ~NothingToRead
  /\ Raise
  /\ ReadFifoRaises
  /\ modeLost' = TRUE
  /\ opLock' = "free"
  /\ ReceiverTo("fault")
  /\ UNCHANGED <<sequence, closed, web, lifecycleVars, modelVars, captured>>

(* _carrier_frame, first half: the CarrierFrame takes the counter's value. *)
NumberFrame ==
  /\ ReceiverAt("number")
  /\ rx' = [rx EXCEPT !.pc = "stamp", !.number = sequence]
  /\ OnlyReceiverMoves

(* _carrier_frame, second half: the counter is incremented and the frame   *)
(* returned to the call that was waiting for it.                           *)
HandOver ==
  LET item == [frame |-> rx.hand, sequence |-> rx.number]
  IN  /\ ReceiverAt("stamp")
      /\ sequence' = sequence + 1
      /\ captured' = Append(captured, item)
      /\ \/ /\ rx.call = "after"
            /\ rx' = [rx EXCEPT !.pc = "loop", !.pending = <<item>>]
         \/ /\ rx.call # "after"
            /\ rx' = [rx EXCEPT !.pc = "drain", !.batch = Append(@, item)]
      /\ UNCHANGED <<deviceVars, opLock, closed, web, lifecycleVars, modelVars, faults,
                     modeLost>>

(* Mutant: the consume loop does not notice that the batch is used up.     *)
MutantConsumeNext ==
  /\ ReceiverAt("consume")
  /\ ~stop
  /\ ReceiverTo("publish")
  /\ OnlyReceiverMoves

(* One round of the consume loop looks at stop and then takes a frame.     *)
ConsumeNext ==
  /\ ReceiverAt("consume")
  /\ ~stop /\ rx.batch # <<>>
  /\ ReceiverTo("publish")
  /\ OnlyReceiverMoves

(* Mutant: the newest frame of the batch is published first.               *)
MutantNewestFirst ==
  /\ ReceiverAt("publish")
  /\ receivedLog' = Append(receivedLog, rx.batch[Len(rx.batch)])
  /\ rx' = [rx EXCEPT !.pc = "consume", !.batch = SubSeq(@, 1, Len(@) - 1)]
  /\ UNCHANGED <<deviceVars, transportVars, web, lifecycleVars, receiverState, sentLog,
                 historyVars>>

(* consume_physical decodes and publishes it, whatever happened to stop    *)
(* meanwhile.  A frame the codec rejects is published too, as an invalid   *)
(* observation.                                                            *)
PublishReceived ==
  /\ ReceiverAt("publish")
  /\ receivedLog' = Append(receivedLog, Head(rx.batch))
  /\ rx' = [rx EXCEPT !.pc = "consume", !.batch = Tail(@)]
  /\ UNCHANGED <<deviceVars, transportVars, web, lifecycleVars, receiverState, sentLog,
                 historyVars>>

(* The consume loop ends: at a stop the rest of the batch is dropped.      *)
BatchEnds ==
  /\ ReceiverAt("consume")
  /\ \/ stop /\ rx' = [rx EXCEPT !.pc = "loop", !.batch = <<>>]
     \/ ~stop /\ rx.batch = <<>> /\ ReceiverTo("after")
  /\ OnlyReceiverMoves

(* Decoding raises something other than a codec error, or recording the    *)
(* metrics raises once the frame is published.                             *)
ConsumeRaises ==
  /\ ReceiverAt("publish")
  /\ Raise
  /\ receivedLog' \in {receivedLog, Append(receivedLog, Head(rx.batch))}
  /\ ReceiverTo("fault")
  /\ UNCHANGED <<deviceVars, transportVars, web, lifecycleVars, receiverState, sentLog,
                 captured, modeLost>>

(* An exception ends the worker: the fault is published, without a retry.  *)
PublishFault ==
  /\ ReceiverAt("fault")
  /\ rx' = [rx EXCEPT !.pc = "ending", !.faulted = TRUE]
  /\ receiverState' = "faulted"
  /\ UNCHANGED <<deviceVars, transportVars, web, lifecycleVars, receivedLog, sentLog,
                 historyVars>>

(* The loop was left because of stop: the finally block says so.           *)
PublishStopped ==
  /\ ReceiverAt("exit")
  /\ ReceiverTo("ending")
  /\ receiverState' = "stopped"
  /\ UNCHANGED <<deviceVars, transportVars, web, lifecycleVars, receivedLog, sentLog,
                 historyVars>>

(* _run returns; only now is the thread no longer alive.                   *)
ReceiverEnds ==
  /\ ReceiverAt("ending")
  /\ ReceiverTo("dead")
  /\ OnlyReceiverMoves

ReceiverStep ==
  \/ ReceiverBegins \/ LoopHead \/ WaitForFrame \/ Drain \/ PollAfterBatch
  \/ ReceiverLocks \/ CaptureNothing \/ CaptureFrame \/ NumberFrame \/ HandOver
  \/ ConsumeNext \/ PublishReceived \/ BatchEnds \/ PublishFault \/ PublishStopped \/ ReceiverEnds

ReceiverRaises == WaitRaises \/ CaptureRaises \/ ConsumeRaises

-----------------------------------------------------------------------------
(* The web thread: startup, confirmed transmit requests, shutdown. *)

WebAt(pc) == web.pc = pc
WebTo(pc) == web' = [web EXCEPT !.pc = pc]

(* Opening the radio touches neither the transport nor the receiver.       *)
OnlyRadioOpens ==
  UNCHANGED <<transportVars, rx, lifecycleVars, modelVars, captured, modeLost>>

(* The lifespan's _service(): the radio is opened and the service made.    *)
OpenRadio ==
  /\ WebAt("opening")
  /\ OpenDevice
  /\ WebTo("starting")
  /\ OnlyRadioOpens /\ UNCHANGED faults

(* _service() raises while it opens the radio.  The lifespan stores an     *)
(* error of the configuration and goes on; any other one ends the process. *)
OpenRaises ==
  /\ \/ web.pc \in {"opening", "unavailable"} /\ WebTo("unavailable")
     \/ WebAt("opening") /\ WebTo("exiting")
  /\ Raise
  /\ OpenDeviceRaises
  /\ OnlyRadioOpens

(* _service() raises after the radio was opened, when the service reads    *)
(* the Protocol Contract and the recordings: nobody owns the open radio.   *)
(* As long as it is open every further attempt to request its lines fails. *)
ServiceRaises ==
  /\ web.pc \in {"opening", "unavailable"}
  /\ Raise
  /\ OpenDevice
  /\ WebTo("unavailable")
  /\ OnlyRadioOpens

(* An exception is not cached: a request after a failed startup makes the  *)
(* service once more.  Nothing starts it.                                  *)
ReopenRadio ==
  /\ WebAt("unavailable")
  /\ OpenDevice
  /\ WebTo("idle")
  /\ OnlyRadioOpens /\ UNCHANGED faults

(* WorkbenchService.start and PhysicalReceiver.start.                      *)
StartService ==
  /\ WebAt("starting")
  /\ WebTo("idle")
  /\ ReceiverAt("unstarted")
  /\ ReceiverTo("begin")
  /\ thread' = TRUE
  /\ receiverState' = "starting"
  /\ UNCHANGED <<deviceVars, transportVars, stop, receivedLog, sentLog, historyVars>>

(* transmit, up to the call of send: receiver_running is looked up once    *)
(* and decides what is published now and when the request ends.            *)
BeginTransmit ==
  /\ WebAt("idle")
  /\ web.sends < MaxSends
  /\ web' = [web EXCEPT !.pc = "send", !.sends = @ + 1, !.running = Running]
  /\ receiverState' = IF Running THEN "transmitting" ELSE receiverState
  /\ UNCHANGED <<deviceVars, transportVars, rx, lifecycleVars, receivedLog, sentLog,
                 historyVars>>

(* send takes the operation lock and keeps it until the frame is numbered. *)
SendLocks ==
  /\ WebAt("send")
  /\ LockIsFree
  /\ opLock' = "web"
  /\ WebTo("tx-enter")
  /\ UNCHANGED <<deviceVars, sequence, closed, rx, lifecycleVars, modelVars, historyVars>>

OnlyRadioAndWeb ==
  UNCHANGED <<transportVars, rx, lifecycleVars, modelVars, captured>>

(* A receive-only profile: transmit raises before it touches the radio.    *)
SendRefused ==
  /\ WebAt("tx-enter")
  /\ ~web.enabled
  /\ opLock' = "free"
  /\ WebTo("failed")
  /\ UNCHANGED <<deviceVars, sequence, closed, rx, lifecycleVars, modelVars, historyVars>>

PulseTransmit ==
  /\ WebAt("tx-enter")
  /\ web.enabled
  /\ StartTransmission
  /\ WebTo("tx-wait")
  /\ OnlyRadioAndWeb /\ UNCHANGED <<faults, modeLost>>

PulseRaises ==
  /\ WebAt("tx-enter")
  /\ web.enabled
  /\ Raise
  /\ StartTransmissionRaises
  /\ WebTo("tx-fail")
  /\ OnlyRadioAndWeb /\ UNCHANGED modeLost

(* The completion loop sees DR high and the radio returns to receive mode. *)
SeeCompletion ==
  /\ WebAt("tx-wait")
  /\ dataReady
  /\ EnterReceiveMode
  /\ WebTo("number")
  /\ OnlyRadioAndWeb /\ UNCHANGED <<faults, modeLost>>

(* The return to receive mode raises after a completed transmission.       *)
ReturnRaises ==
  /\ WebAt("tx-wait")
  /\ dataReady
  /\ Raise
  /\ ReceiveModeRaises
  /\ WebTo("tx-fail")
  /\ OnlyRadioAndWeb /\ UNCHANGED modeLost

(* Mutant: the completion loop has no timeout.                             *)
MutantNoTimeout == FALSE

(* Mutant: a timeout is taken for completion.                              *)
MutantTimeoutCompletes ==
  /\ WebAt("tx-wait")
  /\ ~dataReady
  /\ EnterReceiveMode
  /\ WebTo("number")
  /\ OnlyRadioAndWeb /\ UNCHANGED <<faults, modeLost>>

(* DR stays low for 50 ms: NRF905_TRANSMIT_TIMEOUT.                        *)
CompletionTimeout ==
  /\ WebAt("tx-wait")
  /\ ~dataReady
  /\ WebTo("tx-fail")
  /\ OnlyRadioAndWeb /\ UNCHANGED <<deviceVars, faults, modeLost>>

(* Mutant: a failed transmission is reported without restoring receive.    *)
MutantNoCleanUp ==
  /\ WebAt("tx-fail")
  /\ opLock' = "free"
  /\ WebTo("failed")
  /\ UNCHANGED <<deviceVars, sequence, closed, rx, lifecycleVars, modelVars, historyVars>>

(* The one clean-up attempt after any failure, and the lock's release as   *)
(* the exception leaves send.                                              *)
CleanUp ==
  /\ WebAt("tx-fail")
  /\ EnterReceiveMode
  /\ opLock' = "free"
  /\ WebTo("failed")
  /\ UNCHANGED <<sequence, closed, rx, lifecycleVars, modelVars, historyVars>>

(* The clean-up raises as well: NRF905_RECEIVE_REENTRY_FAILED.             *)
CleanUpRaises ==
  /\ WebAt("tx-fail")
  /\ Raise
  /\ ReceiveModeRaises
  /\ modeLost' = TRUE
  /\ opLock' = "free"
  /\ WebTo("reentry")
  /\ UNCHANGED <<sequence, closed, rx, lifecycleVars, modelVars, captured>>

NumberSent ==
  /\ WebAt("number")
  /\ web' = [web EXCEPT !.pc = "stamp", !.number = sequence]
  /\ UNCHANGED <<deviceVars, transportVars, rx, lifecycleVars, modelVars, historyVars>>

(* Mutant: the lock is acquired once more than it is released.             *)
MutantLockKept ==
  /\ WebAt("stamp")
  /\ sequence' = sequence + 1
  /\ WebTo("publish")
  /\ UNCHANGED <<deviceVars, opLock, closed, rx, lifecycleVars, modelVars, historyVars>>

SendReturns ==
  /\ WebAt("stamp")
  /\ sequence' = sequence + 1
  /\ opLock' = "free"
  /\ WebTo("publish")
  /\ UNCHANGED <<deviceVars, closed, rx, lifecycleVars, modelVars, historyVars>>

PublishSent ==
  /\ WebAt("publish")
  /\ sentLog' = Append(sentLog, web.number)
  /\ WebTo("sent")
  /\ UNCHANGED <<deviceVars, transportVars, rx, lifecycleVars, receiverState,
                 receivedLog, historyVars>>

(* Decoding the sent frame raises: its outcome is reported as unknown.     *)
PublishSentRaises ==
  /\ WebAt("publish")
  /\ Raise
  /\ WebTo("failed")
  /\ UNCHANGED <<deviceVars, transportVars, rx, lifecycleVars, modelVars, captured,
                 modeLost>>

(* Mutant: the finally block does not restore the receiver state.          *)
MutantNotRestored == receiverState' = receiverState

(* The finally block of transmit.                                          *)
RestoreListening ==
  receiverState' = IF web.running THEN "listening" ELSE receiverState

(* The request ends.  A sent result contains carrier.status(), which waits *)
(* for the operation lock.                                                 *)
EndTransmit ==
  /\ WebAt("failed") \/ (WebAt("sent") /\ LockIsFree)
  /\ WebTo("idle")
  /\ RestoreListening
  /\ UNCHANGED <<deviceVars, transportVars, rx, lifecycleVars, receivedLog, sentLog,
                 historyVars>>

(* After a failed re-entry transmit stops the receiver, if it is running.  *)
StopFaultedReceiver ==
  /\ WebAt("reentry")
  /\ Running
  /\ stop' = TRUE
  /\ WebTo("join")
  /\ UNCHANGED <<deviceVars, transportVars, rx, thread, modelVars, historyVars>>

(* The join returned or gave up after two seconds, or there was nothing to *)
(* join: the request ends with the fault published.                        *)
EndFaultedTransmit ==
  /\ \/ WebAt("reentry") /\ ~Running /\ UNCHANGED thread
     \/ WebAt("join") /\ thread' = (thread /\ ~ReceiverAt("dead"))
  /\ receiverState' = "faulted"
  /\ WebTo("idle")
  /\ UNCHANGED <<deviceVars, transportVars, rx, stop, receivedLog, sentLog, historyVars>>

(* WorkbenchService.close and PhysicalReceiver.stop.                       *)
BeginClose ==
  /\ WebAt("idle")
  /\ \/ /\ thread
        /\ stop' = TRUE
        /\ WebTo("close-join")
        /\ UNCHANGED receiverState
     \/ /\ ~thread /\ ~ReceiverAt("unstarted")
        /\ receiverState' = "stopped"
        /\ WebTo("close")
        /\ UNCHANGED stop
  /\ UNCHANGED <<deviceVars, transportVars, rx, thread, receivedLog, sentLog, historyVars>>

(* Shutdown after a failed startup: the lifespan knows of no service, also *)
(* when a later request has made one, and closes nothing.                  *)
LeaveUnclosed ==
  /\ web.pc \in {"idle", "unavailable"}
  /\ ReceiverAt("unstarted")
  /\ WebTo("exiting")
  /\ UNCHANGED <<deviceVars, transportVars, rx, lifecycleVars, modelVars, historyVars>>

(* Mutant: close signals the receiver and does not join it.                *)
MutantNotJoined == TRUE

ReceiverJoined == ReceiverAt("dead")

JoinBeforeClose ==
  /\ WebAt("close-join")
  /\ ReceiverJoined
  /\ thread' = FALSE
  /\ WebTo("close")
  /\ UNCHANGED <<deviceVars, transportVars, rx, stop, modelVars, historyVars>>

(* The receiver is still alive after two seconds: close raises, the        *)
(* carrier stays open and the process exits.                               *)
JoinTimesOut ==
  /\ WebAt("close-join")
  /\ ~ReceiverAt("dead")
  /\ WebTo("exiting")
  /\ UNCHANGED <<deviceVars, transportVars, rx, lifecycleVars, modelVars, historyVars>>

(* Nrf905Transport.close, called by the service and again by atexit.       *)
CloseTransport(from, to) ==
  /\ WebAt(from)
  /\ LockIsFree
  /\ ~closed
  /\ CloseDevice
  /\ closed' = TRUE
  /\ WebTo(to)
  /\ UNCHANGED <<opLock, sequence, rx, lifecycleVars, modelVars, historyVars>>

CloseAgain(from, to) ==
  /\ WebAt(from)
  /\ LockIsFree
  /\ closed
  /\ WebTo(to)
  /\ UNCHANGED <<deviceVars, transportVars, rx, lifecycleVars, modelVars, historyVars>>

(* device.close raises: always when the lines are already released.        *)
CloseRaises(from, to) ==
  /\ WebAt(from)
  /\ LockIsFree
  /\ ~closed
  /\ IF linesOpen THEN Raise ELSE UNCHANGED faults
  /\ CloseDeviceRaises
  /\ WebTo(to)
  /\ UNCHANGED <<transportVars, rx, lifecycleVars, modelVars, captured, modeLost>>

CloseBy(from, to) ==
  CloseTransport(from, to) \/ CloseAgain(from, to) \/ CloseRaises(from, to)

(* Close in the lifespan, the first of all and so never on a closed        *)
(* carrier, then atexit's close of every transport that was opened.  The   *)
(* interpreter joins the receiver, which is not a daemon thread, before it *)
(* runs atexit.                                                            *)
CloseCarrier == CloseTransport("close", "exiting") \/ CloseRaises("close", "exiting")

NeverOpened == ReceiverAt("unstarted") /\ ~linesOpen

AtExit ==
  /\ rx.pc \in {"unstarted", "dead"} /\ ~NeverOpened
  /\ CloseBy("exiting", "done")

ExitUnopened ==
  /\ WebAt("exiting")
  /\ NeverOpened
  /\ WebTo("done")
  /\ UNCHANGED <<deviceVars, transportVars, rx, lifecycleVars, modelVars, historyVars>>

ProcessEnds == WebAt("done") /\ UNCHANGED vars

WebRequest == BeginTransmit \/ ReopenRadio \/ BeginClose \/ LeaveUnclosed

WebStep ==
  \/ OpenRadio \/ StartService
  \/ SendLocks \/ SendRefused \/ PulseTransmit \/ SeeCompletion \/ CompletionTimeout \/ CleanUp
  \/ NumberSent \/ SendReturns \/ PublishSent \/ EndTransmit
  \/ StopFaultedReceiver \/ EndFaultedTransmit \/ JoinBeforeClose
  \/ CloseCarrier \/ AtExit \/ ExitUnopened

WebRaises ==
  \/ OpenRaises \/ ServiceRaises
  \/ PulseRaises \/ ReturnRaises \/ CleanUpRaises \/ PublishSentRaises

ChipStep ==
  /\ FrameArrives \/ TransmissionEnds
  /\ UNCHANGED <<transportVars, rx, web, lifecycleVars, modelVars, historyVars>>

Next ==
  \/ ReceiverStep \/ ReceiverRaises
  \/ WebRequest \/ WebStep \/ WebRaises \/ JoinTimesOut
  \/ ChipStep
  \/ ProcessEnds

(* Each thread keeps running.  Nothing makes a frame arrive, a request     *)
(* come, the operator shut down or the hardware raise.                     *)
Fairness == WF_vars(ReceiverStep) /\ WF_vars(WebStep)

Spec == Init /\ [][Next]_vars /\ Fairness

-----------------------------------------------------------------------------
(* Properties. *)

(* Whenever nobody holds the operation lock, the radio listens, unless the *)
(* driver itself reported that it could not get back: every transmit       *)
(* attempt and every read ends in receive mode (_receive_mode).            *)
ReceiveModeRestored ==
  LockIsFree /\ linesOpen /\ ~modeLost => pins = ReceivePins

(* While the web thread waits for a transmission to complete, the receiver *)
(* thread, awake because DR rose, does not change the radio's mode.        *)
TransmitUndisturbed == WebAt("tx-wait") => pins = TransmitPins

(* Frames reach the receiver once each and in the order the chip accepted  *)
(* them: DR raised by a completed transmission is never taken for a frame. *)
CapturedOnceInOrder ==
  ~modeLost =>
    \A i, j \in DOMAIN captured :
      /\ captured[i].frame \in 1..heard
      /\ i < j => captured[i].frame < captured[j].frame

(* While the receiver works, each captured frame is published, in the      *)
(* batch or pending: the hand-over between the three lists loses, repeats  *)
(* and reorders nothing.                                                   *)
ReceiverWorking == ~stop /\ rx.pc \notin {"unstarted", "fault", "ending", "dead"}

NothingSkipped ==
  ReceiverWorking => captured = receivedLog \o rx.batch \o rx.pending

(* No receiver thread runs without GPIO and SPI: they are open before it   *)
(* starts and released only when it has ended.                             *)
HardwareOutlivesReceiver == ~linesOpen => rx.pc \in {"unstarted", "dead"}

(* Between requests the published state of a working receiver is           *)
(* "listening": a transmission leaves no trace in it.                      *)
StateMatchesReceiver ==
  WebAt("idle") /\ ReceiverWorking /\ ~ReceiverAt("begin")
    => receiverState = "listening"

(* A frame waiting in the FIFO is read, or a transmission takes the radio, *)
(* or the receiver ends.                                                   *)
ReadyIsServed == dataReady ~> (~dataReady \/ ~ReceiverWorking)

(* Every transmit request is answered, whatever the radio does.            *)
TransmitAnswered == WebAt("send") ~> WebAt("idle")

(* Shutdown ends the process, also when the join gives up or close raises. *)
ShutdownCompletes == WebAt("close-join") ~> WebAt("done")

(* A frame is reported as sent only if the chip finished sending it.  When *)
(* an unread frame kept DR high as the transmission began the code cannot  *)
(* tell, and reports it as sent at once (air = "masked").                  *)
SentWasFinished == WebAt("publish") => air # "cut"

(* The capture path implements the abstract log.                           *)
Capture ==
  INSTANCE CaptureLog WITH
    Frames <- CarrierFrames, taken <- captured, logged <- receivedLog,
    working <- rx.pc \notin {"ending", "dead"}

CaptureLogSpec == Capture!LogSpec
CaptureLogSafety == Capture!LogSafety

-----------------------------------------------------------------------------
(* Statements of the documentation that the code does not keep. *)

(* Each observation's capture has a sequence number of its own, because    *)
(* "receive, transmit, and close operations remain serialized at the       *)
(* physical transport boundary" (ADR 0006).                                *)
SequenceNumbersDistinct ==
  /\ \A i, j \in DOMAIN receivedLog :
       receivedLog[i].sequence = receivedLog[j].sequence => i = j
  /\ \A i \in DOMAIN receivedLog, j \in DOMAIN sentLog :
       receivedLog[i].sequence # sentLog[j]

(* "When a profile is active, application startup begins a dedicated       *)
(* receiver" (docs/nrf905-two-pi-bench.md): a service that takes requests  *)
(* with the radio open has started one.                                    *)
RadioHasReceiver == WebAt("idle") => ~ReceiverAt("unstarted")

(* "the process exit fallback cannot close hardware twice" (ADR 0006).     *)
HardwareReleasedOnce == releases <= 1

(* "persistent GPIO or SPI receive failures publish a fault" (ADR 0006):   *)
(* once the receiver died of one, no request makes it "listening" again.   *)
FaultStaysPublished ==
  ReceiverAt("dead") /\ rx.faulted /\ WebAt("idle") => receiverState = "faulted"

=============================================================================
