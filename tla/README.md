# Packet Predator: specification and proofs

Packet Predator is a workbench for a 32-byte radio protocol. One Python process
owns an nRF905 transceiver, receives frames with a thread, sends frames on
explicit request, replays recordings, keeps a bounded model of what it saw, and
serves a browser page that follows that model. Beside it stand command-line
instruments for the same radio and an archived prototype of a game on that
protocol. This directory holds the TLA+ specification: modules, TLC
configurations, and TLAPS proofs.

`PROJECT.json` lists the components, the runs, the mutants, the source lines
behind each definition, the disagreements found between code and documents, the
hazards of the code and the theorems.

## 1. Inventory

| Component (source) | State | Operations | Interacts by |
|---|---|---|---|
| nRF905 driver (`adapters/nrf905.py`, `nrf905_linux.py`) | three output pins, the chip's DR line and FIFO, `_started` | start, wait for DR, receive, transmit, close | called by the transport; DR is read without a lock |
| Physical transport (`nrf905_transport.py`) | operation lock, sequence counter, closed flag | poll, wait_for_frame, send, status, close | called by the receiver thread, the web thread and `atexit` |
| Physical receiver (`receiver.py`) | thread, stop event, batch and pending frames | start, stop, the thread's loop | callbacks into service and model |
| Service: transmit and lifecycle (`service.py`) | ledger of results, requests in progress, closed flag | start, transmit, close | web thread; sets the receiver state in the model |
| Recording player (`transport.py`, `service.py`) | recording, cursor, position, speed, state, clock anchor | load, play, pause, step, reset, set_speed, poll | synchronous calls; frames go to the model |
| Workbench model (`model.py`) | observations, changes, revision, receiver view | publish, set_receiver_state, record_receiver_metrics, changes_since | condition lock; subscribers called under it |
| Web layer (`web.py`) | one service; a coroutine per event stream | routes, event stream, lifespan | event loop; `call_soon_threadsafe` from the receiver thread |
| Page (`workbench_web/app.js`) | rendered snapshot, refresh flags, replay timer and busy flag, draft | refresh, replay controls, transmit, draft editing | HTTP, EventSource, timers, animation frames |
| Draft editor of the page (`workbench_web/app.js`) | draft with its edit history, request serial, confirmation | open, edit fields or bytes, undo, redo, revert, discard, transmit | conversions by the server that answer in any order; model refreshes show frames |
| Walk instrument (`nrf905_walk.py`, its commands in `nrf905_diagnostics.py`) | LED worker thread; counters of a base station and a carried node | pulse, close; burst, continuous walk, base station loop | the driver, sysfs LED, Ctrl-C; the two processes share only the air |
| Recording catalogue (`replay.py`) | validated recordings | load, list | at construction |
| Wire adapter, profile, other diagnostics, systemd status, scripts | configuration and text | conversions, command-line procedures | called by the above |
| Archived prototype (`web_app.py`, `simulator.py`, `driver/`) | virtual airwaves, a thread for every simulated node, coordinator and sniffer threads | game control, spoofing, sabotage, meeting, kill, forced completion, reset | queues of the virtual airwaves; requests on threads of their own; nothing shared with the workbench |

What is hard about this code: two threads share one half-duplex radio whose DR
line means "frame received" in one mode and "transmission complete" in the
other; any pin or SPI access may raise in the middle of a mode change; shutdown
waits for a thread that may be in one of three waits; publishers on a thread
notify a coroutine; the page merges refresh requests into two flags; a repeated
transmit request must not reach the radio twice; a replay has no thread, so all
of its time passes between requests; answers to draft conversions come late and
out of order while other handlers replace the draft; the walk's 16-bit counters
wrap while frames are lost, and its LED thread may fail, sleep or be in a pulse
when the burst ends; the prototype's threads share node state without locks.
`PROJECT.json` lists these hazards at their
lines with the properties that cover them.

What makes each component correct: the driver ends every attempt in receive
mode; the transport never mixes up the two meanings of DR; the receiver
publishes each captured frame once and in order; the service ends every request,
publishes a state that agrees with the thread's and releases hardware only after
the thread; the player keeps to its schedule whatever the controls do; the model
keeps the newest and says what it dropped; the stream loses no wake-up and skips
no change silently; the page ends up showing the model; the ledger admits an
identifier once; a draft contains its own edits only and is not given up
unasked; the walk reports what was really received, and a failed LED is never a
result; the prototype's controller receives once and in order whatever a task
panel was told, and every failure it learns of is penalised.

## 2. Modules

| Module | Models | Extends |
|---|---|---|
| `Nrf905Device` | the chip (external) and the driver's pin sequences, each also cut short by an exception | |
| `PhysicalCapture` | transport, receiver thread, service lifecycle and the radio side of `transmit` | `Nrf905Device` |
| `CaptureLog` | abstract specification: an ordered log that publishes what was taken | |
| `Replay` | the recording player and the service operations on it | |
| `ReplayPage`, `MCReplayPage` | the page's controls, selection and polling, the replay routes, a second client; two recordings for TLC | `Replay` |
| `WorkbenchModel` | the model's journal and change queue | |
| `LiveView` | event stream, reconnects, page refresh, process restart | `WorkbenchModel` |
| `TransmitLedger` | the request identifiers of `transmit` | |
| `LedPulseWorker` | the thread that blinks the walk's LED | |
| `WalkTest` | base station and carried node, their loops, statistics and commands | `LedPulseWorker` |
| `DraftEditor` | drafts, conversions, edit history and the transmit button of the page | |
| `VirtualAirwaves` | the prototype's broker, as operators on its queues | |
| `SimulatedGame` | the prototype's node, coordinator and sniffer threads and the operator | `VirtualAirwaves` |
| `PhysicalCaptureSafety` | proofs: types, lock, modes and lifecycle of the capture path | `PhysicalCapture` |
| `PhysicalCaptureOrder` | proofs: the frames' way from the chip to the log, and the refinement | `PhysicalCaptureSafety` |
| `LiveViewProofs` | proofs about the model, the event stream and the page | `LiveView` |
| `ReplayProofs` | proofs about the player as `ReplayPage` drives it | `ReplayPage` |
| `TransmitLedgerProofs`, `WalkTestProofs`, `DraftEditorProofs`, `SimulatedGameProofs` | proofs about ledger, walk, draft editor and prototype | the module they are about |

### PhysicalCapture

There are two threads of control. `rx.pc` walks through `_run` and the transport
calls it makes; `web.pc` through the opening of the radio, `start`, `transmit`
and `close`. The request
handlers are `async def` functions that call the synchronous service, so all of
them run on the one thread of the event loop, and so does the shutdown in the
lifespan. A step ends where the other thread can interfere with what is used
next: at the unlocked DR read, at the operation lock, between the read and the
increment of the sequence counter, at publications, at the stop event and at the
join. The driver's own lock is always taken inside the operation lock and adds
nothing. Everything under the operation lock between two looks at DR is one
step; a failing step takes any of the pin settings an exception can leave.

The chip (`FrameArrives`, `TransmissionEnds`, `SwitchPins`) is external: DR
rises with a valid frame and with the end of a transmission, falls when the FIFO
is read and when TX_EN falls. Whether an unread frame keeps DR high while TX_EN
rises is left open (`air = "masked"`); then the completion loop ends at once and
the frame is reported as sent before it is. `SentWasFinished` states exactly
what is left: a frame whose transmission was cut off is never reported as sent.

Startup may fail while the radio is opened or, with the radio open, while the
service is constructed; the lifespan then goes on without a service
(`unavailable`). `_service` caches results and no exceptions, so a later request
may open the radio after all (`ReopenRadio`): that service is in use with its
receiver thread `unstarted`, and the lifespan does not close it. The profile's
`transmit_enabled` is chosen once, at the start (`web.enabled`).

The two-second join may give up or not, without a clock. `atexit` runs after the
interpreter has joined the non-daemon receiver thread. `status()` only reads
pins under the lock; a sent request waits for that lock in `EndTransmit`.
Timing samples and wait-activity counters decide nothing and are left out.

The code's own limits show in what the properties do not claim: frames drained
into a batch are lost with the batch when a later poll raises or a stop is
requested (`ReceiverWorking` excludes both), and after a re-entry failure the
mode of the radio is unknown (`modeLost`).

### Replay and ReplayPage

Handlers run one at a time, so a request is one step; an operation maps a player
to the player it leaves, the frames it returns and the error it raises, and
`ControlReplay` chains two of them as `control_replay` does. Positions are
counted in quarter milliseconds and speeds in quarters of normal speed, which
makes the arithmetic exact: the code's `1e-6` tolerance and rounding have nothing
left to do. Offsets are integers: `replay.py` compares the first one with a
`previous_at` of -1 and so lets -1 ms (`Earliest`) through, where nothing says
what it should mean. Loading and resetting start at position 0 and release
nothing, so such frames are overdue until play or step releases them
(`WaitsForStart`), and a step to one leaves position and listener at -1 ms. The two clock reads of `set_speed` are taken as one instant. Time
that passes after the end of a recording changes nothing and is cut off
(`Tick`). `playTime`, `journaled` and `lost` are history variables: what a
listener's watch shows, and what became of the frames of this pass.

The page has one busy slot for controls and polls, as `replayBusy` has, and
slots for selections, which ignore the flag. A page reload and a restart of the
server are not modelled here.

### WorkbenchModel and LiveView

Every operation of the model holds its condition lock and is one step. The
changes are kept oldest first and their revisions are distinct, so what
`changes_since` selects is a suffix, and `ChangesSince` says which. In
`LiveView` the publishing thread may act between any two steps of the stream
coroutine; the clearing of the event and the reading of changes are one step
because the coroutine is not suspended in between and a callback of another
thread only runs when the loop does. The page's two flags are kept as the code
keeps them: `modelRefreshPending` stands both for a requested animation frame and
for a refresh after the fetch under way. `frames = 2` stands for any larger
number of callbacks, which has the same effect. Only the page's refresh after
stream events is modelled; replays and transmissions ask for the same refresh.
The process may be restarted with an empty model while the browser keeps the
last event id. A failed fetch is not repeated before the next event, so
`ViewCatchesUp` is about views whose last fetch did not fail.

### TransmitLedger

One step per critical section of `transmit`. The service guards the ledger with
a lock of its own, so several callers are allowed here although the shipped web
layer has one thread. The radio is one step that may or may not have sent when
it raises. A restart of the process empties the ledger, by design; so the
history variables start anew. `call` keeps what each caller was told last and
the entry of the ledger that answer came from, so that a property can say that a
replayed result is the first one's.

### LedPulseWorker and WalkTest

The worker's blocks under its condition variable are one step each, and the LED
is driven between two of them. A waiting thread sleeps until it is notified; a
notification that is forgotten leaves it asleep although the flag is set.

The base station and the carried node are two processes. A transmission reaches
the other's FIFO or is lost, clears the sender's own FIFO, and may raise before
or after the radio was switched. Deadlines pass at any time, so a slot may end
before or after any frame is read. Ctrl-C ends a single burst by an exception in
whatever it does and a continuous walk after its burst. The 16-bit fields wrap
at `Modulus`, and the base station's counters start at either side of the wrap.
The assumption `2 * MaxBeacons <= Modulus` is what makes a cut of the circle at
its largest gap meaningful; 65 536 intervals are days of walking. `heard`,
`counted` and `sampled` are history variables: unbounded truths the 16-bit
statistics are compared with. The station number in a carried beacon and the
display of the results are left out.

### DraftEditor

One action per stretch of JavaScript between two awaits. A frame is known by
the serial number of the request that made it instead of its bytes. Answers to
conversions, and whether a frame decodes, are choices. `consented` says that the
dialog of `mayReplaceDraft` or `discardDraft` was accepted in this step. The
server is reduced to what `TransmitLedger` shows of it. A discard advances the
serial number and a journal entry that does not decode removes the inputs only,
as in the code. An inspection of pasted text and an opened journal entry are
both a frame asked for and shown when its answer comes (`opening`).

### VirtualAirwaves and SimulatedGame

A node thread alternates `tick()` and one received packet, each of them one
step; the coordinator's polls, the sniffer and every request of an operator are
other threads. Requests on node state (meeting, kill, forced completion, reset)
are cut into steps where node threads may act in between. Timers are Booleans
and walking takes any number of ticks. One reset is allowed: two that overlap
orphan a batch of nodes that goes on receiving on the same addresses, which is
listed as a hazard. Beacons, heartbeats and the console's history and event
stream change no game state and are left out.

Addresses are the code's integers, a type and a number, because a panel takes
the last byte of a packet's source for the player's number. A packet carries its
name, both addresses and the number it reports; the fourth field, `by`, is the
radio that sends it, which the packet itself does not say.

`Spoof` is `/api/spoof`: the controller's radio sends a packet of any of
`SpoofedNames` from any of `SpoofedSources` to any node, to all or to the
controller, as the page's three modes let the operator do. What that does is what
the code does:

- A task event spoofed to a panel makes the panel report it, about the number of
  whatever source was claimed; if that is the controller, the packet is a poll as
  well. `ReportsReachController` is therefore about what panels were *told*
  (`told`), by players or by spoofed packets, and not about what players did.
- A packet spoofed to the controller in a panel's name is received like a report.
  The console cannot tell it from one. The property can, by the radio that sent
  it, and says that such packets displace none of the panel's own. They name no
  player, so the rules engine makes nothing of a failure among them; a sabotage
  it does relay.
- A player answers only packets that claim the controller's address, and drops
  other unicasts. A spoofed setting of `penalty_time` from that address locks or
  frees the player; `owed` is cleared only by a penalty the rules engine sent,
  which may be about a spoofed failure with the same number.

## 3. Runs

| Run | Configuration | Bounds | States | Shows |
|---|---|---|---|---|
| `physical_capture` | `PhysicalCapture.cfg` | 2 frames, 2 requests, 1 exception | 0.25 M | 8 invariants, 3 liveness properties, refinement of `CaptureLog` |
| `replay_page` | `ReplayPage.cfg` | 2 recordings, 2 speeds, 4 user operations, 1 foreign, 1 failure | 71 k | the player's schedule; polled playback ends |
| `live_view` | `LiveView.cfg` | 3 changes, both queues of 2, 1 disruption | 0.58 M | model, stream and page |
| `transmit_ledger` | `TransmitLedger.cfg` | 2 callers, 3 identifiers, capacity 2, 4 calls, 1 restart | 2.3 M | the ledger |
| `walk_test` | `WalkTest.cfg` | numbers modulo 8, 2 slots, 2 bursts, 3 beacons, 1 failure or foreign frame | 0.71 M | the walk's figures, its LED thread, the end of its commands |
| `draft_editor` | `DraftEditor.cfg` | 2 frames, 4 request serials, 1 opened frame, 1 malformed edit, 1 tick, 1 click | 0.74 M | drafts against late answers |
| `simulated_game` | `SimulatedGame.cfg` | 1 player (an impostor), 1 task, 2 operators, 2 requests, 1 reset, 1 setback; 4 packets spoofed from 2 addresses | 0.38 M | reports, tasks and penalties of the prototype |
| `sequence_numbers`, `released_twice`, `fault_overwritten`, `receiver_never_started` | `PhysicalCapture_finding_*.cfg` | up to 2 frames, 1 request, 1 exception | | violations |
| `one_confirmation` | `DraftEditor_finding_confirmation.cfg` | 1 tick, 2 clicks | | violation |

Why the bounds are enough for the hazards: two frames and two requests let one
frame arrive while another is in the batch, before, during and after a
transmission, and let a request meet a receiver that died of an earlier
exception; one exception may strike at any hardware call, and a second one
follows by itself where the code calls released hardware again. Two recordings,
one that begins with a frame at -1 ms and one with all frames at one instant, let
a selection change what an answer is about. Three changes overflow queues of two. Capacity two with three identifiers
makes the ledger evict. Three beacons with counters that start just before the
wrap let the wrap fall between any two of them and any of them be lost, and two
bursts let a frame of one burst be counted in the next. Four request serials let
two edits of one draft, or an edit and another draft, overtake each other in
every order, with a discard among them. One player and one task suffice for the
prototype's reports to queue up behind each other, because a task may be forced,
failed and sabotaged; a second operator's request may run inside the first's. The spoofed packets are
one of each kind that some receiver treats in a way of its own and no other
request of the run can send: a broadcast that ends a meeting, two task events, a
setting that ends a lockout. Each of them comes from the controller's address,
which makes it a poll, and from the panel's own, which does not; the proofs leave
names and sources open.
The remaining bounds (`MaxOperations`, `MaxOthers`, `MaxFailures`,
`MaxDisruptions`, `MaxCalls`, `MaxRestarts`, `MaxFaults`, `MaxOpens`,
`MaxMalformed`, `MaxTicks`, `MaxClicks`, `MaxRequests`, `MaxResets`,
`MaxSetbacks`, `MaxPolls`) cut off the users, the failures and the coordinator's
lead over a slow node, never what the code does with them. Deadlock is checked in
`physical_capture`, where only `ProcessEnds` may remain; in the other runs the
bounded users may stop.

Fairness. `PhysicalCapture`: each of the two threads keeps running (one weak
fairness condition per thread); no frame, request, exception or shutdown is
promised. The traffic is bounded, so that the starvation of one thread at the
operation lock, which Python's locks do not rule out, is not examined.
`ReplayPage`: the clock runs, the interval timer fires, a request is handled and
its answer arrives. `LiveView`: event loop, browser connection, events, animation
frames and fetches go on. `WalkTest`: the carried node's main thread and the
LED's thread keep running, and a slot's deadline comes whatever is heard before
it; no frame arrives for certain, nothing need fail, nobody need press Ctrl-C.
`DraftEditor`: a conversion is answered or given up by the browser.
`SimulatedGame`: coordinator, sniffer and every node thread's receiving go on; a
player's own ticks are not promised, so a game need not proceed.
`TransmitLedger` has safety properties only.

The passing runs' properties each come with a mutant of a modelled definition
(`Mutant...` in the modules) that breaks it.

## 4. Disagreements between code and documents

Five have a run whose counterexample shows them; `PROJECT.json` quotes the
lines.

- Received frames are numbered outside the lock (`SequenceNumbersDistinct`).
- A failing close releases the hardware twice (`HardwareReleasedOnce`).
- A request that ends after the receiver died publishes "listening"
  (`FaultStaysPublished`).
- A radio opened by a request after a failed startup gets no receiver
  (`RadioHasReceiver`).
- Every model refresh enables the transmit button again while a request is under
  way, so one tick of the "one-shot" confirmation may send twice
  (`OneSendPerConfirmation`).

Five more are stated in the modules and left without a run of their own. Each is
the property named, to be given to TLC as an INVARIANT (a PROPERTY for the
third) in the configuration of its module.

- `EveryFrameJournaled` (`Replay`): `docs/deterministic-recordings.md` says that
  each delivered frame is journaled. `control_replay` sets the speed first; a
  speed change while playing releases frames, and when the action that follows
  raises (a step while playing, a play of what the advance completed), they are in
  no response and no journal.
- `PlayingIsPolled` (`ReplayPage`): the same document says that playback is
  advanced by polling. Play is pressed, a recording is selected before the
  answer; the server handles the selection first and then plays; the play's
  answer starts the timer and the selection's older answer stops it. The
  recording plays and nobody polls.
- `ViewCatchesUpAfterRestart` (`LiveView`): `docs/editor-api-v1.md` forbids
  carrying a revision across processes. A restarted process numbers its revisions
  from 0 again; a page that reconnects with the event id of the old one, once the
  new revision has caught up with it, is sent nothing about the changes up to
  that id and keeps showing a snapshot taken in between.
- `ConflictMeansOtherFrame` (`TransmitLedger`): `docs/editor-api-v1.md` says that
  repeating identifier, frame and mode returns the stored result; local
  provenance is compared too, and another one is refused as a conflict.
- `LosslessUplinkReportsNoLoss` (`WalkTest`): the head of `nrf905_walk.py`
  (lines 23-29) says that the base station's counter is sampled at the start and
  at the end of a burst. It is sampled at the first and at the last beacon heard,
  so carried beacons counted before and after those are reported as lost although
  every one arrived. What does hold is `UplinkIsCounted`: the figure never claims
  more than was counted.

## 5. Proofs

All theorems hold for every value of the constants, under the named assumptions
of the modules (bounds are natural numbers, retention limits are positive).

Every safety invariant and every action property of the passing runs is proved;
TLC keeps the liveness properties.

`PhysicalCaptureSafety` first proves `TypeInv`, the type invariant together with
"the hardware was released at most once before the last close begins", which
bounds `releases`, and then `ControlInv`, the inductive strengthening of four
properties. None of them is inductive alone: `ReceiveModeRestored` needs to know
who holds the lock and that the pins are those of the holder's step (`LockInv`,
`ModeInv`); `HardwareOutlivesReceiver` needs that every step of `close` after
the join still finds the receiver dead, and that a service never started has no
receiver to join (`LifeInv`); `StateMatchesReceiver` needs what is published at
each step of a request (`StateInv`). The proofs have one step per action.

`PhysicalCaptureOrder` begins at the chip. `FrameInv` says what DR means: outside
transmit mode it announces a frame that was not read, which comes after the one
in hand, which comes after all that were handed over (`FreshInv`); a web thread
that waits for completion does not see DR high on account of a transmission that
goes on (`SendInv`). Nearly every step is `Quiet`: it accepts no frame and, since
TX_EN falling clears DR, announces none; only `FrameArrives` and the receiver's
read are left to argue about. `CapturedOnceInOrder` holds only while the driver
gets back to receive mode, and so does `FreshInv`.

The second half of the module proves that the hand-over between batch, pending frames
and log loses nothing (`OrderInvariant`, with lemmas about `\o`, `Head` and
`Tail`), and from it that every step of the capture path is a step of
`CaptureLog` or a stutter (`ImplementsCaptureLog`). The liveness half of
`CaptureLogSpec` is left to TLC.

`LiveViewProofs` proves the two queue invariants for any retention, from lemmas
about bounded deques (`PushRightKeepsNewest`, `PushLeftKeepsNewest`), first for
the model alone and then within `LiveView`, where a restart empties it. The
event stream is correct because what the coroutine is about to yield leads on
from what it yielded last (`BatchInv`, from `AnswerLeadsOn` about
`changes_since`), and what is on its way to the browser ends with that
(`TransitInv`). `NoLostWakeup` is inductive with the types of the stream.
`ViewNeverGoesBack` rests on `ViewInv`: there is at most one fetch at a time,
so an answer under way is no older than the view (`NotNewer`).

`TransmitLedgerProofs` proves `LedgerInv`. That an identifier is sent once is
inductive only together with what ties the three copies of a request: a call
that was admitted has no remembered result (`AdmittedIsNew`) and no earlier
transmission that was not dropped (`FirstSend`); what was on the air is marked,
remembered, or dropped by a full ledger (`OnAirRemembered`); remembered
identifiers are distinct (`IdsDiffer`); and every remembered result was told to
its caller or is about to be (`ResultsKnown`). The one lemma with work in it is
`RememberKeeps`, about the bounded ledger.

`WalkTestProofs` proves `LedInv`: a failure the LED's thread recorded survives
until the join (`WorkerInv`), and the commands only go on after a join that saw
none (`JoinedInv`). From it follow `LedFailureFailsRun` and `NoPulseAfterClose`
for any number of slots, bursts and failures.

Its second part is about the figures of a burst. `UplinkInv` ties the base
station's total to what the burst may claim: since sending clears the sender's
own FIFO, the two FIFOs never hold a beacon each (`AirInv`), and from the first
sample on the total grows by beacons of this burst alone (`SampleInv`,
`CountInv`). `UplinkCorrect` then assumes `Slots < Modulus`, because a difference
modulo 2^16 cannot say more; the code does not enforce it, but `--slots` is 100
unless it is given. `WindowInv` says that the noted sequence numbers are those of
beacons sent within the last `MaxBeacons`; that the longest arc of the circle
they leave free is the one after the newest of them, and so where
`_distinct_gap_stats` must cut it, needs the half circle of `WalkAssumption`.
The minima and maxima of these sets are reasoned about by least elements, as
below.

`DraftEditorProofs` proves `EditorInv`. Drafts and conversions are numbered by
one counter, and the handlers only compare numbers; the proof turns on
`ConversionInv`: a conversion that was not overtaken is the only one with its
number, it is about the draft on the page, and its number is higher than those
of the edits made. So what an answer is appended to is its own draft's history,
in the order of the requests.

`SimulatedGameProofs` proves `PlayInv` (each task of a player is still to be done
or was finished once, and a target is one still to be done) and `PipeInv`: until
a reset begins, what a panel was told is what the controller has received from
it, then what the panel sent, then its telemetry queue, then its own queue. An
event moves from one of these to the next as the oldest of one and the newest of
the other. Of all that is sent besides, only a task event spoofed to a panel
enters this pipe, and it is told to the panel by that (`SpoofPipe`); commands,
settings, broadcasts and what is spoofed to the controller do not touch it
(`Quiet`, `CommandQuiet`). What is picked out of a queue (`Picked`) is a recursive function; that
it exists, and what it does when a packet is added or taken
(`PickedAppend`, `PickedHead`), is proved by induction over numbers
(`Induction`), which follows from the well-foundedness of `<`.

`ReplayProofs` proves `ReplayInv` for `ReplayPage`, that is for the player under
every interleaving of page, polls and other clients. The four properties are not
inductive alone: `Sound` adds that a playing player's clock anchor is what its
listener has heard (`Reached(p) = t`) and that the position is never ahead of it
nor past the end. Inside `play`, between the start of the clock and the first
advance, a player may only be `Running`: frames due before 0 are overdue, and
`AdvanceMoves` shows that the advance releases them. Each operation of the player is a lemma that says which frames
it released (`Moves`), a control is the composition of two of them
(`MovesCompose`, `ControlMoves`: `control_replay` advances before it acts), and
`PassAccounts` carries the frames released into the journal or among the lost
ones. That the cursor `_advance_unlocked` stops at exists, for recordings of any
length, comes from the least element of the cursors at which its loop may stop
(`CursorFound`). The proof rests on `RecordingsAssumption`, which is what
`replay.py` checks of offsets and durations and no more (offsets are integers
from -1 ms to the duration, in nondecreasing order), and on `SpeedsAssumption`.

Only model-checked: the liveness properties, with the liveness half of
`CaptureLogSpec`, because TLAPS reasons about neither fairness nor ENABLED here;
and the disagreements of section 4, which are counterexamples.

## 6. Plan

Done: physical capture with its abstract log and proofs; replay with its page;
model and live view; transmit ledger; walk instrument; draft editor; the
prototype's simulation. What a further pass would take up:

1. `RecordingRules`: the admission rules of `replay.py` as operators; they
   discharge the assumption `RecordingsAssumption` of `Replay`.
2. The wire adapter's frame admission and the profile's register encoding, as
   operators checked over small inputs.
3. Proofs: that an admitted recording satisfies `RecordingsAssumption`, once
   `RecordingRules` exists; lemmas of more than one proof module (least elements,
   sequences) in a module of their own.

Not modelled, and why:

- Recording catalogue, wire adapter and profile: validation and translation of
  text without state between calls; the codec behind the wire adapter is an
  external package.
- The diagnostics commands probe, send and receive: single-threaded calls of the
  transport that `PhysicalCapture` has with more concurrency.
- systemd status, scripts and repository checks: text and files, no state.
- Of the prototype: the driver's hardware mode and radio configuration, packet
  history and its event stream, and shutdown.
  Two more of its hazards are listed and have no property: unlocked reads in the
  meeting methods, and resets that overlap. Nothing in the repository says what
  they should do, and the prototype is kept as evidence only.
- Styling, wording and layout of the page.
