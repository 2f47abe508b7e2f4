----------------------------- MODULE ReplayPage -----------------------------
(***************************************************************************)
(* The recording player's browser page (workbench_web/app.js) with the     *)
(* replay routes (web.py) between it and the player of module Replay.      *)
(*                                                                         *)
(* Controls and polls share the replayBusy flag, so one of them at a time  *)
(* is under way.  A selection ignores the flag: it can overtake or be      *)
(* overtaken, as a request and as an answer.  Another client may use the   *)
(* same routes.                                                            *)
(***************************************************************************)
EXTENDS Replay

CONSTANTS
  MaxSelects,     \* bound: selections under way at the same time
  MaxOperations,  \* bound: operations of the page's user
  MaxOthers,      \* bound: operations of another client
  MaxFailures     \* bound: requests that fail in the network

ASSUME PageBoundsAssumption ==
  {MaxSelects, MaxOperations, MaxOthers, MaxFailures} \subseteq Nat

VARIABLES
  shown,       \* the carrier status rendered last
  timer,       \* replayTimer is set
  busy,        \* replayBusy
  exchanges,   \* the HTTP exchange each slot has under way
  operations, others, failures   \* how much of each bound is used

pageVars == <<shown, timer, busy>>
boundVars == <<operations, others, failures>>
vars == <<replayVars, pageVars, exchanges, boundVars>>

(* The slot of controls and polls, and those of selections.                *)
BusySlot == 0
Slots == BusySlot..MaxSelects
SelectSlots == Slots \ {BusySlot}

Status(p) == [recording |-> p.recording, state |-> p.state, cursor |-> p.cursor]

Nothing == [stage |-> "none"]
Request(call) == [stage |-> "request", call |-> call]
Answer(call, error, status) ==
  [stage |-> "answer", call |-> call, error |-> error, status |-> status]

Poll == [kind |-> "poll"]
Select(r) == [kind |-> "select", recording |-> r]
Control(action, speed) == [kind |-> "control", action |-> action, speed |-> speed]

Init ==
  /\ ReplayInit
  /\ shown = Status(Unloaded) /\ timer = FALSE /\ busy = FALSE
  /\ exchanges = [s \in Slots |-> Nothing]
  /\ operations = 0 /\ others = 0 /\ failures = 0

Sends(slot, call) ==
  /\ exchanges[slot] = Nothing
  /\ exchanges' = [exchanges EXCEPT ![slot] = Request(call)]

-----------------------------------------------------------------------------
(* The page. *)

(* Which buttons the last rendered status leaves to press.  Only play and  *)
(* the speed list send a speed.                                            *)
Offered ==
  [play  |-> shown.state \notin {"playing", "complete"},
   pause |-> shown.state = "playing",
   step  |-> shown.state \notin {"playing", "complete"},
   reset |-> ~(shown.state = "ready" /\ shown.cursor = 0),
   speed |-> shown.state # "complete"]

ControlCalls ==
  {Control(a, s) : a \in {"play", "speed"}, s \in Speeds}
    \cup {Control(a, NoSpeed) : a \in {"pause", "step", "reset"}}

(* replayAction.                                                           *)
UserControls ==
  /\ operations < MaxOperations
  /\ ~busy
  /\ shown.recording # NoRecording
  /\ \E call \in ControlCalls :
       Offered[call.action] /\ Sends(BusySlot, call)
  /\ busy' = TRUE
  /\ operations' = operations + 1
  /\ UNCHANGED <<replayVars, shown, timer, others, failures>>

(* selectRecording stops the polling and does not look at replayBusy.      *)
UserSelects ==
  /\ operations < MaxOperations
  /\ \E slot \in SelectSlots, r \in Recordings :
       /\ \A free \in SelectSlots : exchanges[free] = Nothing => slot <= free
       /\ Sends(slot, Select(r))
  /\ timer' = FALSE
  /\ operations' = operations + 1
  /\ UNCHANGED <<replayVars, shown, busy, others, failures>>

(* pollReplay: the interval timer fires.                                   *)
PollTimer ==
  /\ timer
  /\ ~busy
  /\ Sends(BusySlot, Poll)
  /\ busy' = TRUE
  /\ UNCHANGED <<replayVars, shown, timer, boundVars>>

(* renderReplayState, which does nothing without a recording.              *)
Render(status) ==
  IF status.recording = NoRecording THEN UNCHANGED <<shown, timer>>
  ELSE shown' = status /\ timer' = (status.state = "playing")

(* An error is shown; the one of a poll ends the polling.                  *)
ShowError(call) ==
  /\ timer' = (timer /\ call.kind # "poll")
  /\ UNCHANGED shown

(* Mutant: after a poll the page stays busy.                               *)
MutantFinished(slot) ==
  /\ exchanges' = [exchanges EXCEPT ![slot] = Nothing]
  /\ busy' = busy

(* The finally blocks of replayAction and pollReplay.                      *)
Finished(slot) ==
  /\ exchanges' = [exchanges EXCEPT ![slot] = Nothing]
  /\ busy' = (busy /\ slot # BusySlot)

AnswerArrives(slot) ==
  LET answer == exchanges[slot]
  IN  /\ answer.stage = "answer"
      /\ IF answer.error = "none" THEN Render(answer.status) ELSE ShowError(answer.call)
      /\ Finished(slot)
      /\ UNCHANGED <<replayVars, boundVars>>

(* The request or its answer gets lost.                                    *)
ExchangeFails(slot) ==
  /\ failures < MaxFailures
  /\ exchanges[slot] # Nothing
  /\ ShowError(exchanges[slot].call)
  /\ Finished(slot)
  /\ failures' = failures + 1
  /\ UNCHANGED <<replayVars, operations, others>>

-----------------------------------------------------------------------------
(* The routes of web.py, one handler at a time. *)

Handled(call) ==
  \/ call.kind = "poll" /\ ReplayState
  \/ call.kind = "select" /\ SelectReplay(call.recording)
  \/ call.kind = "control" /\ ServeControl(call.action, call.speed)

ErrorOf(call) ==
  IF call.kind = "control"
    THEN ControlReplay(player, call.action, call.speed).error ELSE "none"

ServerHandles(slot) ==
  LET call == exchanges[slot].call
  IN  /\ exchanges[slot].stage = "request"
      /\ Handled(call)
      /\ exchanges' = [exchanges EXCEPT ![slot] =
                         Answer(call, ErrorOf(call), Status(player'))]
      /\ UNCHANGED <<pageVars, boundVars>>

(* Another client: it may ask for any action with any speed or none.       *)
OtherCalls ==
  {Poll} \cup {Select(r) : r \in Recordings}
    \cup {Control(a, s) : a \in Actions \ {"speed"}, s \in Speeds \cup {NoSpeed}}

OtherClient ==
  /\ others < MaxOthers
  /\ \E call \in OtherCalls : Handled(call)
  /\ others' = others + 1
  /\ UNCHANGED <<pageVars, exchanges, operations, failures>>

ClockTicks == Tick /\ UNCHANGED <<pageVars, exchanges, boundVars>>

Next ==
  \/ UserControls \/ UserSelects \/ PollTimer
  \/ \E slot \in Slots :
       AnswerArrives(slot) \/ ExchangeFails(slot) \/ ServerHandles(slot)
  \/ OtherClient \/ ClockTicks

(* The clock runs, the page's timer fires, and every exchange comes to an  *)
(* end.  Nobody has to press anything.                                     *)
Fairness ==
  /\ WF_vars(ClockTicks) /\ WF_vars(PollTimer)
  /\ \A slot \in Slots : WF_vars(ServerHandles(slot)) /\ WF_vars(AnswerArrives(slot))

Spec == Init /\ [][Next]_vars /\ Fairness

-----------------------------------------------------------------------------
(* Properties. *)

(* The types of the variables; no run checks them.                        *)
TypeOK ==
  /\ ReplayTypeOK
  /\ shown \in [recording : Recordings \cup {NoRecording}, state : PlayerStates,
                cursor : Nat]
  /\ timer \in BOOLEAN /\ busy \in BOOLEAN
  /\ \A slot \in Slots : exchanges[slot].stage \in {"none", "request", "answer"}
  /\ busy <=> exchanges[BusySlot] # Nothing
  /\ operations \in 0..MaxOperations /\ others \in 0..MaxOthers
  /\ failures \in 0..MaxFailures

(* A recording that plays while the page polls gets to its end, unless an  *)
(* operation, an error or an answer from before ends the polling.          *)
PolledPlaybackEnds ==
  (player.state = "playing" /\ timer) ~> (player.state # "playing" \/ ~timer)

(* "Playback is advanced by explicit browser/API polling" (docs/           *)
(* deterministic-recordings.md): the one page in use, with nothing under   *)
(* way and nothing failed, polls a recording that is playing.  It is not   *)
(* so: a selection's answer may overtake a control's (README.md, section 4)*)
PlayingIsPolled ==
  (player.state = "playing" /\ \A slot \in Slots : exchanges[slot] = Nothing) => timer

=============================================================================
