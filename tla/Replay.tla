------------------------------- MODULE Replay -------------------------------
(***************************************************************************)
(* The deterministic recording player: DeterministicReplayTransport        *)
(* (transport.py) and the service operations on it (service.py).  There is *)
(* no replay thread: a frame comes out only of a call, which releases      *)
(* whatever the clock has made due since.                                  *)
(*                                                                         *)
(* The web layer runs one request handler at a time, so a request is one   *)
(* step.  Handlers are written as operators from a player to the player    *)
(* they leave, the frames they return and the error they raise, because    *)
(* control_replay calls two transport operations in a row.                 *)
(*                                                                         *)
(* A recording position is counted in quarters of a millisecond, and a     *)
(* speed in quarters of normal speed: a tick of the clock at speed s moves *)
(* playback by s.                                                          *)
(***************************************************************************)
EXTENDS Integers, Sequences, Functions

CONSTANTS
  Recordings,   \* identifiers of the catalogue
  NoRecording,  \* no recording was selected yet
  At,           \* At[r]: when each frame of r is due, in order
  Duration,     \* Duration[r]
  Speeds,       \* the speeds set_speed accepts
  NormalSpeed

(* The earliest offset replay.py lets through, -1 ms: it compares the first *)
(* entry with a previous_at of -1.                                         *)
Earliest == -4

(* What replay.py checks of an entry's offset.                             *)
ASSUME RecordingsAssumption ==
  /\ NoRecording \notin Recordings
  /\ Duration \in [Recordings -> Nat]
  /\ At \in [Recordings -> Seq(Int)]
  /\ \A r \in Recordings :
       /\ At[r] # <<>>
       /\ \A i, j \in DOMAIN At[r] : i <= j => At[r][i] <= At[r][j]
       /\ \A i \in DOMAIN At[r] : Earliest <= At[r][i] /\ At[r][i] <= Duration[r]

ASSUME SpeedsAssumption == Speeds \subseteq Nat \ {0} /\ NormalSpeed \in Speeds

VARIABLES
  player,     \* the transport's fields
  journaled,  \* history: frames of this pass put in the journal, in order
  lost,       \* history: frames of this pass that left the player only
  playTime    \* history: playback time of this pass, as a listener counts it

replayVars == <<player, journaled, lost, playTime>>

PlayerStates == {"idle", "ready", "playing", "paused", "complete"}

(* elapsed is the clock's advance since _anchor_clock.                     *)
Players ==
  [recording : Recordings \cup {NoRecording}, cursor : Nat, position : Int,
   speed : Speeds, state : PlayerStates, anchor : Int, elapsed : Nat]

Unloaded ==
  [recording |-> NoRecording, cursor |-> 0, position |-> 0, speed |-> NormalSpeed,
   state |-> "idle", anchor |-> 0, elapsed |-> 0]

FrameCount(p) == IF p.recording = NoRecording THEN 0 ELSE Len(At[p.recording])
FrameDue(p, i) == At[p.recording][i]
End(p) == Duration[p.recording]

ReplayInit ==
  player = Unloaded /\ journaled = <<>> /\ lost = {} /\ playTime = 0

-----------------------------------------------------------------------------
(* The transport's operations. *)

Returns(p, frames) == [player |-> p, delivered |-> frames, error |-> "none"]
RaisesError(p, code) == [player |-> p, delivered |-> <<>>, error |-> code]

Target(p) ==
  LET reached == p.anchor + p.elapsed * p.speed
  IN  IF reached < End(p) THEN reached ELSE End(p)

(* The cursor behind every frame that is due at a position.                *)
CursorAt(p, position) ==
  CHOOSE c \in p.cursor..FrameCount(p) :
    /\ \A i \in (p.cursor + 1)..c : FrameDue(p, i) <= position
    /\ c < FrameCount(p) => FrameDue(p, c + 1) > position

(* The numbers of the frames from one cursor to another.                   *)
FramesBetween(from, to) == [i \in 1..(to - from) |-> from + i]

(* Mutant: playback does not end with the last frame.                      *)
MutantAdvance(p) ==
  IF p.state # "playing" THEN Returns(p, <<>>)
  ELSE LET to == CursorAt(p, Target(p))
       IN  Returns([p EXCEPT !.position = Target(p), !.cursor = to],
                   FramesBetween(p.cursor, to))

(* _advance_unlocked.                                                      *)
Advance(p) ==
  IF p.state # "playing" THEN Returns(p, <<>>)
  ELSE LET to == CursorAt(p, Target(p))
           last == to = FrameCount(p)
       IN  Returns([p EXCEPT !.cursor = to,
                             !.position = IF last THEN End(p) ELSE Target(p),
                             !.state = IF last THEN "complete" ELSE "playing"],
                   FramesBetween(p.cursor, to))

Anchored(p) == [p EXCEPT !.anchor = p.position, !.elapsed = 0]

Play(p) ==
  IF p.recording = NoRecording THEN RaisesError(p, "REPLAY_NOT_SELECTED")
  ELSE IF p.state = "complete" THEN RaisesError(p, "REPLAY_COMPLETE")
  ELSE IF p.state = "playing" THEN Advance(p)
  ELSE Advance(Anchored([p EXCEPT !.state = "playing"]))

Pause(p) ==
  IF p.recording = NoRecording THEN RaisesError(p, "REPLAY_NOT_SELECTED")
  ELSE [Advance(p) EXCEPT !.player.state = IF @ = "playing" THEN "paused" ELSE @]

Rewound(p) == [p EXCEPT !.cursor = 0, !.position = 0, !.state = "ready",
                        !.anchor = 0, !.elapsed = 0]

(* Mutant: a reset leaves the cursor where it was.                         *)
MutantReset(p) ==
  IF p.recording = NoRecording THEN RaisesError(p, "REPLAY_NOT_SELECTED")
  ELSE Returns([Rewound(p) EXCEPT !.cursor = p.cursor], <<>>)

(* The speed is kept.                                                      *)
Reset(p) ==
  IF p.recording = NoRecording THEN RaisesError(p, "REPLAY_NOT_SELECTED")
  ELSE Returns(Rewound(p), <<>>)

(* Mutant: a step leaves the position where it was.                        *)
MutantStep(p) ==
  LET next == p.cursor + 1
  IN  IF p.state = "playing" THEN RaisesError(p, "REPLAY_PLAYING")
      ELSE IF p.cursor >= FrameCount(p) THEN RaisesError(p, "REPLAY_COMPLETE")
      ELSE Returns([p EXCEPT !.cursor = next,
                      !.state = IF next = FrameCount(p) THEN "complete" ELSE "paused"],
                   <<next>>)

Step(p) ==
  LET next == p.cursor + 1
  IN  IF p.recording = NoRecording THEN RaisesError(p, "REPLAY_NOT_SELECTED")
      ELSE IF p.state = "playing" THEN RaisesError(p, "REPLAY_PLAYING")
      ELSE IF p.cursor >= FrameCount(p) THEN RaisesError(p, "REPLAY_COMPLETE")
      ELSE Returns([p EXCEPT !.cursor = next, !.position = FrameDue(p, next),
                      !.state = IF next = FrameCount(p) THEN "complete" ELSE "paused"],
                   <<next>>)

(* Mutant: playback is not anchored anew when the speed changes.           *)
MutantSetSpeed(p, speed) ==
  IF p.recording = NoRecording THEN RaisesError(p, "REPLAY_NOT_SELECTED")
  ELSE [Advance(p) EXCEPT !.player.speed = speed]

(* The clock is read for the advance and again for the anchor; the time in *)
(* between is taken to be none.                                            *)
SetSpeed(p, speed) ==
  LET advanced == Advance(p)
      changed == [advanced.player EXCEPT !.speed = speed]
  IN  IF p.recording = NoRecording THEN RaisesError(p, "REPLAY_NOT_SELECTED")
      ELSE Returns(IF changed.state = "playing" THEN Anchored(changed) ELSE changed,
                   advanced.delivered)

-----------------------------------------------------------------------------
(* The service's operations. *)

NoSpeed == 0
Actions == {"play", "pause", "step", "reset", "speed"}

Controlled(action, p) ==
  CASE action = "play"  -> Play(p)
    [] action = "pause" -> Pause(p)
    [] action = "step"  -> Step(p)
    [] action = "reset" -> Reset(p)
    [] action = "speed" -> Returns(p, <<>>)

(* control_replay: the speed, if one is given, and then the action.  The   *)
(* frames that left the player come with the error of either call.         *)
ControlReplay(p, action, speed) ==
  LET first == IF speed = NoSpeed THEN Returns(p, <<>>) ELSE SetSpeed(p, speed)
  IN  IF first.error # "none" THEN first
      ELSE [Controlled(action, first.player) EXCEPT
              !.delivered = first.delivered \o @]

(* Mutant: what a poll returns is not journaled.                           *)
MutantServe(result) ==
  /\ player' = result.player
  /\ UNCHANGED <<journaled, lost, playTime>>

(* _replay_response journals each frame returned; after an error there is  *)
(* no response, and what had left the player is gone.                      *)
Serve(result) ==
  LET frames == result.delivered
  IN  /\ player' = result.player
      /\ IF result.error = "none"
           THEN journaled' = journaled \o frames /\ UNCHANGED lost
           ELSE lost' = lost \cup Range(frames) /\ UNCHANGED journaled
      /\ UNCHANGED playTime

(* A reset starts a new pass; what it returned belonged to the last one.   *)
NewPass(p) == player' = p /\ journaled' = <<>> /\ lost' = {} /\ playTime' = 0

(* select_replay: load, whatever the player was doing.                     *)
SelectReplay(r) ==
  NewPass([Unloaded EXCEPT !.recording = r, !.state = "ready"])

(* replay_state: poll.                                                     *)
ReplayState == Serve(Advance(player))

ServeControl(action, speed) ==
  LET result == ControlReplay(player, action, speed)
  IN  CASE action = "reset" /\ result.error = "none" -> NewPass(result.player)
        [] action = "step" /\ result.error = "none" ->
             /\ player' = result.player
             /\ journaled' = journaled \o result.delivered
             /\ playTime' = result.player.position
             /\ UNCHANGED lost
        [] OTHER -> Serve(result)

(* The clock moves on.  Time counts only while a recording is playing, and *)
(* only until its end.                                                     *)
Tick ==
  /\ player.state = "playing"
  /\ player.anchor + player.elapsed * player.speed < End(player)
  /\ player' = [player EXCEPT !.elapsed = @ + 1]
  /\ playTime' = playTime + player.speed
  /\ UNCHANGED <<journaled, lost>>

-----------------------------------------------------------------------------
(* Properties of the player. *)

ReplayTypeOK ==
  /\ player \in Players
  /\ journaled \in Seq(Nat)
  /\ lost \subseteq Nat
  /\ playTime \in Int

(* A frame that is due before the first moment of the recording, at -1 ms, *)
(* waits until the player is started or stepped.                           *)
WaitsForStart(p, i) == p.state = "ready" /\ FrameDue(p, i) < 0

(* A frame has left the player exactly if its time is not after the        *)
(* position; frames due at the position itself may still be to come, and   *)
(* frames due before the recording begins come with the first operation    *)
(* that releases any (_advance_unlocked, step, replay.py's admission).     *)
DeliveredAsScheduled ==
  \A i \in 1..FrameCount(player) :
    /\ i <= player.cursor => FrameDue(player, i) <= player.position
    /\ i > player.cursor =>
         FrameDue(player, i) >= player.position \/ WaitsForStart(player, i)

(* Changing speed, pausing, stepping and resuming neither skip nor repeat  *)
(* playback time: where playback stands is the time that was listened to.  *)
PositionIsPlayTime ==
  /\ player.state = "playing" =>
       player.anchor + player.elapsed * player.speed = playTime
  /\ player.state \in {"ready", "paused"} => player.position = playTime

(* A pass journals each frame the player released, once and in order,      *)
(* except what an error discarded.                                         *)
JournaledOnceInOrder ==
  /\ Range(journaled) \cup lost = 1..player.cursor
  /\ Range(journaled) \cap lost = {}
  /\ \A i, j \in DOMAIN journaled : i < j => journaled[i] < journaled[j]

(* "complete" says that the last frame was released, and nothing else does. *)
CompleteAtLastFrame ==
  player.recording # NoRecording =>
    (player.state = "complete" <=> player.cursor = FrameCount(player))

(* "The workbench service decodes each delivered frame through the same    *)
(* wire adapter ... and attaches replay provenance to the process-local    *)
(* journal" (docs/deterministic-recordings.md).  It is not so: an action   *)
(* that raises drops what the speed change released (README.md, section 4).*)
EveryFrameJournaled == lost = {}

=============================================================================
