---------------------------- MODULE ReplayProofs ----------------------------
(***************************************************************************)
(* The recording player as its page and other clients drive it, for every  *)
(* catalogue of admitted recordings, every set of speeds and any number of *)
(* operations: it keeps to its schedule, and a pass journals each frame it *)
(* released once and in order.                                             *)
(***************************************************************************)
EXTENDS ReplayPage, TLAPS, WellFoundedInduction, SequenceTheorems

(* Where playback would be, were there no end.                             *)
Reached(p) == p.anchor + p.elapsed * p.speed

(* The two halves of the schedule: what was released was due, and what was *)
(* not is still to come.                                                   *)
ReleasedDue(p) == \A i \in 1..FrameCount(p) : i <= p.cursor => FrameDue(p, i) <= p.position
RestToCome(p) ==
  \A i \in 1..FrameCount(p) :
    i > p.cursor => FrameDue(p, i) >= p.position \/ WaitsForStart(p, i)

(* A player whose listener counts t: besides the properties, the position  *)
(* stays within the recording and never gets ahead of the clock.  Between  *)
(* its start and its first advance, within play, frames may be overdue.    *)
Running(p, t) ==
  /\ p \in Players
  /\ p.cursor \in 0..FrameCount(p)
  /\ p.recording = NoRecording <=> p.state = "idle"
  /\ ReleasedDue(p)
  /\ p.recording # NoRecording =>
       /\ p.state = "complete" <=> p.cursor = FrameCount(p)
       /\ p.position <= End(p)
  /\ p.state = "playing" => Reached(p) = t /\ p.position <= t
  /\ p.state \in {"ready", "paused"} => p.position = t

Sound(p, t) == Running(p, t) /\ RestToCome(p)

Errors == {"none", "REPLAY_NOT_SELECTED", "REPLAY_COMPLETE", "REPLAY_PLAYING"}
Results == [player : Players, delivered : Seq(Nat), error : Errors]

(* What an operation may do within a pass: release the next frames.        *)
Moves(p, t, result) ==
  /\ result \in Results
  /\ Sound(result.player, t)
  /\ result.player.recording = p.recording
  /\ p.cursor <= result.player.cursor
  /\ result.delivered = FramesBetween(p.cursor, result.player.cursor)

(* What a control leaves, by its action and whether it was refused.        *)
ControlOutcome(p, t, action, result) ==
  IF result.error = "none" /\ action = "reset"
    THEN Sound(result.player, 0) /\ result.player.cursor = 0
  ELSE IF result.error = "none" /\ action = "step"
    THEN Moves(p, result.player.position, result) /\ result.player.position \in Int
  ELSE Moves(p, t, result)

(* Two operations in a row, as control_replay makes them.                  *)
Both(first, second) == [second EXCEPT !.delivered = first.delivered \o @]

PassInv ==
  /\ playTime \in Int
  /\ Sound(player, playTime)
  /\ journaled \in Seq(Nat) /\ lost \subseteq Nat
  /\ JournaledOnceInOrder

KnownCalls ==
  {Poll} \cup {Select(r) : r \in Recordings}
    \cup {Control(a, s) : a \in Actions, s \in Speeds \cup {NoSpeed}}

CallsKnown ==
  /\ DOMAIN exchanges = Slots
  /\ \A slot \in Slots : exchanges[slot].stage = "request" => exchanges[slot].call \in KnownCalls

ReplayInv == PassInv /\ CallsKnown

-----------------------------------------------------------------------------
(* What the catalogue says of a player's recording.                        *)
LEMMA Admitted ==
  ASSUME NEW p \in Players, p.recording # NoRecording
  PROVE  /\ p.recording \in Recordings
         /\ FrameCount(p) \in Nat \ {0} /\ End(p) \in Nat
         /\ \A i \in 1..FrameCount(p) : FrameDue(p, i) \in Int /\ FrameDue(p, i) <= End(p)
         /\ \A i, j \in 1..FrameCount(p) : i <= j => FrameDue(p, i) <= FrameDue(p, j)
<1>1. p.recording \in Recordings
  BY DEF Players
<1>2. At[p.recording] \in Seq(Int) /\ At[p.recording] # <<>>
  BY <1>1, RecordingsAssumption
<1>3. DOMAIN At[p.recording] = 1..FrameCount(p) /\ FrameCount(p) \in Nat \ {0}
  BY <1>2 DEF FrameCount
<1>4. End(p) \in Nat
  BY <1>1, RecordingsAssumption DEF End
<1>5. /\ \A i \in 1..FrameCount(p) : At[p.recording][i] <= Duration[p.recording]
      /\ \A i, j \in 1..FrameCount(p) :
           i <= j => At[p.recording][i] <= At[p.recording][j]
  BY <1>1, <1>3, RecordingsAssumption
<1>6. \A i \in 1..FrameCount(p) : At[p.recording][i] \in Int
  BY <1>2, <1>3
<1> QED
  BY <1>1, <1>3, <1>4, <1>5, <1>6 DEF FrameDue, End

(* The types of a player's fields.                                         *)
LEMMA Fields ==
  ASSUME NEW p \in Players
  PROVE  /\ p.cursor \in Nat /\ p.position \in Int /\ p.anchor \in Int /\ p.elapsed \in Nat
         /\ p.speed \in Speeds /\ p.speed \in Nat \ {0}
         /\ p.state \in PlayerStates /\ p.recording \in Recordings \cup {NoRecording}
         /\ FrameCount(p) \in Nat
         /\ p.elapsed * p.speed \in Nat /\ Reached(p) \in Int
<1>1. /\ p.cursor \in Nat /\ p.position \in Int /\ p.anchor \in Int /\ p.elapsed \in Nat
      /\ p.speed \in Speeds /\ p.speed \in Nat \ {0}
      /\ p.state \in PlayerStates /\ p.recording \in Recordings \cup {NoRecording}
  BY SpeedsAssumption DEF Players
<1>2. FrameCount(p) \in Nat
  BY Admitted DEF FrameCount
<1>3. p.elapsed * p.speed \in Nat
  BY <1>1
<1> QED
  BY <1>1, <1>2, <1>3 DEF Reached

(* The loop of _advance_unlocked stops: there is a cursor behind the frames*)
(* that are due, so CursorAt is one.                                       *)
LEMMA CursorFound ==
  ASSUME NEW p \in Players, p.recording # NoRecording,
         p.cursor <= FrameCount(p), NEW position \in Int
  PROVE  /\ CursorAt(p, position) \in p.cursor..FrameCount(p)
         /\ \A i \in (p.cursor + 1)..CursorAt(p, position) : FrameDue(p, i) <= position
         /\ CursorAt(p, position) < FrameCount(p)
              => FrameDue(p, CursorAt(p, position) + 1) > position
<1> DEFINE n == FrameCount(p)
           T == {c \in p.cursor..n : c < n => FrameDue(p, c + 1) > position}
<1>1. p.cursor \in Nat /\ n \in Nat /\ T \subseteq Nat /\ n \in T
  BY Fields
<1>2. PICK c \in T : \A d \in T : ~(<<d, c>> \in OpToRel(<, Nat))
  BY <1>1, NatLessThanWellFounded, WFMin
<1>3. \A d \in T : ~(d < c)
  BY <1>1, <1>2 DEF OpToRel
<1>4. ASSUME NEW i \in (p.cursor + 1)..c PROVE FrameDue(p, i) <= position
  <2>1. i - 1 \in p.cursor..n /\ i - 1 < c /\ i - 1 < n /\ (i - 1) + 1 = i /\ i \in 1..n
    BY <1>1
  <2>2. FrameDue(p, i) \in Int
    BY <2>1, Admitted
  <2>3. i - 1 \notin T
    BY <1>3, <2>1
  <2> QED
    BY <2>1, <2>2, <2>3
<1> DEFINE Good(d) == /\ \A i \in (p.cursor + 1)..d : FrameDue(p, i) <= position
                      /\ d < n => FrameDue(p, d + 1) > position
<1>5. c \in p.cursor..n /\ Good(c)
  BY <1>4
<1> QED
  BY <1>5 DEF CursorAt

(* Frames released one after the other.                                    *)
LEMMA NoFrames == ASSUME NEW c \in Nat PROVE FramesBetween(c, c) = <<>>
  BY DEF FramesBetween

LEMMA FramesTyped ==
  ASSUME NEW a \in Nat, NEW b \in Nat, a <= b PROVE FramesBetween(a, b) \in Seq(Nat)
  BY DEF FramesBetween

LEMMA FramesJoin ==
  ASSUME NEW a \in Nat, NEW b \in Nat, NEW c \in Nat, a <= b, b <= c
  PROVE  FramesBetween(a, b) \o FramesBetween(b, c) = FramesBetween(a, c)
<1> DEFINE F == FramesBetween(a, b)
           G == FramesBetween(b, c)
<1>1. /\ F \in Seq(Nat) /\ Len(F) = b - a /\ \A i \in 1..(b - a) : F[i] = a + i
      /\ G \in Seq(Nat) /\ Len(G) = c - b /\ \A i \in 1..(c - b) : G[i] = b + i
  BY DEF FramesBetween
<1> HIDE DEF F, G
<1>2. /\ F \o G \in Seq(Nat) /\ Len(F \o G) = Len(F) + Len(G)
      /\ \A i \in 1..Len(F) + Len(G) :
           (F \o G)[i] = IF i <= Len(F) THEN F[i] ELSE G[i - Len(F)]
  BY <1>1, ConcatProperties
<1> DEFINE H == F \o G
<1> HIDE DEF H
<1>3. /\ H \in Seq(Nat) /\ Len(H) = c - a
      /\ \A i \in 1..(c - a) : H[i] = IF i <= b - a THEN F[i] ELSE G[i - (b - a)]
  <2>1. Len(F) + Len(G) = c - a
    BY <1>1
  <2>2. H \in Seq(Nat) /\ Len(H) = c - a
    BY <1>2, <2>1 DEF H
  <2>3. ASSUME NEW i \in 1..(c - a)
        PROVE  H[i] = IF i <= b - a THEN F[i] ELSE G[i - (b - a)]
    <3>1. H[i] = IF i <= Len(F) THEN F[i] ELSE G[i - Len(F)]
      BY <1>2, <2>1 DEF H
    <3> QED
      BY <1>1, <3>1
  <2> QED
    BY <2>2, <2>3
<1>4. ASSUME NEW i \in 1..(c - a) PROVE H[i] = a + i
  <2>1. CASE i <= b - a
    BY <1>1, <1>3, <2>1
  <2>2. CASE i > b - a
    <3>1. i - (b - a) \in 1..(c - b)
      BY <2>2
    <3> QED
      BY <1>1, <1>3, <2>2, <3>1
  <2> QED
    BY <2>1, <2>2
<1>5. H = [i \in 1..(c - a) |-> a + i]
  <2>1. DOMAIN H = 1..(c - a) /\ H = [i \in DOMAIN H |-> H[i]]
    BY <1>3
  <2> QED
    BY <1>4, <2>1
<1> QED
  BY <1>5 DEF F, G, H, FramesBetween

-----------------------------------------------------------------------------
(* Advancing keeps a player sound, and makes one that was just started so. *)
(* One that plays on afterwards stands where its listener is.              *)
LEMMA AdvanceMoves ==
  ASSUME NEW p, NEW t \in Int, Running(p, t), p.state = "playing" \/ Sound(p, t)
  PROVE  /\ Moves(p, t, Advance(p)) /\ Advance(p).error = "none"
         /\ p.state # "playing" => Advance(p) = Returns(p, <<>>)
         /\ p.state = "playing" => Advance(p).player.state \in {"playing", "complete"}
         /\ Advance(p).player.state = "playing" => Advance(p).player.position = t
<1> USE DEF Returns
<1>0. p \in Players /\ p.cursor \in 0..FrameCount(p) /\ p.cursor <= p.cursor
  BY Fields DEF Running
<1>1. CASE p.state # "playing"
  <2>1. Advance(p) = Returns(p, <<>>)
    BY <1>1 DEF Advance
  <2>2. <<>> = FramesBetween(p.cursor, p.cursor) /\ <<>> \in Seq(Nat)
    BY <1>0, NoFrames, Fields
  <2>3. Moves(p, t, Returns(p, <<>>))
    BY <1>0, <1>1, <2>2 DEF Moves, Results, Errors
  <2> QED
    BY <1>1, <2>1, <2>3
<1>2. CASE p.state = "playing"
  <2> DEFINE target == Target(p)
             to == CursorAt(p, target)
             last == to = FrameCount(p)
             q == [p EXCEPT !.cursor = to, !.position = IF last THEN End(p) ELSE target,
                            !.state = IF last THEN "complete" ELSE "playing"]
  <2>1. /\ p.recording # NoRecording /\ p.recording \in Recordings
        /\ End(p) \in Nat /\ FrameCount(p) \in Nat \ {0}
        /\ Reached(p) = t /\ p.position <= t /\ p.position <= End(p) /\ p.position \in Int
    BY <1>0, <1>2, Admitted, Fields DEF Running
  <2>2. target \in Int /\ target <= End(p) /\ p.position <= target
        /\ (target = t \/ target = End(p))
    BY <2>1, <1>0 DEF Target, Reached
  <2>3. /\ to \in p.cursor..FrameCount(p)
        /\ \A i \in (p.cursor + 1)..to : FrameDue(p, i) <= target
        /\ to < FrameCount(p) => FrameDue(p, to + 1) > target
    BY <1>0, <2>1, <2>2, CursorFound
  <2> HIDE DEF to, target
  <2>4. Advance(p) = Returns(q, FramesBetween(p.cursor, to))
    BY <1>2 DEF Advance, to, target
  <2>5. /\ q \in Players
        /\ q.recording = p.recording /\ q.cursor = to /\ q.speed = p.speed
        /\ q.anchor = p.anchor /\ q.elapsed = p.elapsed
        /\ q.position = (IF last THEN End(p) ELSE target)
        /\ q.state = (IF last THEN "complete" ELSE "playing")
        /\ FrameCount(q) = FrameCount(p) /\ End(q) = End(p)
        /\ \A i \in Nat : FrameDue(q, i) = FrameDue(p, i)
    <3>1. /\ to \in Nat /\ (IF last THEN End(p) ELSE target) \in Int
          /\ (IF last THEN "complete" ELSE "playing") \in PlayerStates
      BY <1>0, <2>1, <2>2, <2>3 DEF PlayerStates
    <3>2. /\ q \in Players
          /\ q.recording = p.recording /\ q.cursor = to /\ q.speed = p.speed
          /\ q.anchor = p.anchor /\ q.elapsed = p.elapsed
          /\ q.position = (IF last THEN End(p) ELSE target)
          /\ q.state = (IF last THEN "complete" ELSE "playing")
      BY <1>0, <3>1 DEF Players
    <3> HIDE DEF q
    <3> QED
      BY <3>2 DEF FrameCount, End, FrameDue
  <2> HIDE DEF q
  <2>6. ~last => target = t
    <3> SUFFICES ASSUME ~last PROVE target # End(p)
      BY <2>2
    <3>1. to + 1 \in 1..FrameCount(p) /\ FrameDue(p, to + 1) > target
      BY <1>0, <2>1, <2>3
    <3> QED
      BY <1>0, <2>1, <2>2, <3>1, Admitted
  <2>7. ReleasedDue(q)
    <3> SUFFICES ASSUME NEW i \in 1..FrameCount(p), i <= to
                 PROVE  FrameDue(p, i) <= q.position
      BY <2>5 DEF ReleasedDue
    <3>1. FrameDue(p, i) \in Int /\ FrameDue(p, i) <= End(p)
      BY <1>0, <2>1, Admitted
    <3>2. CASE i <= p.cursor
      <4>1. FrameDue(p, i) <= p.position
        BY <3>2 DEF Running, ReleasedDue
      <4> QED
        BY <1>0, <2>1, <2>2, <2>5, <3>1, <4>1
    <3>3. CASE i > p.cursor
      <4>1. FrameDue(p, i) <= target
        BY <1>0, <2>3, <3>3
      <4> QED
        BY <2>2, <2>5, <3>1, <4>1
    <3> QED
      BY <1>0, <3>2, <3>3
  <2>7a. RestToCome(q)
    <3> SUFFICES ASSUME NEW i \in 1..FrameCount(p), i > to
                 PROVE  FrameDue(p, i) >= q.position
      BY <2>5 DEF RestToCome
    <3>1. to + 1 \in 1..FrameCount(p) /\ ~last /\ FrameDue(p, to + 1) > target
      BY <1>0, <2>1, <2>3
    <3>2. /\ FrameDue(p, to + 1) <= FrameDue(p, i)
          /\ FrameDue(p, to + 1) \in Int /\ FrameDue(p, i) \in Int
      BY <1>0, <2>1, <2>3, <3>1, Admitted
    <3> QED
      BY <2>2, <2>5, <3>1, <3>2
  <2>8. Sound(q, t)
    <3>1. q.state = "playing" => Reached(q) = t /\ q.position <= t
      BY <2>1, <2>2, <2>5, <2>6 DEF Reached
    <3>2. q.position <= End(q) /\ q.cursor \in 0..FrameCount(q)
      BY <1>0, <2>1, <2>2, <2>3, <2>5
    <3> QED
      BY <2>1, <2>5, <2>7, <2>7a, <3>1, <3>2 DEF Running, Sound
  <2>9. /\ Advance(p).player = q /\ Advance(p).error = "none"
        /\ Advance(p).delivered = FramesBetween(p.cursor, to)
    BY <2>4
  <2>10. Moves(p, t, Advance(p))
    <3>1. FramesBetween(p.cursor, to) \in Seq(Nat)
      <4>1. p.cursor \in Nat /\ to \in Nat /\ p.cursor <= to
        BY <1>0, <2>3, Fields
      <4> QED
        BY <4>1, FramesTyped
    <3>2. Advance(p) \in Results
      BY <2>4, <2>5, <3>1 DEF Results, Errors
    <3> QED
      BY <1>0, <2>3, <2>5, <2>8, <2>9, <3>2 DEF Moves
  <2> QED
    BY <1>2, <2>5, <2>6, <2>9, <2>10
<1> QED
  BY <1>1, <1>2

(* What does not touch cursor and position leaves a player running, if it  *)
(* starts or stops where the listener is and starts the clock there; and   *)
(* sound, unless that starts one that was ready.                           *)
LEMMA Retimed ==
  ASSUME NEW p, NEW t \in Int, Sound(p, t), p.recording # NoRecording,
         NEW q \in Players,
         q.recording = p.recording, q.cursor = p.cursor, q.position = p.position,
         q.state = p.state \/ ({p.state, q.state} \subseteq {"ready", "playing", "paused"}
                                 /\ p.position = t),
         q.state = "playing" => Reached(q) = t
  PROVE  /\ Running(q, t)
         /\ (p.state = "ready" => q.state = "ready") => Sound(q, t)
<1>1. /\ FrameCount(q) = FrameCount(p) /\ End(q) = End(p)
      /\ \A i : FrameDue(q, i) = FrameDue(p, i)
  BY DEF FrameCount, End, FrameDue
<1>2. ReleasedDue(q)
  BY <1>1 DEF Sound, Running, ReleasedDue
<1>3. q.state # "idle" /\ (q.state = "complete" <=> p.state = "complete")
  BY DEF Sound, Running
<1>4. q.state = "playing" => q.position <= t
  BY DEF Sound, Running
<1>5. q.state \in {"ready", "paused"} => q.position = t
  BY DEF Sound, Running
<1>6. Running(q, t)
  BY <1>1, <1>2, <1>3, <1>4, <1>5 DEF Sound, Running
<1>7. ASSUME p.state = "ready" => q.state = "ready" PROVE RestToCome(q)
  BY <1>1, <1>7 DEF Sound, RestToCome, WaitsForStart
<1> QED
  BY <1>6, <1>7 DEF Sound, Running

(* An operation that refuses leaves the player alone.                      *)
LEMMA StaysSound ==
  ASSUME NEW p, NEW t \in Int, Sound(p, t), NEW error \in Errors
  PROVE  Moves(p, t, [player |-> p, delivered |-> <<>>, error |-> error])
<1>1. p \in Players /\ p.cursor \in Nat /\ <<>> \in Seq(Nat)
  BY Fields DEF Sound, Running
<1>2. FramesBetween(p.cursor, p.cursor) = <<>> /\ p.cursor <= p.cursor
  BY <1>1, NoFrames
<1> QED
  BY <1>1, <1>2 DEF Moves, Results

(* set_speed anchors a player that plays on.                               *)
LEMMA SetSpeedMoves ==
  ASSUME NEW p, NEW t \in Int, NEW speed \in Speeds, Sound(p, t)
  PROVE  Moves(p, t, SetSpeed(p, speed))
<1>1. CASE p.recording = NoRecording
  BY <1>1, StaysSound DEF SetSpeed, RaisesError, Errors
<1>2. CASE p.recording # NoRecording
  <2> DEFINE a == Advance(p).player
             changed == [a EXCEPT !.speed = speed]
             q == IF changed.state = "playing" THEN Anchored(changed) ELSE changed
  <2>1. Moves(p, t, Advance(p)) /\ (a.state = "playing" => a.position = t)
    BY AdvanceMoves DEF Sound
  <2>2. a \in Players /\ Sound(a, t) /\ a.recording # NoRecording
    BY <1>2, <2>1 DEF Moves, Sound, Running
  <2> HIDE DEF a
  <2>3. /\ changed \in Players /\ changed.speed = speed /\ changed.state = a.state
        /\ changed.position = a.position /\ changed.cursor = a.cursor
        /\ changed.recording = a.recording
    BY <2>2 DEF Players
  <2> HIDE DEF changed
  <2>4. /\ q \in Players /\ q.state = a.state /\ q.position = a.position
        /\ q.cursor = a.cursor /\ q.recording = a.recording /\ q.speed = speed
        /\ q.state = "playing" => q.anchor = a.position /\ q.elapsed = 0
    <3>1. changed.position \in Int
      BY <2>3, Fields
    <3> QED
      BY <2>3, <3>1 DEF Anchored, Players
  <2>5. SetSpeed(p, speed) = Returns(q, Advance(p).delivered)
    BY <1>2 DEF SetSpeed, a, changed
  <2> HIDE DEF q
  <2>6. q.state = "playing" => Reached(q) = t
    BY <2>1, <2>4, SpeedsAssumption DEF Reached
  <2>7. Sound(q, t)
    BY <2>2, <2>4, <2>6, Retimed
  <2> QED
    BY <2>1, <2>4, <2>5, <2>7 DEF Moves, Returns, Results, Errors, a
<1> QED
  BY <1>1, <1>2

(* play starts the clock where playback stands.                            *)
LEMMA PlayMoves ==
  ASSUME NEW p, NEW t \in Int, Sound(p, t)
  PROVE  Moves(p, t, Play(p))
<1>1. CASE p.recording = NoRecording \/ p.state = "complete"
  BY <1>1, StaysSound DEF Play, RaisesError, Errors
<1>2. CASE p.recording # NoRecording /\ p.state = "playing"
  BY <1>2, AdvanceMoves DEF Play, Sound
<1>3. CASE p.recording # NoRecording /\ p.state \notin {"playing", "complete"}
  <2> DEFINE q == Anchored([p EXCEPT !.state = "playing"])
  <2>1. p \in Players /\ p.state \in {"ready", "paused"} /\ p.position = t
    BY <1>3, Fields DEF Sound, Running, PlayerStates
  <2>2. /\ q \in Players /\ q.recording = p.recording /\ q.cursor = p.cursor
        /\ q.position = p.position /\ q.state = "playing" /\ q.anchor = t /\ q.elapsed = 0
    BY <2>1 DEF Anchored, Players, PlayerStates
  <2>3. Play(p) = Advance(q)
    BY <1>3 DEF Play
  <2> HIDE DEF q
  <2>4. Reached(q) = t
    BY <2>2, Fields DEF Reached
  <2>5. Running(q, t)
    BY <1>3, <2>1, <2>2, <2>4, Retimed
  <2>6. Moves(q, t, Advance(q))
    BY <2>2, <2>5, AdvanceMoves
  <2> QED
    BY <2>2, <2>3, <2>6 DEF Moves
<1> QED
  BY <1>1, <1>2, <1>3

(* pause stops a player that plays on after what was due.                  *)
LEMMA PauseMoves ==
  ASSUME NEW p, NEW t \in Int, Sound(p, t)
  PROVE  Moves(p, t, Pause(p))
<1>1. CASE p.recording = NoRecording
  BY <1>1, StaysSound DEF Pause, RaisesError, Errors
<1>2. CASE p.recording # NoRecording
  <2> DEFINE a == Advance(p)
             q == [a.player EXCEPT !.state = IF @ = "playing" THEN "paused" ELSE @]
  <2>1. Moves(p, t, a) /\ (a.player.state = "playing" => a.player.position = t)
    BY AdvanceMoves DEF Sound
  <2>2. Pause(p) = [a EXCEPT !.player = q]
    BY <1>2, <2>1 DEF Pause
  <2> HIDE DEF a
  <2>3. a.player \in Players /\ Sound(a.player, t) /\ a.player.recording = p.recording
    BY <2>1 DEF Moves, Sound, Running
  <2>4. /\ q \in Players /\ q.recording = p.recording /\ q.cursor = a.player.cursor
        /\ q.position = a.player.position
        /\ q.state = IF a.player.state = "playing" THEN "paused" ELSE a.player.state
    BY <2>3 DEF Players, PlayerStates
  <2> HIDE DEF q
  <2>5. Sound(q, t)
    BY <1>2, <2>1, <2>3, <2>4, Retimed DEF Sound, Running
  <2> QED
    BY <2>1, <2>2, <2>4, <2>5 DEF Moves, Results
<1> QED
  BY <1>1, <1>2

(* A step moves listener and playback to the frame it releases.            *)
LEMMA StepMoves ==
  ASSUME NEW p, NEW t \in Int, Sound(p, t)
  PROVE  IF Step(p).error = "none"
         THEN Moves(p, Step(p).player.position, Step(p)) /\ Step(p).player.position \in Int
         ELSE Moves(p, t, Step(p))
<1> DEFINE next == p.cursor + 1
           refused == \/ p.recording = NoRecording \/ p.state = "playing"
                      \/ p.cursor >= FrameCount(p)
<1>1. CASE refused
  BY <1>1, StaysSound DEF Step, RaisesError, Errors
<1>2. CASE ~refused
  <2> DEFINE q == [p EXCEPT !.cursor = next, !.position = FrameDue(p, next),
                     !.state = IF next = FrameCount(p) THEN "complete" ELSE "paused"]
  <2>1. /\ p \in Players /\ p.recording # NoRecording /\ p.recording \in Recordings
        /\ p.cursor \in Nat /\ FrameCount(p) \in Nat /\ next \in 1..FrameCount(p)
        /\ p.cursor <= next /\ next \in Nat
    BY <1>2, Fields DEF Sound, Running
  <2>2. FrameDue(p, next) \in Int /\ FrameDue(p, next) <= End(p)
    BY <2>1, Admitted
  <2>3. /\ q \in Players /\ q.recording = p.recording /\ q.cursor = next
        /\ q.position = FrameDue(p, next)
        /\ q.state = IF next = FrameCount(p) THEN "complete" ELSE "paused"
    BY <2>1, <2>2 DEF Players, PlayerStates
  <2>4. Step(p) = Returns(q, <<next>>)
    BY <1>2 DEF Step
  <2> HIDE DEF q
  <2>5. /\ FrameCount(q) = FrameCount(p) /\ End(q) = End(p)
        /\ \A i : FrameDue(q, i) = FrameDue(p, i)
    BY <2>3 DEF FrameCount, End, FrameDue
  <2>6. ReleasedDue(q) /\ RestToCome(q)
    BY <2>1, <2>3, <2>5, Admitted DEF ReleasedDue, RestToCome
  <2>7. Sound(q, q.position)
    BY <2>1, <2>2, <2>3, <2>5, <2>6 DEF Sound, Running
  <2>8. <<next>> = FramesBetween(p.cursor, next) /\ <<next>> \in Seq(Nat)
    BY <2>1 DEF FramesBetween
  <2>9. Moves(p, q.position, Returns(q, <<next>>))
    BY <2>1, <2>3, <2>7, <2>8 DEF Moves, Returns, Results, Errors
  <2> QED
    BY <2>2, <2>3, <2>4, <2>9 DEF Returns
<1> QED
  BY <1>1, <1>2

(* A reset begins another pass.                                            *)
LEMMA ResetRewinds ==
  ASSUME NEW p, NEW t \in Int, Sound(p, t)
  PROVE  /\ Reset(p).error \in Errors /\ Reset(p) \in Results
         /\ IF Reset(p).error = "none"
            THEN Sound(Reset(p).player, 0) /\ Reset(p).player.cursor = 0
            ELSE Moves(p, t, Reset(p))
<1>1. CASE p.recording = NoRecording
  <2>1. Moves(p, t, Reset(p)) /\ Reset(p).error = "REPLAY_NOT_SELECTED"
    BY <1>1, StaysSound DEF Reset, RaisesError, Errors
  <2> QED
    BY <2>1 DEF Moves, Results
<1>2. CASE p.recording # NoRecording
  <2>1. p \in Players /\ FrameCount(p) \in Nat \ {0} /\ End(p) \in Nat
    BY <1>2, Admitted DEF Sound, Running
  <2> DEFINE q == Rewound(p)
  <2>2. /\ q \in Players /\ q.recording = p.recording /\ q.cursor = 0
        /\ q.position = 0 /\ q.state = "ready"
    <3>1. 0 \in Int /\ 0 \in Nat /\ "ready" \in PlayerStates
      BY DEF PlayerStates
    <3> QED
      BY <2>1, <3>1 DEF Rewound, Players
  <2> HIDE DEF q
  <2>3. /\ FrameCount(q) = FrameCount(p) /\ End(q) = End(p)
        /\ \A i : FrameDue(q, i) = FrameDue(p, i)
    BY <2>2 DEF FrameCount, End, FrameDue
  <2>4. ReleasedDue(q) /\ RestToCome(q)
    <3>1. \A i \in 1..FrameCount(p) : FrameDue(p, i) \in Int
      BY <1>2, <2>1, Admitted
    <3> QED
      BY <2>1, <2>2, <2>3, <3>1 DEF ReleasedDue, RestToCome, WaitsForStart
  <2>5. Sound(q, 0)
    BY <1>2, <2>1, <2>2, <2>3, <2>4 DEF Sound, Running
  <2>6. Reset(p) = Returns(q, <<>>)
    BY <1>2 DEF Reset, q
  <2> QED
    BY <2>2, <2>5, <2>6 DEF Returns, Results, Errors
<1> QED
  BY <1>1, <1>2

(* control_replay: two operations in a row release the frames of both.     *)
LEMMA MovesCompose ==
  ASSUME NEW p, NEW t \in Int, NEW u \in Int, NEW first, NEW second,
         Sound(p, t), Moves(p, t, first), Moves(first.player, u, second)
  PROVE  /\ Moves(p, u, Both(first, second))
         /\ Both(first, second).error = second.error
         /\ Both(first, second).player = second.player
<1> DEFINE both == Both(first, second)
           a == p.cursor
           b == first.player.cursor
           c == second.player.cursor
<1>1. /\ first \in Results /\ second \in Results
      /\ p \in Players /\ first.player \in Players /\ second.player \in Players
      /\ a <= b /\ b <= c
      /\ first.delivered = FramesBetween(a, b) /\ second.delivered = FramesBetween(b, c)
      /\ second.player.recording = p.recording /\ Sound(second.player, u)
  BY DEF Moves, Sound, Running
<1>2. a \in Nat /\ b \in Nat /\ c \in Nat /\ a <= c
  BY <1>1, Fields
<1>3. first.delivered \o second.delivered = FramesBetween(a, c)
  <2> HIDE DEF a, b, c
  <2>1. FramesBetween(a, b) \o FramesBetween(b, c) = FramesBetween(a, c)
    BY <1>1, <1>2, FramesJoin
  <2> QED
    BY <1>1, <2>1, Zenon
<1>4. FramesBetween(a, c) \in Seq(Nat)
  BY <1>2, FramesTyped
<1>5. /\ both \in Results /\ both.delivered = FramesBetween(a, c)
      /\ both.error = second.error /\ both.player = second.player
  BY <1>1, <1>3, <1>4 DEF Results, Both
<1> HIDE DEF both
<1>6. Moves(p, u, both)
  BY <1>1, <1>2, <1>5 DEF Moves
<1> QED
  BY <1>5, <1>6 DEF both

(* What a control leaves, by the action and its outcome.                   *)
LEMMA ControlMoves ==
  ASSUME NEW p, NEW t \in Int, Sound(p, t),
         NEW action \in Actions, NEW speed \in Speeds \cup {NoSpeed}
  PROVE  ControlOutcome(p, t, action, ControlReplay(p, action, speed))
<1> DEFINE first == IF speed = NoSpeed THEN Returns(p, <<>>) ELSE SetSpeed(p, speed)
           second == Controlled(action, first.player)
           both == Both(first, second)
           result == ControlReplay(p, action, speed)
<1>1. Moves(p, t, first)
  <2>1. CASE speed = NoSpeed
    BY <2>1, StaysSound DEF Returns, Errors
  <2>2. CASE speed # NoSpeed
    BY <2>2, SetSpeedMoves
  <2> QED
    BY <2>1, <2>2
<1>2. result = IF first.error # "none" THEN first ELSE both
  BY DEF ControlReplay, Both
<1> SUFFICES ControlOutcome(p, t, action, result)
  OBVIOUS
<1> HIDE DEF first, result
<1>3. Sound(first.player, t)
  BY <1>1 DEF Moves
<1>4. CASE first.error # "none"
  BY <1>1, <1>2, <1>4 DEF ControlOutcome
<1>5. CASE first.error = "none" /\ action \in {"play", "pause", "speed"}
  <2>1. Moves(first.player, t, second)
    <3>1. CASE action = "play"
      BY <1>3, <3>1, PlayMoves DEF Controlled
    <3>2. CASE action = "pause"
      BY <1>3, <3>2, PauseMoves DEF Controlled
    <3>3. CASE action = "speed"
      BY <1>3, <3>3, StaysSound DEF Controlled, Returns, Errors
    <3> QED
      BY <1>5, <3>1, <3>2, <3>3
  <2> HIDE DEF second
  <2>2. Moves(p, t, both)
    BY <1>1, <2>1, MovesCompose
  <2> QED
    BY <1>2, <1>5, <2>2 DEF ControlOutcome
<1>6. CASE first.error = "none" /\ action = "step"
  <2>1. /\ second = Step(first.player)
        /\ IF second.error = "none"
           THEN Moves(first.player, second.player.position, second)
                  /\ second.player.position \in Int
           ELSE Moves(first.player, t, second)
    BY <1>3, <1>6, StepMoves DEF Controlled
  <2> HIDE DEF second
  <2>2. CASE second.error = "none"
    <3>1. PICK u \in Int : u = second.player.position
      BY <2>1, <2>2
    <3>2. Moves(first.player, u, second)
      BY <2>1, <2>2, <3>1, Zenon
    <3>3. Moves(p, u, both) /\ both.error = "none" /\ both.player = second.player
      BY <1>1, <2>2, <3>2, MovesCompose
    <3>4. Moves(p, both.player.position, both) /\ both.player.position \in Int
      BY <3>1, <3>3, Zenon
    <3> QED
      BY <1>2, <1>6, <2>2, <3>3, <3>4 DEF ControlOutcome
  <2>3. CASE second.error # "none"
    <3>1. Moves(p, t, both) /\ both.error # "none"
      BY <1>1, <2>1, <2>3, MovesCompose
    <3> QED
      BY <1>2, <1>6, <3>1 DEF ControlOutcome
  <2> QED
    BY <2>2, <2>3
<1>7. CASE first.error = "none" /\ action = "reset"
  <2>1. /\ second = Reset(first.player) /\ second \in Results
        /\ IF second.error = "none"
           THEN Sound(second.player, 0) /\ second.player.cursor = 0
           ELSE Moves(first.player, t, second)
    BY <1>3, <1>7, ResetRewinds DEF Controlled
  <2> HIDE DEF second
  <2>2. CASE second.error = "none"
    <3>1. both.error = "none" /\ both.player = second.player
      BY <2>1, <2>2 DEF Results, Both
    <3> QED
      BY <1>2, <1>7, <2>1, <2>2, <3>1 DEF ControlOutcome
  <2>3. CASE second.error # "none"
    <3>1. Moves(p, t, both) /\ both.error # "none"
      BY <1>1, <2>1, <2>3, MovesCompose
    <3> QED
      BY <1>2, <1>7, <3>1 DEF ControlOutcome
  <2> QED
    BY <2>2, <2>3
<1> QED
  BY <1>4, <1>5, <1>6, <1>7 DEF Actions

-----------------------------------------------------------------------------
(* Frames released go to the journal or get lost: either way the pass      *)
(* accounts for each of them once.                                         *)
LEMMA PassAccounts ==
  ASSUME journaled \in Seq(Nat), lost \subseteq Nat, JournaledOnceInOrder,
         player.cursor \in Nat, player'.cursor \in Nat, player.cursor <= player'.cursor,
         NEW frames, frames = FramesBetween(player.cursor, player'.cursor),
         \/ journaled' = journaled \o frames /\ lost' = lost
         \/ journaled' = journaled /\ lost' = lost \cup Range(frames)
  PROVE  journaled' \in Seq(Nat) /\ lost' \subseteq Nat /\ JournaledOnceInOrder'
<1> DEFINE a == player.cursor
           b == player'.cursor
           n == Len(journaled)
<1>0. a \in Nat /\ b \in Nat /\ a <= b
  OBVIOUS
<1> HIDE DEF a, b
<1>1. /\ frames \in Seq(Nat) /\ Len(frames) = b - a /\ DOMAIN frames = 1..(b - a)
      /\ \A i \in 1..(b - a) : frames[i] = a + i
  <2>1. frames = [i \in 1..(b - a) |-> a + i]
    BY DEF FramesBetween, a, b
  <2> QED
    BY <1>0, <2>1
<1>2. Range(frames) = (a + 1)..b
  <2>1. ASSUME NEW k \in (a + 1)..b PROVE k \in Range(frames)
    <3>1. k - a \in 1..(b - a) /\ a + (k - a) = k
      BY <1>0
    <3>2. k - a \in DOMAIN frames /\ frames[k - a] = k
      BY <1>1, <3>1
    <3> QED
      BY <3>2 DEF Range
  <2>2. ASSUME NEW i \in 1..(b - a) PROVE frames[i] \in (a + 1)..b
    BY <1>0, <1>1
  <2> QED
    BY <1>1, <2>1, <2>2 DEF Range
<1>3. /\ n \in Nat /\ DOMAIN journaled = 1..n
      /\ \A i \in 1..n : journaled[i] \in Range(journaled)
  BY DEF Range
<1>4. /\ Range(journaled) \cup lost = 1..a
      /\ Range(journaled) \cap lost = {}
      /\ \A i, j \in 1..n : i < j => journaled[i] < journaled[j]
  BY <1>3 DEF JournaledOnceInOrder, a
<1> HIDE DEF n
<1>5. CASE journaled' = journaled /\ lost' = lost \cup Range(frames)
  <2>1. (1..a) \cup ((a + 1)..b) = 1..b /\ (1..a) \cap ((a + 1)..b) = {}
    BY <1>0
  <2>2. lost' \subseteq Nat
    BY <1>0, <1>2, <1>5
  <2> QED
    BY <1>2, <1>3, <1>4, <1>5, <2>1, <2>2 DEF JournaledOnceInOrder, b
<1>6. CASE journaled' = journaled \o frames /\ lost' = lost
  <2> DEFINE J == journaled'
  <2>1. /\ J \in Seq(Nat) /\ DOMAIN J = 1..(n + (b - a))
        /\ \A i \in 1..n : J[i] = journaled[i]
        /\ \A i \in (n + 1)..(n + (b - a)) : J[i] = a + (i - n)
    <3>1. J \in Seq(Nat) /\ Len(J) = n + (b - a)
      BY <1>1, <1>3, <1>6 DEF n
    <3>2. \A i \in 1..n : J[i] = journaled[i]
      BY <1>1, <1>3, <1>6 DEF n
    <3>3. ASSUME NEW i \in (n + 1)..(n + (b - a)) PROVE J[i] = a + (i - n)
      <4>1. i - n \in 1..(b - a) /\ i \in 1..(n + (b - a)) /\ ~(i <= n)
        BY <1>0, <1>3
      <4>2. J[i] = IF i <= n THEN journaled[i] ELSE frames[i - n]
        BY <1>1, <1>6, <4>1, ConcatProperties DEF n
      <4> QED
        BY <1>1, <4>1, <4>2
    <3> QED
      BY <3>1, <3>2, <3>3
  <2> HIDE DEF J
  <2>2. Range(J) = Range(journaled) \cup (a + 1)..b
    <3>1. ASSUME NEW k \in (a + 1)..b PROVE k \in Range(J)
      <4>1. n + (k - a) \in (n + 1)..(n + (b - a)) /\ J[n + (k - a)] = k
        BY <1>3, <1>0, <2>1
      <4>2. n + (k - a) \in 1..(n + (b - a))
        BY <1>3, <1>0
      <4> QED
        BY <2>1, <4>1, <4>2 DEF Range
    <3>2. ASSUME NEW i \in 1..(n + (b - a)) PROVE J[i] \in Range(journaled) \cup (a + 1)..b
      <4>1. CASE i <= n
        BY <1>3, <2>1, <4>1
      <4>2. CASE i > n
        BY <1>3, <1>0, <2>1, <4>2
      <4> QED
        BY <1>3, <4>1, <4>2
    <3>3. Range(journaled) \subseteq Range(J)
      <4>1. \A i \in 1..n : i \in DOMAIN J /\ J[i] = journaled[i]
        BY <1>3, <1>0, <2>1
      <4> QED
        BY <1>3, <4>1 DEF Range
    <3> QED
      BY <2>1, <3>1, <3>2, <3>3 DEF Range
  <2>3. ASSUME NEW i \in DOMAIN J, NEW j \in DOMAIN J, i < j PROVE J[i] < J[j]
    <3>0. i \in 1..(n + (b - a)) /\ j \in 1..(n + (b - a))
      BY <2>1, <2>3
    <3>1. CASE j <= n
      BY <1>3, <1>4, <2>1, <2>3, <3>0, <3>1
    <3>2. CASE i <= n /\ j > n
      <4>1. journaled[i] \in 1..a /\ J[i] = journaled[i]
        BY <1>3, <1>4, <2>1, <3>0, <3>2
      <4>2. J[j] = a + (j - n)
        BY <1>3, <1>0, <2>1, <3>0, <3>2
      <4> QED
        BY <1>3, <1>0, <3>0, <3>2, <4>1, <4>2
    <3>3. CASE i > n
      BY <1>3, <1>0, <2>1, <2>3, <3>0, <3>3
    <3> QED
      BY <1>3, <2>3, <3>0, <3>1, <3>2, <3>3
  <2>4. (1..a) \cup ((a + 1)..b) = 1..b /\ (1..a) \cap ((a + 1)..b) = {}
    BY <1>0
  <2> QED
    BY <1>4, <1>6, <2>1, <2>2, <2>3, <2>4 DEF JournaledOnceInOrder, J, b
<1> QED
  BY <1>5, <1>6

(* A response journals what the player released; after an error it is lost.*)
LEMMA ServeKeeps ==
  ASSUME PassInv, NEW result, NEW u \in Int, Moves(player, u, result),
         player' = result.player, playTime' = u,
         \/ journaled' = journaled \o result.delivered /\ UNCHANGED lost
         \/ lost' = lost \cup Range(result.delivered) /\ UNCHANGED journaled
  PROVE  PassInv'
<1>1. player \in Players /\ player' \in Players /\ player.cursor <= player'.cursor
      /\ result.delivered = FramesBetween(player.cursor, player'.cursor)
      /\ Sound(player', u)
  BY DEF PassInv, Moves, Sound, Running
<1>2. player.cursor \in Nat /\ player'.cursor \in Nat
  BY <1>1, Fields
<1>3. journaled \in Seq(Nat) /\ lost \subseteq Nat /\ JournaledOnceInOrder
  BY DEF PassInv
<1>4. journaled' \in Seq(Nat) /\ lost' \subseteq Nat /\ JournaledOnceInOrder'
  BY <1>1, <1>2, <1>3, PassAccounts
<1>5. Sound(player, playTime)'
  BY <1>1
<1> QED
  BY <1>4, <1>5 DEF PassInv

LEMMA NewPassKeeps ==
  ASSUME NEW p, Sound(p, 0), p.cursor = 0, NewPass(p)
  PROVE  PassInv'
<1>1. player' = p /\ journaled' = <<>> /\ lost' = {} /\ playTime' = 0
  BY DEF NewPass
<1>2. Sound(player, playTime)'
  BY <1>1
<1>3. JournaledOnceInOrder'
  BY <1>1 DEF JournaledOnceInOrder, Range
<1> QED
  BY <1>1, <1>2, <1>3 DEF PassInv

(* A recording that was just selected, or none.                            *)
LEMMA LoadedSound ==
  /\ Sound(Unloaded, 0)
  /\ \A r \in Recordings : Sound([Unloaded EXCEPT !.recording = r, !.state = "ready"], 0)
<1>1. Sound(Unloaded, 0)
  <2>1. /\ Unloaded \in Players /\ Unloaded.recording = NoRecording
        /\ Unloaded.cursor = 0 /\ Unloaded.state = "idle"
    BY SpeedsAssumption DEF Unloaded, Players, PlayerStates
  <2>2. FrameCount(Unloaded) = 0
    BY <2>1 DEF FrameCount
  <2> QED
    BY <2>1, <2>2 DEF Sound, Running, ReleasedDue, RestToCome
<1>2. ASSUME NEW r \in Recordings
      PROVE  Sound([Unloaded EXCEPT !.recording = r, !.state = "ready"], 0)
  <2> DEFINE q == [Unloaded EXCEPT !.recording = r, !.state = "ready"]
  <2>1. /\ q \in Players /\ q.recording = r /\ q.cursor = 0 /\ q.position = 0
        /\ q.state = "ready"
    <3>1. 0 \in Int /\ 0 \in Nat /\ "ready" \in PlayerStates /\ NormalSpeed \in Speeds
      BY SpeedsAssumption DEF PlayerStates
    <3> QED
      BY <3>1 DEF Unloaded, Players
  <2> HIDE DEF q
  <2>2. q.recording # NoRecording
    BY <2>1, RecordingsAssumption
  <2>3. /\ FrameCount(q) \in Nat \ {0} /\ End(q) \in Nat
        /\ \A i \in 1..FrameCount(q) : FrameDue(q, i) \in Int
    BY <2>1, <2>2, Admitted
  <2>4. ReleasedDue(q) /\ RestToCome(q)
    BY <2>1, <2>3 DEF ReleasedDue, RestToCome, WaitsForStart
  <2>5. Sound(q, 0)
    BY <2>1, <2>2, <2>3, <2>4 DEF Sound, Running
  <2> QED
    BY <2>5 DEF q
<1> QED
  BY <1>1, <1>2

(* Every request leaves the pass in order, and so does the clock.          *)
LEMMA HandledKeeps ==
  ASSUME PassInv, NEW call \in KnownCalls, Handled(call)
  PROVE  PassInv'
<1>1. Sound(player, playTime) /\ playTime \in Int
  BY DEF PassInv
<1>2. CASE call.kind = "poll" /\ ReplayState
  <2>1. Moves(player, playTime, Advance(player)) /\ Advance(player).error = "none"
    BY <1>1, AdvanceMoves DEF Sound
  <2> QED
    BY <1>1, <1>2, <2>1, ServeKeeps DEF ReplayState, Serve
<1>3. CASE call.kind = "select" /\ SelectReplay(call.recording)
  <2>1. call.recording \in Recordings
    BY <1>3 DEF KnownCalls, Poll, Select, Control
  <2> DEFINE q == [Unloaded EXCEPT !.recording = call.recording, !.state = "ready"]
  <2>2. Sound(q, 0) /\ q.cursor = 0
    BY <2>1, LoadedSound DEF Unloaded
  <2>3. NewPass(q)
    BY <1>3 DEF SelectReplay
  <2> HIDE DEF q
  <2> QED
    BY <2>2, <2>3, NewPassKeeps
<1>4. CASE call.kind = "control" /\ ServeControl(call.action, call.speed)
  <2>1. call.action \in Actions /\ call.speed \in Speeds \cup {NoSpeed}
    BY <1>4 DEF KnownCalls, Poll, Select, Control
  <2> DEFINE result == ControlReplay(player, call.action, call.speed)
  <2>2. ControlOutcome(player, playTime, call.action, result)
    BY <1>1, <2>1, ControlMoves
  <2>3. CASE result.error = "none" /\ call.action = "reset"
    <3>1. NewPass(result.player)
      BY <1>4, <2>3 DEF ServeControl
    <3> HIDE DEF result
    <3> QED
      BY <2>2, <2>3, <3>1, NewPassKeeps DEF ControlOutcome
  <2>4. CASE result.error = "none" /\ call.action = "step"
    <3>1. /\ player' = result.player /\ journaled' = journaled \o result.delivered
          /\ playTime' = result.player.position /\ UNCHANGED lost
      BY <1>4, <2>4 DEF ServeControl
    <3> HIDE DEF result
    <3> QED
      BY <2>2, <2>4, <3>1, ServeKeeps DEF ControlOutcome
  <2>5. CASE ~(result.error = "none" /\ call.action \in {"reset", "step"})
    <3>1. Serve(result)
      BY <1>4, <2>5 DEF ServeControl
    <3> HIDE DEF result
    <3>2. Moves(player, playTime, result)
      BY <2>2, <2>5 DEF ControlOutcome
    <3> QED
      BY <1>1, <3>1, <3>2, ServeKeeps DEF Serve
  <2> QED
    BY <2>3, <2>4, <2>5
<1> QED
  BY <1>2, <1>3, <1>4 DEF Handled

LEMMA TickKeeps == ASSUME PassInv, Tick PROVE PassInv'
<1>1. /\ player \in Players /\ Sound(player, playTime) /\ playTime \in Int
      /\ player.state = "playing" /\ player.recording # NoRecording
  BY DEF PassInv, Sound, Running, Tick
<1> DEFINE q == [player EXCEPT !.elapsed = @ + 1]
           t == playTime + player.speed
<1>2. /\ player.speed \in Nat /\ player.elapsed \in Nat /\ player.position \in Int
      /\ player.anchor \in Int /\ Reached(player) = playTime /\ player.position <= playTime
  BY <1>1, Fields DEF Sound, Running
<1>3. /\ q \in Players /\ q.recording = player.recording /\ q.cursor = player.cursor
      /\ q.position = player.position /\ q.state = "playing" /\ q.anchor = player.anchor
      /\ q.speed = player.speed /\ q.elapsed = player.elapsed + 1
  BY <1>1, <1>2 DEF Players
<1>4. player' = q /\ playTime' = t /\ journaled' = journaled /\ lost' = lost
  BY DEF Tick
<1> HIDE DEF q
<1>5. Reached(q) = t
  <2>1. q.elapsed * q.speed = player.elapsed * player.speed + player.speed
    BY <1>2, <1>3
  <2> QED
    BY <1>2, <1>3, <2>1, Fields, <1>1 DEF Reached
<1>6. /\ FrameCount(q) = FrameCount(player) /\ End(q) = End(player)
      /\ \A i : FrameDue(q, i) = FrameDue(player, i)
  BY <1>3 DEF FrameCount, End, FrameDue
<1>7. ReleasedDue(q) /\ RestToCome(q)
  BY <1>1, <1>3, <1>6 DEF Sound, Running, ReleasedDue, RestToCome, WaitsForStart
<1>8. t \in Int /\ q.position <= t
  BY <1>1, <1>2, <1>3
<1>9. Sound(q, t)
  BY <1>1, <1>3, <1>5, <1>6, <1>7, <1>8 DEF Sound, Running
<1>10. JournaledOnceInOrder'
  BY <1>3, <1>4 DEF PassInv, JournaledOnceInOrder
<1> QED
  BY <1>4, <1>8, <1>9, <1>10 DEF PassInv

-----------------------------------------------------------------------------
(* The player is sound in every state of page, routes and other clients,   *)
(* whatever is asked of it and however requests overtake each other.       *)
THEOREM ReplayInvariant == Spec => []ReplayInv
<1>1. Init => ReplayInv
  <2> SUFFICES ASSUME Init PROVE ReplayInv
    OBVIOUS
  <2>1. /\ player = Unloaded /\ journaled = <<>> /\ lost = {} /\ playTime = 0
        /\ exchanges = [s \in Slots |-> Nothing]
    BY DEF Init, ReplayInit
  <2>2. Sound(player, playTime)
    BY <2>1, LoadedSound
  <2>3. JournaledOnceInOrder
    BY <2>1 DEF JournaledOnceInOrder, Range, Unloaded
  <2>4. CallsKnown
    BY <2>1 DEF CallsKnown, Nothing
  <2> QED
    BY <2>1, <2>2, <2>3, <2>4 DEF ReplayInv, PassInv
<1>2. ReplayInv /\ [Next]_vars => ReplayInv'
  <2> SUFFICES ASSUME ReplayInv, [Next]_vars PROVE ReplayInv'
    OBVIOUS
  <2>0. PassInv /\ CallsKnown
    BY DEF ReplayInv
  <2>1. UNCHANGED replayVars => PassInv'
    BY <2>0 DEF replayVars, PassInv, JournaledOnceInOrder
  <2>2. UNCHANGED exchanges => CallsKnown'
    BY <2>0 DEF CallsKnown
  <2>3. ASSUME NEW slot \in Slots, NEW call \in KnownCalls, Sends(slot, call) PROVE CallsKnown'
    BY <2>0, <2>3 DEF CallsKnown, Sends, Request
  <2>4. ASSUME NEW slot \in Slots,
               \/ exchanges' = [exchanges EXCEPT ![slot] = Nothing]
               \/ \E call, error, status :
                    exchanges' = [exchanges EXCEPT ![slot] = Answer(call, error, status)]
        PROVE  CallsKnown'
    BY <2>0, <2>4 DEF CallsKnown, Nothing, Answer
  <2>5. BusySlot \in Slots
    BY PageBoundsAssumption DEF Slots, BusySlot
  <2>6. CASE UserControls
    <3>1. ControlCalls \subseteq KnownCalls
      BY DEF ControlCalls, KnownCalls, Actions
    <3> QED
      BY <2>1, <2>3, <2>5, <2>6, <3>1 DEF UserControls, ReplayInv
  <2>7. CASE UserSelects
    BY <2>1, <2>3, <2>7 DEF UserSelects, SelectSlots, KnownCalls, ReplayInv
  <2>8. CASE PollTimer
    BY <2>1, <2>3, <2>5, <2>8 DEF PollTimer, KnownCalls, ReplayInv
  <2>9. ASSUME NEW slot \in Slots, AnswerArrives(slot) \/ ExchangeFails(slot) PROVE ReplayInv'
    BY <2>1, <2>4, <2>9 DEF AnswerArrives, ExchangeFails, Finished, ReplayInv
  <2>10. ASSUME NEW slot \in Slots, ServerHandles(slot) PROVE ReplayInv'
    <3>1. exchanges[slot].call \in KnownCalls /\ Handled(exchanges[slot].call)
      BY <2>0, <2>10 DEF ServerHandles, CallsKnown
    <3>2. PassInv'
      BY <2>0, <3>1, HandledKeeps
    <3>3. CallsKnown'
      BY <2>4, <2>10 DEF ServerHandles
    <3> QED
      BY <3>2, <3>3 DEF ReplayInv
  <2>11. CASE OtherClient
    <3>1. OtherCalls \subseteq KnownCalls
      BY DEF OtherCalls, KnownCalls
    <3>2. PassInv'
      BY <2>0, <2>11, <3>1, HandledKeeps DEF OtherClient
    <3> QED
      BY <2>2, <2>11, <3>2 DEF OtherClient, ReplayInv
  <2>12. CASE ClockTicks
    BY <2>0, <2>2, <2>12, TickKeeps DEF ClockTicks, ReplayInv
  <2>13. CASE UNCHANGED vars
    BY <2>1, <2>2, <2>13 DEF vars, ReplayInv
  <2> QED
    BY <2>6, <2>7, <2>8, <2>9, <2>10, <2>11, <2>12, <2>13 DEF Next
<1> QED
  BY <1>1, <1>2, PTL DEF Spec

(* Every frame leaves the player when it is due, for any recording and any *)
(* sequence of controls (_advance_unlocked).                               *)
THEOREM ScheduleKept == Spec => []DeliveredAsScheduled
<1>1. ReplayInv => DeliveredAsScheduled
  BY DEF ReplayInv, PassInv, Sound, Running, ReleasedDue, RestToCome,
         DeliveredAsScheduled
<1> QED
  BY <1>1, ReplayInvariant, PTL

(* Playback time is neither skipped nor repeated (set_speed, play, pause). *)
THEOREM PlayTimeKept == Spec => []PositionIsPlayTime
<1>1. ReplayInv => PositionIsPlayTime
  BY DEF ReplayInv, PassInv, Sound, Running, Reached, PositionIsPlayTime
<1> QED
  BY <1>1, ReplayInvariant, PTL

(* A pass accounts for each frame it released once and in order.           *)
THEOREM JournalCorrectInPass == Spec => []JournaledOnceInOrder
<1>1. ReplayInv => JournaledOnceInOrder
  BY DEF ReplayInv, PassInv
<1> QED
  BY <1>1, ReplayInvariant, PTL

(* A recording is complete exactly when its last frame was released.       *)
THEOREM CompletionCorrect == Spec => []CompleteAtLastFrame
<1>1. ReplayInv => CompleteAtLastFrame
  BY DEF ReplayInv, PassInv, Sound, Running, CompleteAtLastFrame
<1> QED
  BY <1>1, ReplayInvariant, PTL

=============================================================================
