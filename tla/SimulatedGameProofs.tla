------------------------ MODULE SimulatedGameProofs ------------------------
(***************************************************************************)
(* The archived prototype, for any number of players, tasks, operators and *)
(* requests, and any spoofed packets: a task that a player has completed   *)
(* is never its target again, and what a task panel is told it reports to  *)
(* the controller in order and once.                                       *)
(***************************************************************************)
EXTENDS SimulatedGame, SequenceTheorems, WellFoundedInduction, TLAPS

States == {"LOBBY", "ALIVE", "MEETING", "DEAD"}

PlayerRecord ==
  [state : States, before : States \cup {"none"}, tasks : SUBSET Tasks,
   active : Tasks \cup {NoTask}, working : BOOLEAN, penalty : BOOLEAN]

PlayerNodes == Batches \X Players

(* A target is a task that is still to be done.                            *)
Aims(q) == q \in PlayerRecord /\ (q.active # NoTask => q.active \in q.tasks)

(* Every task is to be done or was completed once.                         *)
PlayInv ==
  /\ player \in [PlayerNodes -> PlayerRecord]
  /\ finished \in [PlayerNodes -> Seq(Tasks)]
  /\ \A n \in PlayerNodes :
       /\ Aims(player[n])
       /\ \A i \in DOMAIN finished[n] : finished[n][i] \notin player[n].tasks
       /\ IsInjective(finished[n])

(* choose_next_action takes its target from the tasks that are left.       *)
LEMMA NextActionAims ==
  ASSUME NEW q \in PlayerRecord, NEW r \in NextAction(q), Aims(q) \/ q.active = NoTask
  PROVE  Aims(r) /\ r.tasks = q.tasks
BY DEF NextAction, Aims, PlayerRecord

(* No broadcast changes what is left to do: START only takes a new target. *)
LEMMA BroadcastAims ==
  ASSUME NEW q, Aims(q), NEW name, NEW r \in AfterBroadcast(q, name)
  PROVE  Aims(r) /\ r.tasks = q.tasks
<1>1. q \in PlayerRecord
  BY DEF Aims
<1>2. CASE name = "START"
  <2> DEFINE p == [q EXCEPT !.state = "ALIVE", !.before = NoState]
  <2>1. Aims(p) /\ p \in PlayerRecord /\ p.tasks = q.tasks
    BY <1>1 DEF Aims, PlayerRecord, States, NoState
  <2>2. r \in NextAction(p)
    BY <1>2 DEF AfterBroadcast, Started
  <2> HIDE DEF p
  <2> QED
    BY <2>1, <2>2, NextActionAims
<1>3. CASE name = "STOP"
  BY <1>1, <1>3 DEF AfterBroadcast, Aims, PlayerRecord, States, NoState
<1>4. CASE name = "MEETING_START"
  BY <1>1, <1>4 DEF AfterBroadcast, BeginMeeting, Aims, PlayerRecord, States
<1>5. CASE name = "MEETING_END"
  <2> DEFINE state == IF q.before = NoState THEN "ALIVE" ELSE q.before
  <2> DEFINE p == [q EXCEPT !.state = state, !.before = NoState]
  <2>1. state \in States
    BY <1>1 DEF PlayerRecord, States, NoState
  <2>2. Aims(p) /\ p \in PlayerRecord /\ p.tasks = q.tasks
    BY <1>1, <2>1 DEF Aims, PlayerRecord, States, NoState
  <2>3. r = q \/ r = p \/ r \in NextAction(p)
    BY <1>5 DEF AfterBroadcast, EndMeeting
  <2> HIDE DEF p
  <2> QED
    BY <2>2, <2>3, NextActionAims
<1>6. CASE name \notin {"START", "STOP", "MEETING_START", "MEETING_END"}
  BY <1>1, <1>6 DEF AfterBroadcast
<1> QED
  BY <1>2, <1>3, <1>4, <1>5, <1>6

(* A step that changes one player, and not what it has left to do.         *)
LEMMA OnePlayer ==
  ASSUME PlayInv, NEW n, NEW q, player' = [player EXCEPT ![n] = q],
         n \in PlayerNodes => Aims(q) /\ q.tasks = player[n].tasks,
         UNCHANGED finished
  PROVE  PlayInv'
BY DEF PlayInv, Aims

(* The puzzle is solved: the task is taken off the list and noted.         *)
LEMMA SolvedOnce ==
  ASSUME PlayInv, NEW n \in PlayerNodes, player[n].active # NoTask, Solve(n)
  PROVE  PlayInv'
<1> DEFINE t == player[n].active
<1> DEFINE p == [player[n] EXCEPT !.tasks = @ \ {t}, !.active = NoTask, !.working = FALSE]
<1>1. PICK q \in NextAction(p) : player' = [player EXCEPT ![n] = q]
  BY DEF Solve
<1>2. finished' = [finished EXCEPT ![n] = Append(finished[n], t)]
  BY DEF Solve, PlayInv
<1>3. player[n] \in PlayerRecord /\ t \in player[n].tasks /\ t \in Tasks
  BY DEF PlayInv, Aims, PlayerRecord, States
<1>4. p \in PlayerRecord /\ p.active = NoTask /\ p.tasks = player[n].tasks \ {t}
  BY <1>3 DEF PlayerRecord
<1> HIDE DEF t, p
<1>5. Aims(q) /\ q.tasks = player[n].tasks \ {t} /\ q \in PlayerRecord
  BY <1>4, NextActionAims DEF Aims
<1> DEFINE f == finished[n]
<1> DEFINE g == Append(f, t)
<1>6. f \in Seq(Tasks) /\ IsInjective(f) /\ \A i \in DOMAIN f : f[i] \notin player[n].tasks
  BY DEF PlayInv
<1>7. g \in Seq(Tasks) /\ Len(g) = Len(f) + 1 /\ g[Len(g)] = t
      /\ \A i \in 1..Len(f) : g[i] = f[i]
  BY <1>3, <1>6
<1>8. \A i \in DOMAIN g : g[i] \notin q.tasks
  BY <1>5, <1>6, <1>7
<1>9. IsInjective(g)
  <2> SUFFICES ASSUME NEW i \in 1..Len(g), NEW j \in 1..Len(g), g[i] = g[j] PROVE i = j
    BY <1>7 DEF IsInjective
  <2>1. ASSUME NEW k \in 1..Len(f) PROVE g[k] # t
    BY <1>3, <1>6, <1>7
  <2>2. CASE i = Len(g) \/ j = Len(g)
    BY <1>6, <1>7, <2>1, <2>2
  <2>3. CASE i # Len(g) /\ j # Len(g)
    <3>1. i \in DOMAIN f /\ j \in DOMAIN f /\ f[i] = f[j]
      BY <1>6, <1>7, <2>3
    <3> QED
      BY <1>6, <3>1 DEF IsInjective
  <2> QED
    BY <2>2, <2>3
<1>10. finished' = [finished EXCEPT ![n] = g]
  BY <1>2
<1> HIDE DEF f, g
<1> QED
  BY <1>1, <1>5, <1>7, <1>8, <1>9, <1>10 DEF PlayInv

LEMMA TickKeeps ==
  ASSUME PlayInv, NEW n \in PlayerNodes, Tick(n)
  PROVE  PlayInv'
<1>0. player[n] \in PlayerRecord /\ Aims(player[n])
  BY DEF PlayInv
<1>1. CASE PenaltyOver(n)
  <2>1. player' = [player EXCEPT ![n] = [player[n] EXCEPT !.penalty = FALSE]]
        /\ UNCHANGED finished
    BY <1>1 DEF PenaltyOver, PlayInv
  <2>2. Aims([player[n] EXCEPT !.penalty = FALSE])
    BY <1>0 DEF Aims, PlayerRecord
  <2>3. [player[n] EXCEPT !.penalty = FALSE].tasks = player[n].tasks
    BY <1>0 DEF PlayerRecord
  <2> QED
    BY <2>1, <2>2, <2>3, OnePlayer
<1>2. CASE CheckIn(n)
  <2>1. player' = [player EXCEPT ![n] = [player[n] EXCEPT !.working = TRUE]]
        /\ UNCHANGED finished
    BY <1>2 DEF CheckIn, PlayInv
  <2>2. Aims([player[n] EXCEPT !.working = TRUE])
    BY <1>0 DEF Aims, PlayerRecord
  <2>3. [player[n] EXCEPT !.working = TRUE].tasks = player[n].tasks
    BY <1>0 DEF PlayerRecord
  <2> QED
    BY <2>1, <2>2, <2>3, OnePlayer
<1>3. CASE WorkEnds(n) /\ Solve(n)
  BY <1>3, SolvedOnce DEF WorkEnds
<1>4. CASE WorkEnds(n) /\ Fail(n)
  <2> DEFINE p == [player[n] EXCEPT !.active = NoTask, !.working = FALSE]
  <2>1. PICK q \in NextAction(p) : player' = [player EXCEPT ![n] = q]
    BY <1>4 DEF Fail
  <2>2. p \in PlayerRecord /\ p.active = NoTask /\ p.tasks = player[n].tasks
    BY <1>0 DEF PlayerRecord
  <2>3. UNCHANGED finished
    BY <1>4 DEF Fail
  <2> HIDE DEF p
  <2>4. Aims(q) /\ q.tasks = player[n].tasks
    BY <2>2, NextActionAims
  <2> QED
    BY <2>1, <2>3, <2>4, OnePlayer
<1>5. CASE Sabotage(n)
  BY <1>5 DEF Sabotage, PlayInv
<1> QED
  BY <1>1, <1>2, <1>3, <1>4, <1>5 DEF Tick, WorkEnds

LEMMA ReceiveKeeps ==
  ASSUME PlayInv, NEW n \in Nodes, Receives(n)
  PROVE  PlayInv'
<1>1. UNCHANGED finished
  BY DEF Receives, heardOnly
<1>2. CASE PanelReceives(n)
  BY <1>1, <1>2 DEF PanelReceives, PlayInv
<1>3. CASE PlayerReceives(n)
  <2>1. n \in PlayerNodes
    BY <1>3 DEF PlayerReceives, PlayerNodes, Nodes, Address
  <2>2. player[n] \in PlayerRecord /\ Aims(player[n])
    BY <2>1 DEF PlayInv
  <2> DEFINE packet == FirstPacket(air, Address(n))
  <2>3. CASE packet.dest = Everyone
    <3>1. PICK q \in AfterBroadcast(player[n], packet.name) : player' = [player EXCEPT ![n] = q]
      BY <1>3, <2>3 DEF PlayerReceives
    <3>2. Aims(q) /\ q.tasks = player[n].tasks
      BY <2>2, BroadcastAims
    <3> QED
      BY <1>1, <3>1, <3>2, OnePlayer
  <2>4. CASE packet.dest # Everyone
    <3> DEFINE b == AfterSetting(player[n].penalty, packet.name)
    <3> DEFINE q == [player[n] EXCEPT !.penalty = b]
    <3>0. player[n].penalty \in BOOLEAN
      BY <2>2 DEF PlayerRecord
    <3>1. b \in BOOLEAN
      BY <3>0 DEF AfterSetting
    <3>2. player' = [player EXCEPT ![n] = q] \/ UNCHANGED player
      BY <1>3, <2>1, <2>4 DEF PlayerReceives, PlayInv
    <3> HIDE DEF b
    <3>3. Aims(q) /\ q.tasks = player[n].tasks
      BY <2>2, <3>1 DEF Aims, PlayerRecord
    <3> HIDE DEF q
    <3>4. CASE UNCHANGED player
      BY <1>1, <3>4 DEF PlayInv
    <3>5. CASE player' = [player EXCEPT ![n] = q]
      BY <1>1, <3>3, <3>5, OnePlayer
    <3> QED
      BY <3>2, <3>4, <3>5
  <2> QED
    BY <2>3, <2>4
<1> QED
  BY <1>2, <1>3 DEF Receives

LEMMA OperateKeeps ==
  ASSUME PlayInv, NEW o \in Operators, Operate(o)
  PROVE  PlayInv'
<1>1. UNCHANGED finished
  BY DEF Operate, Transmits, Spoof, SetDifficulty, TriggerSabotage, TriggerMeeting, MeetingStep,
         TriggerKill, KillStep, TriggerCompletion, CompletionStep, Reset, StopNode, NewBatch,
         BuildNode, StartNode, operatorOnly, history
<1>2. CASE UNCHANGED player
  BY <1>1, <1>2 DEF PlayInv
<1>3. CASE MeetingStep(o) /\ ~UNCHANGED player
  <2>1. PICK n : player' = [player EXCEPT ![n] = BeginMeeting(player[n])]
    BY <1>3 DEF MeetingStep
  <2>2. ASSUME n \in PlayerNodes
        PROVE  Aims(BeginMeeting(player[n])) /\ BeginMeeting(player[n]).tasks = player[n].tasks
    BY <2>2 DEF PlayInv, Aims, PlayerRecord, States, BeginMeeting
  <2> QED
    BY <1>1, <2>1, <2>2, OnePlayer
<1>4. CASE TriggerKill(o)
  <2>1. PICK n : player' = [player EXCEPT ![n] = [player[n] EXCEPT !.state = "DEAD"]]
    BY <1>4 DEF TriggerKill
  <2>2. ASSUME n \in PlayerNodes
        PROVE  /\ Aims([player[n] EXCEPT !.state = "DEAD"])
               /\ [player[n] EXCEPT !.state = "DEAD"].tasks = player[n].tasks
    BY <2>2 DEF PlayInv, Aims, PlayerRecord, States
  <2> QED
    BY <1>1, <2>1, <2>2, OnePlayer
<1>5. CASE CompletionStep(o)
  <2>1. PICK n : player' = [player EXCEPT ![n] = [player[n] EXCEPT !.working = TRUE]]
    BY <1>5 DEF CompletionStep
  <2>2. ASSUME n \in PlayerNodes
        PROVE  /\ Aims([player[n] EXCEPT !.working = TRUE])
               /\ [player[n] EXCEPT !.working = TRUE].tasks = player[n].tasks
    BY <2>2 DEF PlayInv, Aims, PlayerRecord, States
  <2> QED
    BY <1>1, <2>1, <2>2, OnePlayer
<1> QED
  BY <1>2, <1>3, <1>4, <1>5
     DEF Operate, Transmits, Spoof, SetDifficulty, TriggerSabotage, TriggerMeeting,
         KillStep, TriggerCompletion, Reset, StopNode, NewBatch, BuildNode, StartNode

(* A player's tasks are split between those it still has and those it has  *)
(* finished, in every state of every batch of nodes.                       *)
THEOREM PlayInvariant == Spec => []PlayInv
<1>1. Init => PlayInv
  <2> SUFFICES ASSUME Init PROVE PlayInv
    OBVIOUS
  <2>1. NewPlayer \in PlayerRecord /\ NewPlayer.active = NoTask
    BY DEF NewPlayer, PlayerRecord, States, NoState, NoTask
  <2>2. \A n \in PlayerNodes : player[n] = NewPlayer /\ finished[n] = <<>>
    BY DEF Init, PlayerNodes
  <2>3. player \in [PlayerNodes -> PlayerRecord] /\ finished \in [PlayerNodes -> Seq(Tasks)]
    BY <2>1 DEF Init, PlayerNodes
  <2> QED
    BY <2>1, <2>2, <2>3 DEF PlayInv, Aims, IsInjective
<1>2. PlayInv /\ [Next]_vars => PlayInv'
  <2> SUFFICES ASSUME PlayInv, [Next]_vars PROVE PlayInv'
    OBVIOUS
  <2>1. ASSUME UNCHANGED <<player, finished>> PROVE PlayInv'
    BY <2>1 DEF PlayInv
  <2>2. CASE Poll \/ Sniff \/ UNCHANGED vars
    BY <2>1, <2>2 DEF Poll, Sniff, controllerOnly, nodeVars, history, vars
  <2> QED
    BY <2>2, TickKeeps, ReceiveKeeps, OperateKeeps DEF Next, PlayerNodes
<1> QED
  BY <1>1, <1>2, PTL DEF Spec

(* No player completes a task twice, however games are stopped, started,   *)
(* interrupted by meetings and deaths, or completions forced               *)
(* (choose_next_action, work_on_task).                                     *)
THEOREM DoneOnce == Spec => []TaskDoneOnce
<1>1. PlayInv => TaskDoneOnce
  BY DEF PlayInv, TaskDoneOnce
<1> QED
  BY <1>1, PlayInvariant, PTL

-----------------------------------------------------------------------------
(* The two hops between a player and the console: what is picked of a      *)
(* queue, when a packet is added to it or taken from it.                   *)

(* Induction, from the fact that < is well-founded: a set of numbers that  *)
(* has 0 and every successor has them all.                                 *)
LEMMA Induction ==
  ASSUME NEW S \in SUBSET Nat, 0 \in S, \A n \in S : n + 1 \in S
  PROVE  S = Nat
<1> SUFFICES ASSUME Nat \ S # {} PROVE FALSE
  OBVIOUS
<1>1. PICK x \in Nat \ S : \A y \in Nat \ S : ~(<<y, x>> \in OpToRel(<, Nat))
  BY NatLessThanWellFounded, WFMin
<1>2. x # 0 /\ x - 1 \in Nat /\ x - 1 < x
  OBVIOUS
<1>3. x - 1 \in S
  BY <1>1, <1>2 DEF OpToRel
<1>4. (x - 1) + 1 \in S /\ (x - 1) + 1 = x
  BY <1>3
<1> QED
  BY <1>1, <1>2, <1>4

(* What is picked, one packet after the other.  It is a recursive function:*)
(* that there is one has to be shown.                                      *)
Steps(f, q, S, k) ==
  f = [i \in 0..k |-> IF i = 0 THEN <<>>
                      ELSE IF i \in S THEN Append(f[i - 1], Entry(q[i]))
                      ELSE f[i - 1]]

LEMMA StepsExist ==
  ASSUME NEW q, NEW S, NEW k \in Nat
  PROVE  \E f : Steps(f, q, S, k)
<1> DEFINE K == {n \in Nat : \E f : Steps(f, q, S, n)}
<1>1. 0 \in K
  <2>1. Steps([i \in 0..0 |-> <<>>], q, S, 0)
    BY DEF Steps
  <2> QED
    BY <2>1
<1>2. ASSUME NEW n \in K PROVE n + 1 \in K
  <2>1. PICK f : Steps(f, q, S, n)
    OBVIOUS
  <2> DEFINE last == IF n + 1 \in S THEN Append(f[n], Entry(q[n + 1])) ELSE f[n]
  <2> DEFINE g == [i \in 0..n + 1 |-> IF i = n + 1 THEN last ELSE f[i]]
  <2>2. ASSUME NEW i \in 0..n + 1
        PROVE  g[i] = IF i = 0 THEN <<>>
                      ELSE IF i \in S THEN Append(g[i - 1], Entry(q[i]))
                      ELSE g[i - 1]
    <3>1. CASE i = n + 1
      <4>1. g[i] = last /\ i - 1 = n /\ g[n] = f[n] /\ i # 0
        BY <3>1
      <4> QED
        BY <3>1, <4>1
    <3>2. CASE i # n + 1
      <4>1. i \in 0..n /\ g[i] = f[i] /\ (i # 0 => g[i - 1] = f[i - 1])
        BY <3>2
      <4>2. f[i] = IF i = 0 THEN <<>>
                   ELSE IF i \in S THEN Append(f[i - 1], Entry(q[i]))
                   ELSE f[i - 1]
        BY <2>1, <4>1 DEF Steps
      <4> QED
        BY <4>1, <4>2
    <3> QED
      BY <3>1, <3>2
  <2>3. DOMAIN g = 0..n + 1 /\ g = [i \in 0..n + 1 |-> g[i]]
    OBVIOUS
  <2> HIDE DEF g
  <2>4. Steps(g, q, S, n + 1)
    BY <2>2, <2>3 DEF Steps
  <2> QED
    BY <2>4
<1>3. K = Nat
  <2> HIDE DEF K
  <2>1. K \in SUBSET Nat
    BY DEF K
  <2> QED
    BY <1>1, <1>2, <2>1, Induction
<1> QED
  BY <1>3

(* So the picked function is what its recursive definition says.           *)
LEMMA PickedSteps ==
  ASSUME NEW T, NEW q \in Seq(T), NEW S
  PROVE  Steps(PickedUpTo(q, S), q, S, Len(q))
<1> DEFINE P(f) == f = [i \in 0..Len(q) |->
                          IF i = 0 THEN <<>>
                          ELSE IF i \in S THEN Append(f[i - 1], Entry(q[i]))
                          ELSE f[i - 1]]
<1>1. \E f : P(f)
  <2>1. PICK f : Steps(f, q, S, Len(q))
    <3>1. Len(q) \in Nat
      OBVIOUS
    <3> QED
      BY <3>1, StepsExist, Zenon
  <2> QED
    BY <2>1 DEF Steps
<1>2. PickedUpTo(q, S) = CHOOSE f : P(f)
  BY DEF PickedUpTo
<1> HIDE DEF P
<1>3. P(PickedUpTo(q, S))
  BY <1>1, <1>2
<1> QED
  BY <1>3 DEF P, Steps

LEMMA PickedStep ==
  ASSUME NEW T, NEW q \in Seq(T), NEW S
  PROVE  /\ PickedUpTo(q, S)[0] = <<>>
         /\ \A i \in 1..Len(q) :
              PickedUpTo(q, S)[i] = IF i \in S
                THEN Append(PickedUpTo(q, S)[i - 1], Entry(q[i]))
                ELSE PickedUpTo(q, S)[i - 1]
<1> DEFINE f == PickedUpTo(q, S)
<1>1. Steps(f, q, S, Len(q))
  BY PickedSteps
<1>2. Len(q) \in Nat
  OBVIOUS
<1> HIDE DEF f
<1>3. f[0] = <<>>
  BY <1>1, <1>2 DEF Steps
<1>4. ASSUME NEW i \in 1..Len(q)
      PROVE  f[i] = IF i \in S THEN Append(f[i - 1], Entry(q[i])) ELSE f[i - 1]
  <2>1. i \in 0..Len(q) /\ i # 0
    BY <1>2
  <2>2. f[i] = IF i = 0 THEN <<>>
               ELSE IF i \in S THEN Append(f[i - 1], Entry(q[i]))
               ELSE f[i - 1]
    BY <1>1, <2>1 DEF Steps
  <2> QED
    BY <2>1, <2>2
<1> QED
  BY <1>3, <1>4 DEF f

Entries(T) == {Entry(e) : e \in T}

LEMMA PickedTyped ==
  ASSUME NEW T, NEW q \in Seq(T), NEW S, NEW i \in 0..Len(q)
  PROVE  PickedUpTo(q, S)[i] \in Seq(Entries(T))
<1> DEFINE f == PickedUpTo(q, S)
<1> DEFINE K == {n \in Nat : n <= Len(q) => f[n] \in Seq(Entries(T))}
<1>1. f[0] = <<>> /\ \A n \in 1..Len(q) :
        f[n] = IF n \in S THEN Append(f[n - 1], Entry(q[n])) ELSE f[n - 1]
  BY PickedStep
<1> HIDE DEF f
<1>2. 0 \in K
  <2>1. f[0] = <<>> /\ <<>> \in Seq(Entries(T))
    BY <1>1
  <2> QED
    BY <2>1
<1>3. ASSUME NEW n \in K PROVE n + 1 \in K
  <2> SUFFICES ASSUME n + 1 <= Len(q) PROVE f[n + 1] \in Seq(Entries(T))
    OBVIOUS
  <2>1. n + 1 \in 1..Len(q) /\ (n + 1) - 1 = n /\ f[n] \in Seq(Entries(T))
    OBVIOUS
  <2>2. Entry(q[n + 1]) \in Entries(T)
    BY <2>1 DEF Entries
  <2>3. f[n + 1] = IF n + 1 \in S THEN Append(f[n], Entry(q[n + 1])) ELSE f[n]
    BY <1>1, <2>1
  <2> QED
    BY <2>1, <2>2, <2>3
<1>4. K = Nat
  <2> HIDE DEF K
  <2>1. K \in SUBSET Nat
    BY DEF K
  <2> QED
    BY <1>2, <1>3, <2>1, Induction
<1>5. i \in K /\ i <= Len(q)
  BY <1>4
<1> QED
  BY <1>5 DEF f

(* Picking does not depend on what comes after.                            *)
LEMMA PickedPrefix ==
  ASSUME NEW T, NEW q \in Seq(T), NEW r \in Seq(T), NEW S, NEW U, Len(q) <= Len(r),
         \A i \in 1..Len(q) : r[i] = q[i] /\ (i \in U <=> i \in S)
  PROVE  PickedUpTo(r, U)[Len(q)] = PickedUpTo(q, S)[Len(q)]
<1> DEFINE f == PickedUpTo(q, S)
<1> DEFINE g == PickedUpTo(r, U)
<1> DEFINE K == {n \in Nat : n <= Len(q) => g[n] = f[n]}
<1>1. f[0] = <<>> /\ \A n \in 1..Len(q) :
        f[n] = IF n \in S THEN Append(f[n - 1], Entry(q[n])) ELSE f[n - 1]
  BY PickedStep
<1>2. g[0] = <<>> /\ \A n \in 1..Len(r) :
        g[n] = IF n \in U THEN Append(g[n - 1], Entry(r[n])) ELSE g[n - 1]
  BY PickedStep
<1> HIDE DEF f, g
<1>3. 0 \in K
  BY <1>1, <1>2
<1>4. ASSUME NEW n \in K PROVE n + 1 \in K
  <2> SUFFICES ASSUME n + 1 <= Len(q) PROVE g[n + 1] = f[n + 1]
    OBVIOUS
  <2>1. n + 1 \in 1..Len(q) /\ n + 1 \in 1..Len(r) /\ (n + 1) - 1 = n /\ g[n] = f[n]
    OBVIOUS
  <2>2. f[n + 1] = IF n + 1 \in S THEN Append(f[n], Entry(q[n + 1])) ELSE f[n]
    BY <1>1, <2>1
  <2>3. g[n + 1] = IF n + 1 \in U THEN Append(g[n], Entry(r[n + 1])) ELSE g[n]
    BY <1>2, <2>1
  <2>4. r[n + 1] = q[n + 1] /\ (n + 1 \in U <=> n + 1 \in S)
    BY <2>1
  <2> QED
    BY <2>1, <2>2, <2>3, <2>4, Zenon
<1>5. K = Nat
  <2> HIDE DEF K
  <2>1. K \in SUBSET Nat
    BY DEF K
  <2> QED
    BY <1>3, <1>4, <2>1, Induction
<1>6. Len(q) \in K
  BY <1>5
<1> QED
  BY <1>6 DEF f, g

LEMMA PickedAppend ==
  ASSUME NEW T, NEW q \in Seq(T), NEW e \in T, NEW S, NEW U,
         \A i \in 1..Len(q) : i \in U <=> i \in S
  PROVE  Picked(Append(q, e), U) =
           IF Len(q) + 1 \in U THEN Append(Picked(q, S), Entry(e)) ELSE Picked(q, S)
<1> DEFINE r == Append(q, e)
<1>1. r \in Seq(T) /\ Len(r) = Len(q) + 1 /\ r[Len(q) + 1] = e /\ Len(q) <= Len(r)
      /\ Len(r) \in 1..Len(r) /\ Len(r) - 1 = Len(q)
      /\ \A i \in 1..Len(q) : r[i] = q[i]
  OBVIOUS
<1> HIDE DEF r
<1>2. PickedUpTo(r, U)[Len(q)] = PickedUpTo(q, S)[Len(q)]
  BY <1>1, PickedPrefix
<1>3. PickedUpTo(r, U)[Len(r)] =
        IF Len(r) \in U THEN Append(PickedUpTo(r, U)[Len(q)], Entry(r[Len(r)]))
        ELSE PickedUpTo(r, U)[Len(q)]
  BY <1>1, PickedStep
<1>4. Picked(r, U) =
        IF Len(q) + 1 \in U THEN Append(Picked(q, S), Entry(e)) ELSE Picked(q, S)
  BY <1>1, <1>2, <1>3 DEF Picked
<1> QED
  BY <1>4 DEF r

(* What is picked of a queue is what its head gives, then that of the rest.*)
LEMMA PickedHead ==
  ASSUME NEW T, NEW q \in Seq(T), q # <<>>, NEW S, NEW U,
         \A i \in 1..Len(q) - 1 : i \in U <=> i + 1 \in S
  PROVE  Picked(q, S) =
           (IF 1 \in S THEN <<Entry(Head(q))>> ELSE <<>>) \o Picked(Tail(q), U)
<1> DEFINE r == Tail(q)
<1> DEFINE h == IF 1 \in S THEN <<Entry(Head(q))>> ELSE <<>>
<1>1. /\ Len(q) \in Nat /\ Len(q) > 0 /\ r \in Seq(T) /\ Len(r) = Len(q) - 1
      /\ Head(q) = q[1] /\ Head(q) \in T
      /\ \A i \in 1..Len(r) : r[i] = q[i + 1]
  OBVIOUS
<1> DEFINE f == PickedUpTo(q, S)
<1> DEFINE g == PickedUpTo(r, U)
<1>2. f[0] = <<>> /\ \A n \in 1..Len(q) :
        f[n] = IF n \in S THEN Append(f[n - 1], Entry(q[n])) ELSE f[n - 1]
  BY PickedStep
<1> HIDE DEF r
<1>3. g[0] = <<>> /\ \A n \in 1..Len(r) :
        g[n] = IF n \in U THEN Append(g[n - 1], Entry(r[n])) ELSE g[n - 1]
  BY <1>1, PickedStep
<1>4. \A n \in 0..Len(r) : g[n] \in Seq(Entries(T))
  BY <1>1, PickedTyped
<1>5. h \in Seq(Entries(T))
  <2>1. PICK e \in Entries(T) : e = Entry(Head(q))
    BY <1>1 DEF Entries
  <2>2. <<e>> \in Seq(Entries(T)) /\ <<>> \in Seq(Entries(T))
    OBVIOUS
  <2> QED
    BY <2>1, <2>2
<1> DEFINE K == {n \in Nat : n <= Len(r) => f[n + 1] = h \o g[n]}
<1> HIDE DEF f, g
<1>6. 0 \in K
  <2>1. f[1] = IF 1 \in S THEN Append(f[0], Entry(q[1])) ELSE f[0]
    <3>1. 1 \in 1..Len(q) /\ 1 - 1 = 0
      BY <1>1
    <3> QED
      BY <1>2, <3>1
  <2>2. f[1] = h
    <3>1. Append(<<>>, Entry(q[1])) = <<Entry(q[1])>>
      OBVIOUS
    <3> QED
      BY <1>1, <1>2, <2>1, <3>1
  <2> HIDE DEF h
  <2>3. h \o <<>> = h
    BY <1>5
  <2>4. f[0 + 1] = h \o g[0]
    BY <1>3, <2>2, <2>3
  <2> QED
    BY <2>4
<1>7. ASSUME NEW n \in K PROVE n + 1 \in K
  <2> HIDE DEF h
  <2> SUFFICES ASSUME n + 1 <= Len(r) PROVE f[n + 2] = h \o g[n + 1]
    <3>1. (n + 1) + 1 = n + 2 /\ n + 1 \in Nat
      OBVIOUS
    <3> QED
      BY <3>1
  <2>1. n + 1 \in 1..Len(r) /\ (n + 1) - 1 = n /\ f[n + 1] = h \o g[n]
        /\ n + 2 \in 1..Len(q) /\ (n + 2) - 1 = n + 1 /\ n \in 0..Len(r)
    BY <1>1
  <2>2. f[n + 2] = IF n + 2 \in S THEN Append(f[n + 1], Entry(q[n + 2]))
                   ELSE f[n + 1]
    BY <1>2, <2>1
  <2>3. g[n + 1] = IF n + 1 \in U THEN Append(g[n], Entry(r[n + 1])) ELSE g[n]
    BY <1>3, <2>1
  <2>4. r[n + 1] = q[n + 2] /\ (n + 1 \in U <=> n + 2 \in S)
    <3>1. n + 1 \in 1..Len(q) - 1 /\ (n + 1) + 1 = n + 2
      BY <1>1, <2>1
    <3> QED
      BY <1>1, <2>1, <3>1
  <2>5. PICK x \in Entries(T) : x = Entry(q[n + 2])
    <3>1. q[n + 2] \in T
      BY <2>1
    <3> QED
      BY <3>1 DEF Entries
  <2>6. Append(h \o g[n], x) = h \o Append(g[n], x)
    <3>1. PICK E : E = Entries(T)
      OBVIOUS
    <3>2. PICK s \in Seq(E) : s = h
      BY <1>5, <3>1
    <3>3. PICK t \in Seq(E) : t = g[n]
      BY <1>4, <2>1, <3>1
    <3>4. PICK y \in E : y = x
      BY <3>1
    <3>5. Append(s \o t, y) = s \o Append(t, y)
      <4>1. s \o t \in Seq(E) /\ <<y>> \in Seq(E)
        OBVIOUS
      <4>2. Append(s \o t, y) = (s \o t) \o <<y>> /\ Append(t, y) = t \o <<y>>
        BY <4>1, AppendIsConcat
      <4>3. (s \o t) \o <<y>> = s \o (t \o <<y>>)
        BY <4>1, ConcatAssociative, SMTT(60)
      <4> QED
        BY <4>2, <4>3
    <3> QED
      BY <3>2, <3>3, <3>4, <3>5, Zenon
  <2> QED
    BY <2>1, <2>2, <2>3, <2>4, <2>5, <2>6
<1>8. K = Nat
  <2> HIDE DEF K
  <2>1. K \in SUBSET Nat
    BY DEF K
  <2> QED
    BY <1>6, <1>7, <2>1, Induction
<1>9. Len(r) \in K /\ Len(r) + 1 = Len(q)
  <2>1. Len(r) \in Nat /\ Len(r) + 1 = Len(q)
    BY <1>1
  <2> HIDE DEF K
  <2> QED
    BY <1>8, <2>1
<1>10. f[Len(q)] = h \o g[Len(r)]
  <2> HIDE DEF h
  <2>1. Len(r) <= Len(r)
    BY <1>1
  <2>2. f[Len(r) + 1] = h \o g[Len(r)]
    BY <1>9, <2>1
  <2> QED
    BY <1>9, <2>2
<1> QED
  BY <1>10 DEF Picked, f, g, r

-----------------------------------------------------------------------------
(* Packets and queues. *)

Senders == Addresses \cup {Controller}
Names == TaskEvents \cup SpoofedNames
           \cup {"START", "STOP", "SYNC", "CONFIG_PENALTY", "SABOTAGE", "MEETING_START",
                 "PLAYER_DEATH"}
Packets == [name : Names, dest : Int, from : Int, about : Int, by : Senders]
Reports == Names \X Int

(* A packet that a task panel reports.                                     *)
Asks(e) == e.name \in TaskEvents /\ e.dest # Everyone

(* What arrives at a panel.                                                *)
PanelPackets == {e \in Packets : e.dest # Controller}

(* What a node keeps for the controller.                                   *)
Telemetry(a) == {e \in Packets : e.dest = Controller /\ e.by = a}

AirTyped(q) ==
  /\ q \in [Senders -> Seq(Packets)]
  /\ \A t \in Tasks : q[t] \in Seq(PanelPackets)

(* Node types tell the addresses apart.                                    *)
LEMMA Apart ==
  /\ Controller \notin Addresses /\ Everyone \notin Addresses /\ Controller # Everyone
  /\ Controller \in Int /\ Everyone \in Int
  /\ Controller \in Senders /\ Addresses \subseteq Senders
  /\ \A t \in Tasks : /\ t \in Addresses /\ t \in Senders /\ t \in Int
                     /\ t \notin Players /\ t # Controller /\ t # Everyone
  /\ \A p \in Players : /\ p \in Addresses /\ p \in Senders /\ p \in Int
                       /\ p # Controller /\ p # Everyone
<1>1. PLAYER = 3 /\ TASK = 4
  BY DEF PLAYER, TASK
<1>2. ASSUME NEW a \in OfType(PLAYER) PROVE a \in Int /\ a >= 768 /\ a < 1024
  BY <1>1, SMT DEF OfType, AddressOf
<1>3. ASSUME NEW a \in OfType(TASK) PROVE a \in Int /\ a >= 1024 /\ a < 1280
  BY <1>1, SMT DEF OfType, AddressOf
<1>4. Controller \in Int /\ Controller < 768 /\ Everyone \in Int /\ Everyone >= 1280
  BY SMT DEF Controller, AddressOf, GAME_CONTROLLER, Everyone
<1>5. Controller # Everyone
  BY <1>4, SMT
<1>6. ASSUME NEW t \in Tasks
      PROVE  t \in OfType(TASK) /\ t \in Addresses /\ t \in Senders
  BY GameAssumption DEF Addresses, Senders
<1>7. ASSUME NEW p \in Players
      PROVE  p \in OfType(PLAYER) /\ p \in Addresses /\ p \in Senders
  BY GameAssumption DEF Addresses, Senders
<1>8. ASSUME NEW t \in Tasks
      PROVE  t \in Int /\ t \notin Players /\ t # Controller /\ t # Everyone
  <2>1. t \notin OfType(PLAYER)
    BY <1>2, <1>3, <1>6, SMT
  <2> QED
    BY <1>3, <1>4, <1>6, <1>7, <2>1, SMT
<1>9. ASSUME NEW p \in Players
      PROVE  p \in Int /\ p # Controller /\ p # Everyone
  BY <1>2, <1>4, <1>7, SMT
<1> QED
  BY <1>4, <1>5, <1>6, <1>7, <1>8, <1>9 DEF Addresses, Senders

LEMMA NumberTyped ==
  ASSUME NEW a \in Int
  PROVE  NumberOf(a) \in Int /\ AddressOf(PLAYER, a) \in Int
BY SMT DEF NumberOf, AddressOf, PLAYER

LEMMA AddressTyped == AnyAddress \subseteq Int
BY SMT DEF AnyAddress, AddressOf

LEMMA Subsequences ==
  ASSUME NEW T, T \subseteq Packets, NEW q \in Seq(T)
  PROVE  q \in Seq(Packets)
BY SeqMonotonic

LEMMA EntryOfPacket ==
  ASSUME NEW e \in Packets
  PROVE  Entry(e) \in Reports
<1>1. e.name \in Names /\ e.from \in Int /\ e.about \in Int
  BY DEF Packets
<1>2. Subject(e) \in Int
  BY <1>1, NumberTyped DEF Subject
<1> QED
  BY <1>1, <1>2 DEF Entry, Reports

LEMMA ReportsTyped ==
  ASSUME NEW q \in Seq(Packets), NEW t
  PROVE  FromPanel(q, t) \in Seq(Reports) /\ ToPanel(q) \in Seq(Reports)
<1>1. Entries(Packets) \subseteq Reports
  BY EntryOfPacket DEF Entries
<1>2. ASSUME NEW S PROVE Picked(q, S) \in Seq(Reports)
  <2>1. Len(q) \in 0..Len(q)
    OBVIOUS
  <2>2. PickedUpTo(q, S)[Len(q)] \in Seq(Entries(Packets))
    BY <2>1, PickedTyped
  <2>3. Picked(q, S) \in Seq(Entries(Packets))
    BY <2>2 DEF Picked
  <2> QED
    BY <1>1, <2>3, SeqMonotonic
<1> QED
  BY <1>2 DEF FromPanel, ToPanel

LEMMA FromPanelAppend ==
  ASSUME NEW q \in Seq(Packets), NEW e \in Packets, NEW t
  PROVE  FromPanel(Append(q, e), t) =
           IF e.by = t THEN Append(FromPanel(q, t), Entry(e)) ELSE FromPanel(q, t)
<1> DEFINE r == Append(q, e)
<1> DEFINE S == {i \in DOMAIN q : q[i].by = t}
<1> DEFINE U == {i \in DOMAIN r : r[i].by = t}
<1>1. /\ DOMAIN q = 1..Len(q) /\ DOMAIN r = 1..Len(q) + 1 /\ Len(q) \in Nat
      /\ r[Len(q) + 1] = e /\ \A i \in 1..Len(q) : r[i] = q[i]
  OBVIOUS
<1>2. \A i \in 1..Len(q) : i \in U <=> i \in S
  BY <1>1
<1>3. Len(q) + 1 \in U <=> e.by = t
  BY <1>1
<1> HIDE DEF S, U
<1>4. Picked(Append(q, e), U) =
        IF Len(q) + 1 \in U THEN Append(Picked(q, S), Entry(e)) ELSE Picked(q, S)
  BY <1>2, PickedAppend
<1> QED
  BY <1>3, <1>4, Zenon DEF FromPanel, S, U

LEMMA ToPanelAppend ==
  ASSUME NEW q \in Seq(Packets), NEW e \in Packets
  PROVE  ToPanel(Append(q, e)) = IF Asks(e) THEN Append(ToPanel(q), Entry(e)) ELSE ToPanel(q)
<1> DEFINE r == Append(q, e)
<1> DEFINE S == {i \in DOMAIN q : q[i].name \in TaskEvents /\ q[i].dest # Everyone}
<1> DEFINE U == {i \in DOMAIN r : r[i].name \in TaskEvents /\ r[i].dest # Everyone}
<1>1. /\ DOMAIN q = 1..Len(q) /\ DOMAIN r = 1..Len(q) + 1 /\ Len(q) \in Nat
      /\ r[Len(q) + 1] = e /\ \A i \in 1..Len(q) : r[i] = q[i]
  OBVIOUS
<1>2. \A i \in 1..Len(q) : i \in U <=> i \in S
  BY <1>1
<1>3. Len(q) + 1 \in U <=> Asks(e)
  BY <1>1 DEF Asks
<1> HIDE DEF S, U
<1>4. Picked(Append(q, e), U) =
        IF Len(q) + 1 \in U THEN Append(Picked(q, S), Entry(e)) ELSE Picked(q, S)
  BY <1>2, PickedAppend
<1> QED
  BY <1>3, <1>4, Zenon DEF ToPanel, S, U

LEMMA FromPanelHead ==
  ASSUME NEW q \in Seq(Packets), q # <<>>, NEW t
  PROVE  FromPanel(q, t) =
           (IF Head(q).by = t THEN <<Entry(Head(q))>> ELSE <<>>) \o FromPanel(Tail(q), t)
<1> DEFINE r == Tail(q)
<1> DEFINE S == {i \in DOMAIN q : q[i].by = t}
<1> DEFINE U == {i \in DOMAIN r : r[i].by = t}
<1>1. /\ DOMAIN q = 1..Len(q) /\ DOMAIN r = 1..Len(q) - 1 /\ Len(q) \in Nat /\ Len(q) > 0
      /\ Head(q) = q[1] /\ \A i \in 1..Len(q) - 1 : r[i] = q[i + 1]
  OBVIOUS
<1>2. \A i \in 1..Len(q) - 1 : i \in U <=> i + 1 \in S
  BY <1>1
<1>3. 1 \in S <=> Head(q).by = t
  BY <1>1
<1> HIDE DEF S, U
<1>4. Picked(q, S) = (IF 1 \in S THEN <<Entry(Head(q))>> ELSE <<>>) \o Picked(Tail(q), U)
  BY <1>2, PickedHead
<1> QED
  BY <1>3, <1>4, Zenon DEF FromPanel, S, U

LEMMA ToPanelHead ==
  ASSUME NEW q \in Seq(Packets), q # <<>>
  PROVE  ToPanel(q) =
           (IF Asks(Head(q)) THEN <<Entry(Head(q))>> ELSE <<>>) \o ToPanel(Tail(q))
<1> DEFINE r == Tail(q)
<1> DEFINE S == {i \in DOMAIN q : q[i].name \in TaskEvents /\ q[i].dest # Everyone}
<1> DEFINE U == {i \in DOMAIN r : r[i].name \in TaskEvents /\ r[i].dest # Everyone}
<1>1. /\ DOMAIN q = 1..Len(q) /\ DOMAIN r = 1..Len(q) - 1 /\ Len(q) \in Nat /\ Len(q) > 0
      /\ Head(q) = q[1] /\ \A i \in 1..Len(q) - 1 : r[i] = q[i + 1]
  OBVIOUS
<1>2. \A i \in 1..Len(q) - 1 : i \in U <=> i + 1 \in S
  BY <1>1
<1>3. 1 \in S <=> Asks(Head(q))
  BY <1>1 DEF Asks
<1> HIDE DEF S, U
<1>4. Picked(q, S) = (IF 1 \in S THEN <<Entry(Head(q))>> ELSE <<>>) \o Picked(Tail(q), U)
  BY <1>2, PickedHead
<1> QED
  BY <1>3, <1>4, Zenon DEF ToPanel, S, U

-----------------------------------------------------------------------------
(* Sequences of reports. *)

LEMMA Regroup ==
  ASSUME NEW a \in Seq(Reports), NEW b \in Seq(Reports), NEW c \in Seq(Reports)
  PROVE  (a \o b) \o c = a \o (b \o c)
BY ConcatAssociative

LEMMA AppendLast ==
  ASSUME NEW a \in Seq(Reports), NEW b \in Seq(Reports), NEW x \in Reports
  PROVE  Append(a \o b, x) = a \o Append(b, x)
<1>1. a \o b \in Seq(Reports) /\ <<x>> \in Seq(Reports)
  OBVIOUS
<1>2. Append(a \o b, x) = (a \o b) \o <<x>> /\ Append(b, x) = b \o <<x>>
  BY <1>1, AppendIsConcat
<1>3. (a \o b) \o <<x>> = a \o (b \o <<x>>)
  BY <1>1, ConcatAssociative
<1> QED
  BY <1>2, <1>3

LEMMA MoveOne ==
  ASSUME NEW a \in Seq(Reports), NEW b \in Seq(Reports), NEW x \in Reports
  PROVE  Append(a, x) \o b = a \o (<<x>> \o b)
<1>1. <<x>> \in Seq(Reports)
  OBVIOUS
<1>2. Append(a, x) = a \o <<x>>
  BY AppendIsConcat
<1>3. (a \o <<x>>) \o b = a \o (<<x>> \o b)
  BY <1>1, ConcatAssociative
<1> QED
  BY <1>2, <1>3

LEMMA NothingFirst ==
  ASSUME NEW a \in Seq(Reports)
  PROVE  <<>> \o a = a
OBVIOUS

-----------------------------------------------------------------------------
(* What is sent. *)

(* A packet that says nothing of a task panel.                             *)
Quiet(e) == e \in Packets /\ e.by \notin Tasks /\ (e.dest \notin Tasks \/ ~Asks(e))

(* The same reports are under way in r as in q.                            *)
SameReports(r, q) ==
  \A t \in Tasks : /\ FromPanel(r[Controller], t) = FromPanel(q[Controller], t)
                   /\ ToPanel(r[t]) = ToPanel(q[t])

LEMMA QuietTransmit ==
  ASSUME NEW q, AirTyped(q), NEW e, Quiet(e), NEW src
  PROVE  AirTyped(Transmit(q, e, src)) /\ SameReports(Transmit(q, e, src), q)
<1> DEFINE r == Transmit(q, e, src)
<1> DEFINE A == Senders
<1>1. /\ q \in [A -> Seq(Packets)] /\ DOMAIN q = A
      /\ \A t \in Tasks : q[t] \in Seq(PanelPackets)
  BY DEF AirTyped
<1>2. /\ DOMAIN r = A /\ r = [a \in A |-> r[a]]
      /\ \A a \in A : r[a] = q[a] \/ (r[a] = Append(q[a], e) /\ (a = e.dest \/ e.dest = Everyone))
  BY <1>1 DEF Transmit
<1> HIDE DEF r
<1>3. e \in Packets /\ e.by \notin Tasks
  BY DEF Quiet
<1>4. ASSUME NEW a \in A PROVE r[a] \in Seq(Packets)
  <2>1. q[a] \in Seq(Packets)
    BY <1>1
  <2>2. Append(q[a], e) \in Seq(Packets)
    BY <1>3, <2>1
  <2>3. r[a] = q[a] \/ r[a] = Append(q[a], e)
    BY <1>2
  <2> QED
    BY <2>1, <2>2, <2>3
<1>5. ASSUME NEW t \in Tasks, r[t] # q[t]
      PROVE  r[t] = Append(q[t], e) /\ ~Asks(e) /\ e.dest # Controller
  <2>1. t \in A /\ t # Controller /\ Everyone # Controller
    BY Apart
  <2>2. r[t] = Append(q[t], e) /\ (t = e.dest \/ e.dest = Everyone)
    BY <1>2, <1>5, <2>1
  <2> QED
    BY <2>1, <2>2 DEF Quiet, Asks
<1>6. AirTyped(r)
  <2>1. ASSUME NEW t \in Tasks PROVE r[t] \in Seq(PanelPackets)
    <3>1. CASE r[t] = q[t]
      BY <1>1, <3>1
    <3>2. CASE r[t] # q[t]
      <4>1. e \in PanelPackets
        BY <1>3, <1>5, <3>2 DEF PanelPackets
      <4> QED
        BY <1>1, <1>5, <3>2, <4>1
    <3> QED
      BY <3>1, <3>2
  <2> QED
    BY <1>2, <1>4, <2>1 DEF AirTyped
<1>7. SameReports(r, q)
  <2> SUFFICES ASSUME NEW t \in Tasks
               PROVE  /\ FromPanel(r[Controller], t) = FromPanel(q[Controller], t)
                      /\ ToPanel(r[t]) = ToPanel(q[t])
    BY DEF SameReports
  <2>1. FromPanel(r[Controller], t) = FromPanel(q[Controller], t)
    <3>1. q[Controller] \in Seq(Packets) /\ e.by # t
      BY <1>1, <1>3 DEF Senders
    <3>2. FromPanel(Append(q[Controller], e), t) = FromPanel(q[Controller], t)
      BY <1>3, <3>1, FromPanelAppend
    <3>3. r[Controller] = q[Controller] \/ r[Controller] = Append(q[Controller], e)
      BY <1>2 DEF Senders
    <3> QED
      BY <3>2, <3>3
  <2>2. ToPanel(r[t]) = ToPanel(q[t])
    <3>1. CASE r[t] = q[t]
      BY <3>1
    <3>2. CASE r[t] # q[t]
      <4>1. q[t] \in Seq(Packets)
        BY <1>1, Apart
      <4>2. ToPanel(Append(q[t], e)) = ToPanel(q[t])
        BY <1>3, <1>5, <3>2, <4>1, ToPanelAppend
      <4> QED
        BY <1>5, <3>2, <4>2
    <3> QED
      BY <3>1, <3>2
  <2> QED
    BY <2>1, <2>2
<1> QED
  BY <1>6, <1>7 DEF r

(* What a panel is told is the newest report that is under way.            *)
LEMMA PanelTold ==
  ASSUME NEW q, AirTyped(q), NEW t \in Tasks, NEW e \in Packets, Asks(e), e.dest = t, NEW src
  PROVE  LET r == Transmit(q, e, src) IN
         /\ AirTyped(r)
         /\ r[Controller] = q[Controller]
         /\ ToPanel(r[t]) = Append(ToPanel(q[t]), Entry(e))
         /\ \A u \in Tasks \ {t} : r[u] = q[u]
<1> DEFINE r == Transmit(q, e, src)
<1> DEFINE A == Senders
<1>1. /\ q \in [A -> Seq(Packets)] /\ DOMAIN q = A
      /\ \A u \in Tasks : q[u] \in Seq(PanelPackets)
  BY DEF AirTyped
<1>2. t \in A /\ t # Controller /\ t # Everyone /\ Controller \in A
  BY Apart DEF Senders
<1>3. e.dest # Everyone
  BY <1>2
<1>4. r = [a \in A |-> IF a = t THEN Append(q[a], e) ELSE q[a]]
  BY <1>1, <1>2, <1>3 DEF Transmit
<1> HIDE DEF r
<1>5. r[t] = Append(q[t], e) /\ r[Controller] = q[Controller] /\ \A u \in A \ {t} : r[u] = q[u]
  BY <1>2, <1>4
<1>6. e \in PanelPackets
  BY <1>2 DEF PanelPackets
<1>7. AirTyped(r)
  <2>1. ASSUME NEW u \in Tasks PROVE r[u] \in Seq(PanelPackets)
    <3>1. CASE u = t
      <4>1. q[t] \in Seq(PanelPackets) /\ r[t] = Append(q[t], e)
        BY <1>1, <1>5
      <4> QED
        BY <1>6, <3>1, <4>1
    <3>2. CASE u # t
      BY <1>1, <1>5, <3>2, Apart
    <3> QED
      BY <3>1, <3>2
  <2>2. r \in [A -> Seq(Packets)]
    BY <1>1, <1>4
  <2> QED
    BY <2>1, <2>2 DEF AirTyped
<1>8. q[t] \in Seq(Packets)
  BY <1>1, <1>2
<1>9. ToPanel(Append(q[t], e)) = Append(ToPanel(q[t]), Entry(e))
  BY <1>8, ToPanelAppend
<1>10. \A u \in Tasks \ {t} : u \in A \ {t}
  BY Apart
<1> QED
  BY <1>5, <1>7, <1>9, <1>10 DEF r

(* A node that takes its first packet.                                     *)
LEMMA Taken ==
  ASSUME NEW q, AirTyped(q), NEW a \in Senders, HasPacket(q, a)
  PROVE  LET r == Received(q, a) IN
         /\ AirTyped(r)
         /\ FirstPacket(q, a) \in Packets /\ FirstPacket(q, a) = Head(q[a])
         /\ a \in Tasks => FirstPacket(q, a) \in PanelPackets
         /\ q[a] \in Seq(Packets) /\ q[a] # <<>> /\ r[a] = Tail(q[a])
         /\ \A b \in Senders \ {a} : r[b] = q[b]
<1> DEFINE r == Received(q, a)
<1> DEFINE A == Senders
<1>1. /\ q \in [A -> Seq(Packets)] /\ DOMAIN q = A
      /\ \A u \in Tasks : q[u] \in Seq(PanelPackets)
  BY DEF AirTyped
<1>2. q[a] \in Seq(Packets) /\ q[a] # <<>>
  BY <1>1 DEF HasPacket
<1>3. Head(q[a]) \in Packets /\ Tail(q[a]) \in Seq(Packets)
  BY <1>2
<1>4. r[a] = Tail(q[a]) /\ (\A b \in A \ {a} : r[b] = q[b]) /\ r \in [A -> Seq(Packets)]
  BY <1>1, <1>3 DEF Received
<1>5. ASSUME a \in Tasks
      PROVE  Head(q[a]) \in PanelPackets /\ Tail(q[a]) \in Seq(PanelPackets)
  <2>1. q[a] \in Seq(PanelPackets)
    BY <1>1, <1>5
  <2> QED
    BY <1>2, <2>1
<1> HIDE DEF r
<1>6. AirTyped(r)
  <2>1. ASSUME NEW u \in Tasks PROVE r[u] \in Seq(PanelPackets)
    <3>1. CASE u = a
      BY <1>4, <1>5, <3>1
    <3>2. CASE u # a
      BY <1>1, <1>4, <3>2, Apart
    <3> QED
      BY <3>1, <3>2
  <2> QED
    BY <1>4, <2>1 DEF AirTyped
<1> QED
  BY <1>2, <1>3, <1>4, <1>5, <1>6 DEF r, FirstPacket


-----------------------------------------------------------------------------
(* Nodes that answer a poll. *)

Threads == {"none", "ready", "loop", "ended"}
NodeRecord(a) == [thread : Threads, radio : BOOLEAN, tx : Seq(Telemetry(a))]

LEMMA TelemetrySequences ==
  ASSUME NEW a, NEW q \in Seq(Telemetry(a))
  PROVE  q \in Seq(Packets)
<1>1. Telemetry(a) \subseteq Packets
  BY DEF Telemetry
<1> QED
  BY <1>1, SeqMonotonic

(* A poll moves the oldest report of a panel to the controller's queue.    *)
LEMMA PanelResponds ==
  ASSUME NEW q, AirTyped(q), NEW n \in Nodes, Address(n) \in Tasks,
         NEW tx \in Seq(Telemetry(Address(n)))
  PROVE  LET r == Respond(q, n, tx)
             t == Address(n)
         IN
         /\ AirTyped(r.air) /\ r.tx \in Seq(Telemetry(t))
         /\ FromPanel(r.air[Controller], t) \o FromPanel(r.tx, t)
              = FromPanel(q[Controller], t) \o FromPanel(tx, t)
         /\ \A u \in Tasks \ {t} : FromPanel(r.air[Controller], u) = FromPanel(q[Controller], u)
         /\ \A u \in Tasks : ToPanel(r.air[u]) = ToPanel(q[u])
<1> DEFINE r == Respond(q, n, tx)
<1> DEFINE t == Address(n)
<1> DEFINE A == Senders
<1>1. CASE tx = <<>>
  <2>1. r.air = q /\ r.tx = tx
    BY <1>1 DEF Respond
  <2> QED
    BY <2>1
<1>2. CASE tx # <<>>
  <2> DEFINE e == Head(tx)
  <2>1. e \in Telemetry(t) /\ Tail(tx) \in Seq(Telemetry(t))
    BY <1>2
  <2>2. e \in Packets /\ e.dest = Controller /\ e.by = t
    BY <2>1 DEF Telemetry
  <2>3. tx \in Seq(Packets) /\ Tail(tx) \in Seq(Packets)
    BY <2>1, TelemetrySequences
  <2> DEFINE c == q[Controller]
  <2>4. /\ q \in [A -> Seq(Packets)] /\ DOMAIN q = A
        /\ \A u \in Tasks : q[u] \in Seq(PanelPackets)
    BY DEF AirTyped
  <2>5. Controller # Everyone /\ Controller \in A
    BY Apart DEF Senders
  <2>6. /\ r.tx = Tail(tx)
        /\ r.air = [a \in A |-> IF a = Controller THEN Append(q[a], e) ELSE q[a]]
    BY <1>2, <2>2, <2>4, <2>5 DEF Respond, Transmit
  <2> HIDE DEF r, e, t
  <2>7. /\ r.air[Controller] = Append(c, e) /\ c \in Seq(Packets)
        /\ \A u \in Tasks : r.air[u] = q[u]
    BY <2>4, <2>5, <2>6, Apart
  <2>8. AirTyped(r.air)
    <3>1. r.air \in [A -> Seq(Packets)]
      BY <2>2, <2>4, <2>6
    <3> QED
      BY <2>4, <2>7, <3>1 DEF AirTyped
  <2>9. FromPanel(Append(c, e), t) = Append(FromPanel(c, t), Entry(e))
    BY <2>2, <2>7, FromPanelAppend
  <2>10. ASSUME NEW u \in Tasks \ {t} PROVE FromPanel(Append(c, e), u) = FromPanel(c, u)
    <3>1. e.by # u
      BY <2>2
    <3> QED
      BY <2>2, <2>7, <3>1, FromPanelAppend
  <2>11. FromPanel(tx, t) = <<Entry(e)>> \o FromPanel(Tail(tx), t)
    BY <1>2, <2>2, <2>3, FromPanelHead DEF e
  <2>12. FromPanel(c, t) \in Seq(Reports) /\ FromPanel(Tail(tx), t) \in Seq(Reports)
         /\ Entry(e) \in Reports
    BY <2>2, <2>3, <2>7, ReportsTyped, EntryOfPacket
  <2>13. Append(FromPanel(c, t), Entry(e)) \o FromPanel(Tail(tx), t)
           = FromPanel(c, t) \o (<<Entry(e)>> \o FromPanel(Tail(tx), t))
    <3>1. PICK a \in Seq(Reports) : a = FromPanel(c, t)
      BY <2>12
    <3>2. PICK b \in Seq(Reports) : b = FromPanel(Tail(tx), t)
      BY <2>12
    <3>3. PICK x \in Reports : x = Entry(e)
      BY <2>12
    <3>4. Append(a, x) \o b = a \o (<<x>> \o b)
      BY MoveOne
    <3> QED
      BY <3>1, <3>2, <3>3, <3>4, Zenon
  <2>14. FromPanel(r.air[Controller], t) \o FromPanel(r.tx, t)
           = FromPanel(c, t) \o FromPanel(tx, t)
    BY <2>6, <2>7, <2>9, <2>11, <2>13, Zenon
  <2>15. r.tx \in Seq(Telemetry(t))
    BY <2>1, <2>6
  <2> QED
    BY <2>7, <2>8, <2>10, <2>14, <2>15 DEF r, t
<1> QED
  BY <1>1, <1>2

(* A player's telemetry says nothing of a panel.                           *)
LEMMA PlayerResponds ==
  ASSUME NEW q, AirTyped(q), NEW n \in Nodes, Address(n) \in Players,
         NEW tx \in Seq(Telemetry(Address(n)))
  PROVE  LET r == Respond(q, n, tx) IN
         AirTyped(r.air) /\ r.tx \in Seq(Telemetry(Address(n))) /\ SameReports(r.air, q)
<1> DEFINE r == Respond(q, n, tx)
<1>1. CASE tx = <<>>
  <2>1. r.air = q /\ r.tx = tx
    BY <1>1 DEF Respond
  <2> QED
    BY <2>1 DEF SameReports
<1>2. CASE tx # <<>>
  <2>1. Head(tx) \in Telemetry(Address(n)) /\ Tail(tx) \in Seq(Telemetry(Address(n)))
    BY <1>2
  <2>2. Quiet(Head(tx))
    BY <2>1, Apart DEF Quiet, Telemetry
  <2>3. r.air = Transmit(q, Head(tx), Address(n)) /\ r.tx = Tail(tx)
    BY <1>2 DEF Respond
  <2> QED
    BY <2>1, <2>2, <2>3, QuietTransmit
<1> QED
  BY <1>1, <1>2

-----------------------------------------------------------------------------
(* The reports that are under way. *)

NodesTyped(m) ==
  /\ m = [n \in Nodes |-> m[n]]
  /\ \A n \in Nodes : m[n] \in NodeRecord(Address(n))

Flight(q, m, t) ==
  FromPanel(q[Controller], t) \o FromPanel(m[<<0, t>>].tx, t) \o ToPanel(q[t])

(* Only the first batch runs before a reset.                               *)
PipeTypes ==
  /\ AirTyped(air) /\ NodesTyped(node)
  /\ \A n \in Nodes : n[1] # 0 => node[n].thread = "none"
  /\ told \in [Tasks -> Seq(Reports)]
  /\ seen \in [Tasks -> Seq(Reports)]

Delivered == \A t \in Tasks : told[t] = seen[t] \o Flight(air, node, t)

Pipe == PipeTypes /\ Delivered

LEMMA FlightTyped ==
  ASSUME NEW q, AirTyped(q), NEW m, NodesTyped(m), NEW t \in Tasks
  PROVE  /\ FromPanel(q[Controller], t) \in Seq(Reports)
         /\ FromPanel(m[<<0, t>>].tx, t) \in Seq(Reports)
         /\ ToPanel(q[t]) \in Seq(Reports)
<1>1. q[Controller] \in Seq(Packets) /\ q[t] \in Seq(Packets)
  BY Apart DEF AirTyped
<1>2. <<0, t>> \in Nodes /\ Address(<<0, t>>) = t
  BY Apart, GameAssumption DEF Nodes, Batches, Address
<1>3. m[<<0, t>>].tx \in Seq(Telemetry(t))
  BY <1>2 DEF NodesTyped, NodeRecord
<1>4. m[<<0, t>>].tx \in Seq(Packets)
  BY <1>3, TelemetrySequences
<1> QED
  BY <1>1, <1>4, ReportsTyped

(* Nothing is sent or taken that is a report.                              *)
LEMMA SameFlight ==
  ASSUME Pipe, AirTyped(air'), SameReports(air', air), NodesTyped(node'),
         \A n \in Nodes : node'[n].thread = node[n].thread,
         \A n \in Nodes : Address(n) \in Tasks => node'[n].tx = node[n].tx,
         UNCHANGED <<told, seen>>
  PROVE  Pipe'
<1>1. ASSUME NEW t \in Tasks PROVE Flight(air', node', t) = Flight(air, node, t)
  <2>1. <<0, t>> \in Nodes /\ Address(<<0, t>>) = t
    BY Apart, GameAssumption DEF Nodes, Batches, Address
  <2> QED
    BY <2>1 DEF Flight, SameReports
<1>2. Delivered'
  BY <1>1 DEF Pipe, Delivered
<1>3. PipeTypes'
  BY DEF Pipe, PipeTypes
<1> QED
  BY <1>2, <1>3 DEF Pipe

-----------------------------------------------------------------------------
(* One lemma for each kind of step. *)

(* A panel is told something, by a player or by a spoofed packet.          *)
LEMMA TellKeeps ==
  ASSUME Pipe, NEW e \in Packets, Asks(e), e.dest \in Tasks, NEW src,
         air' = Transmit(air, e, src), told' = Told(e), UNCHANGED <<node, seen>>
  PROVE  Pipe'
<1> DEFINE t == e.dest
<1>1. AirTyped(air) /\ NodesTyped(node) /\ told \in [Tasks -> Seq(Reports)] /\ t \in Tasks
  BY DEF Pipe, PipeTypes
<1>2. t \in DOMAIN air
  BY <1>1, Apart DEF AirTyped
<1>3. told' = [told EXCEPT ![t] = Append(@, Entry(e))]
  BY <1>1, <1>2 DEF Told, Asks
<1>4. t = e.dest
  OBVIOUS
<1> HIDE DEF t
<1>5. /\ AirTyped(air') /\ air'[Controller] = air[Controller]
      /\ ToPanel(air'[t]) = Append(ToPanel(air[t]), Entry(e))
      /\ \A u \in Tasks \ {t} : air'[u] = air[u]
  BY <1>1, <1>4, PanelTold
<1>6. Entry(e) \in Reports
  BY EntryOfPacket
<1>7. told' \in [Tasks -> Seq(Reports)] /\ told'[t] = Append(told[t], Entry(e))
      /\ \A u \in Tasks \ {t} : told'[u] = told[u]
  BY <1>1, <1>3, <1>6
<1>8. PipeTypes'
  BY <1>5, <1>7 DEF Pipe, PipeTypes
<1>9. ASSUME NEW u \in Tasks PROVE told'[u] = seen[u] \o Flight(air', node, u)
  <2>1. told[u] = seen[u] \o Flight(air, node, u)
    BY DEF Pipe, Delivered
  <2>2. CASE u # t
    BY <1>5, <1>7, <2>1, <2>2 DEF Flight
  <2>3. CASE u = t
    <3>1. PICK a \in Seq(Reports) : a = FromPanel(air[Controller], t)
      BY <1>1, FlightTyped
    <3>2. PICK b \in Seq(Reports) : b = FromPanel(node[<<0, t>>].tx, t)
      BY <1>1, FlightTyped
    <3>3. PICK c \in Seq(Reports) : c = ToPanel(air[t])
      BY <1>1, FlightTyped
    <3>4. PICK s \in Seq(Reports) : s = seen[t]
      BY <1>1 DEF Pipe, PipeTypes
    <3>5. PICK x \in Reports : x = Entry(e)
      BY <1>6
    <3>6. told[t] = s \o ((a \o b) \o c)
      BY <2>1, <2>3, <3>1, <3>2, <3>3, <3>4 DEF Flight
    <3>7. Flight(air', node, t) = (a \o b) \o Append(c, x)
      BY <1>5, <3>1, <3>2, <3>3, <3>5 DEF Flight
    <3>8. a \o b \in Seq(Reports) /\ (a \o b) \o c \in Seq(Reports)
      OBVIOUS
    <3>9. PICK d \in Seq(Reports) : d = a \o b
      BY <3>8
    <3>10. PICK f \in Seq(Reports) : f = (a \o b) \o c
      BY <3>8
    <3>11. Append(d \o c, x) = d \o Append(c, x)
      BY AppendLast
    <3>12. Append(s \o f, x) = s \o Append(f, x)
      BY AppendLast
    <3> QED
      BY <1>7, <2>3, <3>4, <3>5, <3>6, <3>7, <3>9, <3>10, <3>11, <3>12, Zenon
  <2> QED
    BY <2>2, <2>3
<1>10. Delivered'
  BY <1>9 DEF Delivered
<1> QED
  BY <1>8, <1>10 DEF Pipe

LEMMA PlayersAreNodes ==
  ASSUME NEW n \in PlayerNodes
  PROVE  n \in Nodes /\ Address(n) \in Players /\ Address(n) \notin Tasks
BY Apart DEF PlayerNodes, Nodes, Address

LEMMA SabotageKeeps ==
  ASSUME Pipe, NEW n \in PlayerNodes, QueueSabotage(n), UNCHANGED <<air, told, seen>>
  PROVE  Pipe'
<1>1. n \in Nodes /\ Address(n) \in Players /\ Address(n) \notin Tasks
  BY PlayersAreNodes
<1> DEFINE e == Event("SABOTAGE", Controller, Address(n), NoOne, Address(n))
<1>2. e \in Telemetry(Address(n))
  BY <1>1, Apart DEF Event, Telemetry, Packets, Names, NoOne
<1>3. NodesTyped(node) /\ node[n] \in NodeRecord(Address(n))
  BY <1>1 DEF Pipe, PipeTypes, NodesTyped
<1> DEFINE x == [node[n] EXCEPT !.tx = Append(@, e)]
<1> HIDE DEF e
<1>4. x \in NodeRecord(Address(n)) /\ x.thread = node[n].thread
  <2>1. node[n].tx \in Seq(Telemetry(Address(n)))
    BY <1>3 DEF NodeRecord
  <2>2. PICK tx \in Seq(Telemetry(Address(n))) : tx = Append(node[n].tx, e)
    <3>1. Append(node[n].tx, e) \in Seq(Telemetry(Address(n)))
      BY <1>2, <2>1
    <3> QED
      BY <3>1
  <2>3. x = [node[n] EXCEPT !.tx = tx]
    BY <2>2
  <2> HIDE DEF x
  <2> QED
    BY <1>3, <2>3 DEF NodeRecord
<1>5. node' = [node EXCEPT ![n] = x]
  BY DEF QueueSabotage, e
<1> HIDE DEF x
<1>6. node' = [m \in Nodes |-> IF m = n THEN x ELSE node[m]]
  BY <1>3, <1>5 DEF NodesTyped
<1>7. NodesTyped(node') /\ \A m \in Nodes : node'[m].thread = node[m].thread
  BY <1>3, <1>4, <1>6 DEF NodesTyped
<1>8. \A m \in Nodes : Address(m) \in Tasks => node'[m].tx = node[m].tx
  BY <1>1, <1>6
<1>9. AirTyped(air') /\ SameReports(air', air)
  BY DEF Pipe, PipeTypes, SameReports
<1> QED
  BY <1>7, <1>8, <1>9, SameFlight

LEMMA UnchangedKeeps ==
  ASSUME Pipe, UNCHANGED <<air, node, told, seen>>
  PROVE  Pipe'
BY DEF Pipe, PipeTypes, Delivered

(* The controller sends what says nothing of a panel.                      *)
LEMMA QuietKeeps ==
  ASSUME Pipe, NEW e, Quiet(e), air' = Transmit(air, e, Controller),
         UNCHANGED <<node, told, seen>>
  PROVE  Pipe'
<1>1. AirTyped(air') /\ SameReports(air', air)
  BY QuietTransmit DEF Pipe, PipeTypes
<1>2. NodesTyped(node')
  BY DEF Pipe, PipeTypes
<1> QED
  BY <1>1, <1>2, SameFlight

LEMMA BroadcastQuiet ==
  ASSUME NEW name \in Names
  PROVE  Quiet(Broadcast(name))
BY Apart DEF Broadcast, Command, Event, Quiet, Packets, Senders, NoOne, Asks

LEMMA CommandQuiet ==
  ASSUME NEW name \in {"SYNC", "CONFIG_PENALTY"}, NEW a \in Int, NEW about \in Int
  PROVE  Quiet(Event(name, a, Controller, about, Controller))
BY Apart DEF Event, Quiet, Packets, Senders, Asks, Names, TaskEvents

LEMMA PlayerTells ==
  ASSUME Pipe, NEW n \in PlayerNodes, player[n].active \in Tasks, NEW name \in TaskEvents,
         Tell(n, name), UNCHANGED <<node, seen>>
  PROVE  Pipe'
<1> DEFINE e == Event(name, player[n].active, Address(n), NoOne, Address(n))
<1>1. Address(n) \in Players
  BY PlayersAreNodes
<1>2. e \in Packets /\ Asks(e) /\ e.dest \in Tasks
  BY <1>1, Apart DEF Event, Packets, Asks, Names, NoOne
<1>3. air' = Transmit(air, e, Address(n)) /\ told' = Told(e)
  BY DEF Tell
<1> HIDE DEF e
<1> QED
  BY <1>2, <1>3, TellKeeps

LEMMA TickPipe ==
  ASSUME Pipe, PlayInv, NEW n \in PlayerNodes, Tick(n)
  PROVE  Pipe'
<1>1. player[n].active # NoTask => player[n].active \in Tasks
  BY DEF PlayInv, PlayerRecord
<1>2. CASE PenaltyOver(n)
  BY <1>2, UnchangedKeeps DEF PenaltyOver, tickOnly
<1>3. CASE CheckIn(n)
  BY <1>1, <1>3, PlayerTells DEF CheckIn, tickOnly, TaskEvents
<1>4. CASE WorkEnds(n)
  <2>1. Tell(n, "COMPLETED") \/ Tell(n, "TASK_FAIL")
    BY <1>4 DEF WorkEnds, Solve, Fail
  <2>2. player[n].active # NoTask /\ UNCHANGED <<node, seen>>
    BY <1>4 DEF WorkEnds, tickOnly
  <2>3. "COMPLETED" \in TaskEvents /\ "TASK_FAIL" \in TaskEvents
    BY DEF TaskEvents
  <2> QED
    BY <1>1, <2>1, <2>2, <2>3, PlayerTells
<1>5. CASE Sabotage(n)
  BY <1>5, SabotageKeeps DEF Sabotage, tickOnly
<1> QED
  BY <1>2, <1>3, <1>4, <1>5 DEF Tick

(* A node receives.  SameReports holds of a packet that is no report.      *)
LEMMA TakenSame ==
  ASSUME NEW q, AirTyped(q), NEW a \in Addresses, HasPacket(q, a),
         a \in Tasks => ~Asks(FirstPacket(q, a))
  PROVE  AirTyped(Received(q, a)) /\ SameReports(Received(q, a), q)
<1> DEFINE r == Received(q, a)
<1>1. a \in Senders /\ a # Controller
  BY Apart
<1>2. /\ AirTyped(r) /\ FirstPacket(q, a) \in Packets /\ FirstPacket(q, a) = Head(q[a])
      /\ q[a] \in Seq(Packets) /\ q[a] # <<>> /\ r[a] = Tail(q[a])
      /\ \A b \in Senders \ {a} : r[b] = q[b]
  BY <1>1, Taken
<1> HIDE DEF r
<1>3. r[Controller] = q[Controller]
  BY <1>1, <1>2, Apart
<1>4. ASSUME NEW t \in Tasks PROVE ToPanel(r[t]) = ToPanel(q[t])
  <2>1. CASE t # a
    BY <1>2, <2>1, Apart
  <2>2. CASE t = a
    <3>1. Tail(q[a]) \in Seq(Packets)
      BY <1>2
    <3>2. PICK b \in Seq(Reports) : b = ToPanel(Tail(q[a]))
      BY <3>1, ReportsTyped
    <3>3. ToPanel(q[a]) = <<>> \o b
      BY <1>2, <2>2, <3>2, ToPanelHead
    <3>4. <<>> \o b = b
      BY NothingFirst
    <3> QED
      BY <1>2, <2>2, <3>2, <3>3, <3>4
  <2> QED
    BY <2>1, <2>2
<1>5. SameReports(r, q)
  BY <1>3, <1>4 DEF SameReports
<1> QED
  BY <1>2, <1>5 DEF r

(* A node's telemetry queue is what it leaves it.                          *)
LEMMA NodeKeeps ==
  ASSUME NodesTyped(node), NEW n \in Nodes, NEW tx \in Seq(Telemetry(Address(n))),
         node' = [node EXCEPT ![n].tx = tx]
  PROVE  /\ NodesTyped(node')
         /\ \A m \in Nodes : node'[m].thread = node[m].thread
         /\ node'[n].tx = tx
         /\ \A m \in Nodes \ {n} : node'[m] = node[m]
<1> DEFINE x == [node[n] EXCEPT !.tx = tx]
<1>1. node[n] \in NodeRecord(Address(n))
  BY DEF NodesTyped
<1>2. x \in NodeRecord(Address(n)) /\ x.thread = node[n].thread /\ x.tx = tx
  BY <1>1 DEF NodeRecord
<1>3. node' = [node EXCEPT ![n] = x]
  OBVIOUS
<1> HIDE DEF x
<1>4. node' = [m \in Nodes |-> IF m = n THEN x ELSE node[m]]
  BY <1>3 DEF NodesTyped
<1> QED
  BY <1>2, <1>4 DEF NodesTyped

LEMMA PlayerPipe ==
  ASSUME Pipe, NEW n \in Nodes, HasPacket(air, Address(n)), PlayerReceives(n),
         UNCHANGED <<told, seen>>
  PROVE  Pipe'
<1> DEFINE rest == Received(air, Address(n))
<1>1. Address(n) \in Players /\ Address(n) \in Addresses /\ Address(n) \notin Tasks
  BY Apart DEF PlayerReceives
<1>2. AirTyped(air) /\ NodesTyped(node)
  BY DEF Pipe, PipeTypes
<1>3. AirTyped(rest) /\ SameReports(rest, air)
  BY <1>1, <1>2, TakenSame
<1>4. \/ air' = rest /\ UNCHANGED node
      \/ Responds(rest, n, node[n].tx)
  BY DEF PlayerReceives
<1> HIDE DEF rest
<1>5. CASE air' = rest /\ UNCHANGED node
  BY <1>2, <1>3, <1>5, SameFlight
<1>6. CASE Responds(rest, n, node[n].tx)
  <2> DEFINE r == Respond(rest, n, node[n].tx)
  <2>1. node[n].tx \in Seq(Telemetry(Address(n)))
    BY <1>2 DEF NodesTyped, NodeRecord
  <2>2. AirTyped(r.air) /\ r.tx \in Seq(Telemetry(Address(n))) /\ SameReports(r.air, rest)
    BY <1>1, <1>3, <2>1, PlayerResponds
  <2>3. air' = r.air /\ node' = [node EXCEPT ![n].tx = r.tx]
    BY <1>6 DEF Responds
  <2> HIDE DEF r
  <2>4. /\ NodesTyped(node') /\ \A m \in Nodes : node'[m].thread = node[m].thread
        /\ \A m \in Nodes \ {n} : node'[m] = node[m]
    BY <1>2, <2>2, <2>3, NodeKeeps
  <2>5. SameReports(air', air)
    BY <1>3, <2>2, <2>3 DEF SameReports
  <2>6. \A m \in Nodes : Address(m) \in Tasks => node'[m].tx = node[m].tx
    BY <1>1, <2>4
  <2> QED
    BY <2>2, <2>3, <2>4, <2>5, <2>6, SameFlight
<1> QED
  BY <1>4, <1>5, <1>6

(* A panel keeps what a player told it, and may send its oldest report.    *)
LEMMA PanelPipe ==
  ASSUME Pipe, NEW n \in Nodes, Runs(n), HasPacket(air, Address(n)), PanelReceives(n),
         UNCHANGED <<told, seen>>
  PROVE  Pipe'
<1> DEFINE t == Address(n)
<1> DEFINE packet == FirstPacket(air, t)
<1> DEFINE rest == Received(air, t)
<1> DEFINE mine == Event(packet.name, Controller, t, NumberOf(packet.from), t)
<1> DEFINE tx == IF packet.name \in TaskEvents THEN Append(node[n].tx, mine) ELSE node[n].tx
<1>1. t \in Tasks /\ t \in Addresses /\ t # Controller /\ t # Everyone
  BY Apart DEF PanelReceives
<1>2. AirTyped(air) /\ NodesTyped(node)
  BY DEF Pipe, PipeTypes
<1>3. n = <<0, t>>
  <2>1. n[1] = 0
    BY DEF Runs, Pipe, PipeTypes
  <2> QED
    BY <2>1 DEF Nodes, Address
<1>4. CASE packet.dest = Everyone
  <2>1. air' = rest /\ UNCHANGED node
    BY <1>4 DEF PanelReceives
  <2>2. ~Asks(packet)
    BY <1>4 DEF Asks
  <2>3. AirTyped(rest) /\ SameReports(rest, air)
    BY <1>1, <1>2, <2>2, TakenSame
  <2> QED
    BY <1>2, <2>1, <2>3, SameFlight
<1>5. CASE packet.dest # Everyone
  <2>1. \/ Responds(rest, n, tx)
        \/ air' = rest /\ node' = [node EXCEPT ![n].tx = tx]
    BY <1>5 DEF PanelReceives
  <2>2. /\ AirTyped(rest) /\ packet \in PanelPackets /\ packet \in Packets /\ packet = Head(air[t])
        /\ air[t] \in Seq(Packets) /\ air[t] # <<>> /\ rest[t] = Tail(air[t])
        /\ \A b \in Senders \ {t} : rest[b] = air[b]
    BY <1>1, <1>2, Taken, Apart
  <2>3. node[n].tx \in Seq(Telemetry(t)) /\ node[n].tx \in Seq(Packets)
    BY <1>2, TelemetrySequences DEF NodesTyped, NodeRecord
  <2> HIDE DEF packet, rest, t
  <2>4. Asks(packet) <=> packet.name \in TaskEvents
    BY <1>5 DEF Asks
  <2>5. mine \in Telemetry(t) /\ mine.by = t /\ Entry(mine) = Entry(packet)
    <3>1. packet.name \in Names /\ packet.from \in Int /\ packet.dest # Controller
      BY <2>2 DEF Packets, PanelPackets
    <3>2. NumberOf(packet.from) \in Int
      BY <3>1, NumberTyped
    <3>3. mine \in Telemetry(t) /\ mine.by = t
      BY <1>1, <3>1, <3>2, Apart DEF Event, Telemetry, Packets
    <3>4. Entry(mine) = Entry(packet)
      BY <3>1 DEF Event, Entry, Subject
    <3> QED
      BY <3>3, <3>4
  <2>6. mine \in Packets
    BY <2>5 DEF Telemetry
  <2> HIDE DEF mine
  <2>7. tx \in Seq(Telemetry(t))
    BY <2>3, <2>5
  <2>8. FromPanel(tx, t) \o ToPanel(rest[t]) = FromPanel(node[n].tx, t) \o ToPanel(air[t])
    <3>1. Tail(air[t]) \in Seq(Packets)
      BY <2>2
    <3>2. PICK c \in Seq(Reports) : c = ToPanel(rest[t])
      BY <2>2, <3>1, ReportsTyped
    <3>3. PICK b \in Seq(Reports) : b = FromPanel(node[n].tx, t)
      BY <2>3, ReportsTyped
    <3>4. ToPanel(air[t]) = (IF Asks(packet) THEN <<Entry(packet)>> ELSE <<>>) \o c
      BY <2>2, <3>2, ToPanelHead
    <3>5. CASE Asks(packet)
      <4>1. PICK x \in Reports : x = Entry(packet)
        BY <2>2, EntryOfPacket
      <4>2. tx = Append(node[n].tx, mine)
        BY <2>4, <3>5
      <4>3. FromPanel(Append(node[n].tx, mine), t) = Append(b, x)
        BY <2>3, <2>5, <2>6, <3>3, <3>5, <4>1, FromPanelAppend
      <4>4. Append(b, x) \o c = b \o (<<x>> \o c)
        BY MoveOne
      <4> HIDE DEF tx
      <4> QED
        BY <3>2, <3>3, <3>4, <3>5, <4>1, <4>2, <4>3, <4>4
    <3>6. CASE ~Asks(packet)
      <4>1. tx = node[n].tx
        BY <2>4, <3>6
      <4>2. <<>> \o c = c
        BY NothingFirst
      <4> HIDE DEF tx
      <4> QED
        BY <3>2, <3>3, <3>4, <3>6, <4>1, <4>2
    <3> QED
      BY <3>5, <3>6
  <2> HIDE DEF tx
  <2>9. PICK q2, tx2 :
          /\ air' = q2 /\ node' = [node EXCEPT ![n].tx = tx2]
          /\ AirTyped(q2) /\ tx2 \in Seq(Telemetry(t))
          /\ FromPanel(q2[Controller], t) \o FromPanel(tx2, t)
               = FromPanel(rest[Controller], t) \o FromPanel(tx, t)
          /\ \A u \in Tasks \ {t} :
               FromPanel(q2[Controller], u) = FromPanel(rest[Controller], u)
          /\ \A u \in Tasks : ToPanel(q2[u]) = ToPanel(rest[u])
    <3>1. CASE air' = rest /\ node' = [node EXCEPT ![n].tx = tx]
      BY <2>2, <2>7, <3>1, Zenon
    <3>2. CASE Responds(rest, n, tx)
      <4> DEFINE r == Respond(rest, n, tx)
      <4>1. air' = r.air /\ node' = [node EXCEPT ![n].tx = r.tx]
        BY <3>2 DEF Responds
      <4>2. /\ AirTyped(r.air) /\ r.tx \in Seq(Telemetry(t))
            /\ FromPanel(r.air[Controller], t) \o FromPanel(r.tx, t)
                 = FromPanel(rest[Controller], t) \o FromPanel(tx, t)
            /\ \A u \in Tasks \ {t} :
                 FromPanel(r.air[Controller], u) = FromPanel(rest[Controller], u)
            /\ \A u \in Tasks : ToPanel(r.air[u]) = ToPanel(rest[u])
        BY <1>1, <2>2, <2>7, PanelResponds DEF t
      <4> HIDE DEF r
      <4> QED
        BY <4>1, <4>2, Zenon
    <3> QED
      BY <2>1, <3>1, <3>2
  <2>10. /\ NodesTyped(node') /\ \A m \in Nodes : node'[m].thread = node[m].thread
         /\ node'[n].tx = tx2 /\ \A m \in Nodes \ {n} : node'[m] = node[m]
    BY <1>2, <2>9, NodeKeeps DEF t
  <2>11. rest[Controller] = air[Controller]
    BY <1>1, <2>2, Apart
  <2>12. Flight(air', node', t) = Flight(air, node, t)
    <3>1. PICK a \in Seq(Reports) : a = FromPanel(air[Controller], t)
      BY <1>1, <1>2, FlightTyped
    <3>2. PICK b \in Seq(Reports) : b = FromPanel(node[n].tx, t)
      BY <1>1, <1>2, <1>3, FlightTyped
    <3>3. PICK c \in Seq(Reports) : c = ToPanel(air[t])
      BY <1>1, <1>2, FlightTyped
    <3>4. PICK d \in Seq(Reports) : d = FromPanel(tx, t)
      BY <2>7, TelemetrySequences, ReportsTyped
    <3>5. PICK f \in Seq(Reports) : f = ToPanel(rest[t])
      BY <1>1, <1>2, <2>2, FlightTyped
    <3>6. d \o f = b \o c
      BY <2>8, <3>2, <3>3, <3>4, <3>5
    <3>7. Flight(air', node', t) = (a \o d) \o f
      <4>1. FromPanel(air'[Controller], t) \o FromPanel(node'[n].tx, t) = a \o d
        BY <2>9, <2>10, <2>11, <3>1, <3>4
      <4>2. ToPanel(air'[t]) = f
        BY <1>1, <2>9, <3>5
      <4> QED
        BY <1>3, <4>1, <4>2 DEF Flight
    <3>8. (a \o d) \o f = a \o (d \o f)
      BY Regroup
    <3>9. (a \o b) \o c = a \o (b \o c)
      BY Regroup
    <3> QED
      BY <1>3, <3>1, <3>2, <3>3, <3>6, <3>7, <3>8, <3>9 DEF Flight
  <2>13. ASSUME NEW u \in Tasks, u # t PROVE Flight(air', node', u) = Flight(air, node, u)
    <3>1. <<0, u>> \in Nodes \ {n} /\ u \in Senders \ {t}
      BY <1>3, <2>13, Apart, GameAssumption DEF Nodes, Batches
    <3> QED
      BY <2>2, <2>9, <2>10, <2>11, <2>13, <3>1 DEF Flight
  <2>14. Delivered'
    BY <2>12, <2>13 DEF Pipe, Delivered
  <2>15. PipeTypes'
    BY <2>9, <2>10 DEF Pipe, PipeTypes
  <2> QED
    BY <2>14, <2>15 DEF Pipe
<1> QED
  BY <1>4, <1>5

LEMMA ReceivePipe ==
  ASSUME Pipe, NEW n \in Nodes, Receives(n)
  PROVE  Pipe'
BY PlayerPipe, PanelPipe DEF Receives, heardOnly

(* The sniffer takes the oldest packet and the rules engine answers it.    *)
LEMMA SniffPipe ==
  ASSUME Pipe, Sniff
  PROVE  Pipe'
<1> DEFINE packet == FirstPacket(air, Controller)
<1> DEFINE rest == Received(air, Controller)
<1>1. AirTyped(air) /\ NodesTyped(node) /\ seen \in [Tasks -> Seq(Reports)]
      /\ HasPacket(air, Controller)
  BY DEF Pipe, PipeTypes, Sniff
<1>2. /\ AirTyped(rest) /\ packet \in Packets /\ packet = Head(air[Controller])
      /\ air[Controller] \in Seq(Packets) /\ air[Controller] # <<>>
      /\ rest[Controller] = Tail(air[Controller])
      /\ \A b \in Senders \ {Controller} : rest[b] = air[b]
  BY <1>1, Taken, Apart
<1>3. /\ air' = Rules(rest, packet) /\ UNCHANGED <<node, told>>
      /\ seen' = IF packet.by \in Tasks
                 THEN [seen EXCEPT ![packet.by] = Append(@, Entry(packet))] ELSE seen
  BY DEF Sniff, controllerOnly, nodeVars
<1> HIDE DEF packet, rest
<1>4. AirTyped(air') /\ SameReports(air', rest)
  <2>1. \/ air' = rest
        \/ air' = Transmit(rest, Penalty(AddressOf(PLAYER, packet.about), packet.about), Controller)
        \/ air' = Transmit(rest, Broadcast("SABOTAGE"), Controller)
    BY <1>3 DEF Rules
  <2>2. Quiet(Penalty(AddressOf(PLAYER, packet.about), packet.about))
    <3>1. packet.about \in Int
      BY <1>2 DEF Packets
    <3> QED
      BY <3>1, NumberTyped, CommandQuiet DEF Penalty
  <2>3. Quiet(Broadcast("SABOTAGE"))
    BY BroadcastQuiet DEF Names
  <2> QED
    BY <1>2, <2>1, <2>2, <2>3, QuietTransmit DEF SameReports
<1>5. Entry(packet) \in Reports
  BY <1>2, EntryOfPacket
<1>6. seen' \in [Tasks -> Seq(Reports)]
      /\ \A t \in Tasks :
           seen'[t] = IF packet.by = t THEN Append(seen[t], Entry(packet)) ELSE seen[t]
  <2>1. CASE packet.by \in Tasks
    <3>1. Append(seen[packet.by], Entry(packet)) \in Seq(Reports)
      BY <1>1, <1>5, <2>1
    <3> QED
      BY <1>1, <1>3, <1>5, <2>1, <3>1
  <2>2. CASE packet.by \notin Tasks
    BY <1>1, <1>3, <2>2
  <2> QED
    BY <2>1, <2>2
<1>7. ASSUME NEW t \in Tasks PROVE told'[t] = seen'[t] \o Flight(air', node', t)
  <2>1. PICK a \in Seq(Reports) : a = FromPanel(rest[Controller], t)
    BY <1>1, <1>2, FlightTyped
  <2>2. PICK b \in Seq(Reports) : b = FromPanel(node[<<0, t>>].tx, t)
    BY <1>1, FlightTyped
  <2>3. PICK c \in Seq(Reports) : c = ToPanel(air[t])
    BY <1>1, FlightTyped
  <2>4. PICK s \in Seq(Reports) : s = seen[t]
    BY <1>1
  <2>5. PICK x \in Reports : x = Entry(packet)
    BY <1>5
  <2>6. rest[t] = air[t]
    BY <1>2, Apart
  <2>7. Flight(air', node', t) = (a \o b) \o c
    BY <1>3, <1>4, <2>1, <2>2, <2>3, <2>6 DEF Flight, SameReports
  <2>8. FromPanel(air[Controller], t) = (IF packet.by = t THEN <<x>> ELSE <<>>) \o a
    BY <1>2, <2>1, <2>5, FromPanelHead
  <2>9. told[t] = s \o ((FromPanel(air[Controller], t) \o b) \o c)
    BY <2>2, <2>3, <2>4 DEF Pipe, Delivered, Flight
  <2>10. CASE packet.by = t
    <3>1. <<x>> \in Seq(Reports) /\ a \o b \in Seq(Reports) /\ (a \o b) \o c \in Seq(Reports)
      OBVIOUS
    <3>2. PICK y \in Seq(Reports) : y = <<x>>
      BY <3>1
    <3>3. PICK d \in Seq(Reports) : d = a \o b
      BY <3>1
    <3>4. PICK e \in Seq(Reports) : e = (a \o b) \o c
      BY <3>1
    <3>5. Append(s, x) \o e = s \o (<<x>> \o e)
      BY MoveOne
    <3>6. (y \o a) \o b = y \o (a \o b)
      BY Regroup, ZenonT(60)
    <3>7. (y \o d) \o c = y \o (d \o c)
      BY ConcatAssociative, SMTT(60)
    <3>8. seen'[t] = Append(s, x)
      BY <1>6, <2>4, <2>5, <2>10
    <3>9. told[t] = s \o (((y \o a) \o b) \o c)
      BY <2>8, <2>9, <2>10, <3>2
    <3>10. told[t] = Append(s, x) \o e
      BY <3>2, <3>3, <3>4, <3>5, <3>6, <3>7, <3>9, Zenon
    <3> QED
      BY <1>3, <2>7, <3>4, <3>8, <3>10
  <2>11. CASE packet.by # t
    <3>1. <<>> \o a = a
      BY NothingFirst
    <3>2. seen'[t] = s
      BY <1>6, <2>4, <2>11
    <3> QED
      BY <1>3, <2>7, <2>8, <2>9, <2>11, <3>1, <3>2
  <2> QED
    BY <2>10, <2>11
<1>8. Delivered'
  BY <1>7 DEF Delivered
<1>9. PipeTypes'
  BY <1>3, <1>4, <1>6 DEF Pipe, PipeTypes
<1> QED
  BY <1>8, <1>9 DEF Pipe

(* A poll of an address that is not known reaches nobody.                  *)
LEMMA PollPipe ==
  ASSUME Pipe, Poll
  PROVE  Pipe'
<1>1. PICK address :
        air' = Transmit(air, Event("SYNC", address, Controller, NoOne, Controller), Controller)
  BY DEF Poll, ControllerSends, Command
<1>2. UNCHANGED <<node, told, seen>>
  BY DEF Poll, controllerOnly, nodeVars
<1>3. CASE address \in Int
  <2>1. NoOne \in Int
    BY DEF NoOne
  <2> QED
    BY <1>1, <1>2, <1>3, <2>1, CommandQuiet, QuietKeeps
<1>4. CASE address \notin Int
  <2>1. AirTyped(air)
    BY DEF Pipe, PipeTypes
  <2>2. air = [a \in Senders |-> air[a]]
    BY <2>1 DEF AirTyped
  <2>3. air' = air
    BY <1>1, <1>4, <2>2, Apart DEF Transmit, Event, Senders, Addresses
  <2> QED
    BY <1>2, <2>3, UnchangedKeeps
<1> QED
  BY <1>3, <1>4

-----------------------------------------------------------------------------
(* Requests. *)

Phases == {"idle", "meets", "kills", "completes", "stops", "builds", "starts"}
ResetPhases == {"stops", "builds", "starts"}
Request == [pc : Phases, batch : Batches, left : SUBSET Nodes]

(* A batch that is built is not the first.                                 *)
Sound(x) == x \in Request /\ (x.pc \in {"builds", "starts"} => x.batch # 0)

OperatorInv ==
  /\ simNodes \in Batches
  /\ used \in [requests : Nat, resets : Nat, setbacks : Nat]
  /\ operator = [o \in Operators |-> operator[o]]
  /\ \A o \in Operators : Sound(operator[o])

(* What a step of a request leaves: a reset goes on until a new batch is   *)
(* published.                                                              *)
OperatorStep(o) ==
  /\ simNodes' \in Batches /\ (simNodes # 0 => simNodes' # 0)
  /\ used' \in [requests : Nat, resets : Nat, setbacks : Nat]
  /\ \E x : /\ Sound(x) /\ operator' = [operator EXCEPT ![o] = x]
            /\ operator[o].pc \in ResetPhases => x.pc \in ResetPhases \/ simNodes' # 0

LEMMA StepKeeps ==
  ASSUME OperatorInv, NEW o \in Operators, OperatorStep(o)
  PROVE  OperatorInv' /\ (Resetting => Resetting')
<1>1. PICK x : /\ Sound(x) /\ operator' = [operator EXCEPT ![o] = x]
               /\ operator[o].pc \in ResetPhases => x.pc \in ResetPhases \/ simNodes' # 0
  BY DEF OperatorStep
<1>2. operator' = [p \in Operators |-> IF p = o THEN x ELSE operator[p]]
  BY <1>1 DEF OperatorInv
<1>3. operator'[o] = x /\ \A p \in Operators \ {o} : operator'[p] = operator[p]
  BY <1>2
<1>4. OperatorInv'
  BY <1>1, <1>2, <1>3 DEF OperatorInv, OperatorStep
<1>5. ASSUME Resetting PROVE Resetting'
  <2>1. CASE simNodes # 0
    BY <2>1 DEF OperatorStep, Resetting
  <2>2. CASE \E p \in Operators : operator[p].pc \in ResetPhases
    <3>1. PICK p \in Operators : operator[p].pc \in ResetPhases
      BY <2>2
    <3>2. operator'[p].pc \in ResetPhases \/ simNodes' # 0
      BY <1>1, <1>3, <3>1
    <3> QED
      BY <3>2 DEF Resetting, ResetPhases
  <2> QED
    BY <1>5, <2>1, <2>2 DEF Resetting, ResetPhases
<1> QED
  BY <1>4, <1>5

LEMMA OfNodes ==
  ASSUME NEW b \in Batches
  PROVE  Of(b) \subseteq Nodes
BY DEF Of, Nodes

LEMMA RequestsCount ==
  ASSUME OperatorInv, Requests
  PROVE  used' \in [requests : Nat, resets : Nat, setbacks : Nat]
BY DEF OperatorInv, Requests

LEMMA ServesStep ==
  ASSUME OperatorInv, NEW o \in Operators, Idle(o), Requests,
         NEW pc \in {"meets", "kills", "completes", "stops"}, NEW left \in SUBSET Nodes,
         Serves(o, pc, left), UNCHANGED simNodes
  PROVE  OperatorStep(o)
<1> DEFINE x == [pc |-> pc, batch |-> simNodes, left |-> left]
<1>1. Sound(x)
  BY DEF OperatorInv, Sound, Request, Phases
<1>2. operator' = [operator EXCEPT ![o] = x] /\ operator[o].pc \notin ResetPhases
  BY DEF Serves, Idle, ResetPhases
<1>3. used' \in [requests : Nat, resets : Nat, setbacks : Nat]
  BY RequestsCount
<1> HIDE DEF x
<1> QED
  BY <1>1, <1>2, <1>3 DEF OperatorStep, OperatorInv

LEMMA AnswersStep ==
  ASSUME OperatorInv, NEW o \in Operators, operator[o].pc \notin ResetPhases \/ simNodes' # 0,
         Answers(o), UNCHANGED used, simNodes' \in Batches, simNodes # 0 => simNodes' # 0
  PROVE  OperatorStep(o)
<1> DEFINE x == [operator[o] EXCEPT !.pc = "idle", !.left = {}]
<1>1. Sound(operator[o])
  BY DEF OperatorInv
<1>2. Sound(x)
  BY <1>1 DEF Sound, Request, Phases
<1>3. operator' = [operator EXCEPT ![o] = x]
  BY DEF Answers
<1> HIDE DEF x
<1> QED
  BY <1>2, <1>3 DEF OperatorStep, OperatorInv

LEMMA TakesOne ==
  ASSUME OperatorInv, NEW o \in Operators, NEW n,
         operator' = [operator EXCEPT ![o].left = @ \ {n}], UNCHANGED <<used, simNodes>>
  PROVE  OperatorStep(o)
<1> DEFINE x == [operator[o] EXCEPT !.left = @ \ {n}]
<1>1. Sound(operator[o])
  BY DEF OperatorInv
<1>2. Sound(x) /\ x.pc = operator[o].pc
  BY <1>1 DEF Sound, Request
<1>3. operator' = [operator EXCEPT ![o] = x]
  OBVIOUS
<1> HIDE DEF x
<1> QED
  BY <1>2, <1>3 DEF OperatorStep, OperatorInv

LEMMA StandsStill ==
  ASSUME OperatorInv, NEW o \in Operators, UNCHANGED <<operator, simNodes>>,
         used' \in [requests : Nat, resets : Nat, setbacks : Nat]
  PROVE  OperatorStep(o)
<1>1. operator' = [operator EXCEPT ![o] = operator[o]]
  BY DEF OperatorInv
<1>2. Sound(operator[o])
  BY DEF OperatorInv
<1> QED
  BY <1>1, <1>2 DEF OperatorStep, OperatorInv

LEMMA OperateSteps ==
  ASSUME OperatorInv, NEW o \in Operators, Operate(o)
  PROVE  OperatorStep(o)
<1>0. Sound(operator[o]) /\ simNodes \in Batches
      /\ operator[o].batch \in Batches /\ operator[o].pc \in Phases
  BY DEF OperatorInv, Sound, Request
<1>1. CASE Transmits(o) \/ Spoof(o) \/ SetDifficulty(o) \/ TriggerSabotage(o)
  <2>1. Requests /\ UNCHANGED <<operator, simNodes>>
    BY <1>1 DEF Transmits, Spoof, SetDifficulty, TriggerSabotage
  <2> QED
    BY <2>1, RequestsCount, StandsStill
<1>2. CASE TriggerMeeting(o) \/ TriggerKill(o) \/ TriggerCompletion(o) \/ Reset(o)
  <2>1. {simNodes} \X Players \subseteq Nodes /\ Of(simNodes) \subseteq Nodes
    BY <1>0, OfNodes DEF Nodes, Addresses
  <2>2. \A p \in Players : {<<simNodes, p>>} \subseteq Nodes
    BY <1>0 DEF Nodes, Addresses
  <2>3. Idle(o) /\ Requests /\ UNCHANGED simNodes
    BY <1>2 DEF TriggerMeeting, TriggerKill, TriggerCompletion, Reset
  <2>4. PICK pc \in {"meets", "kills", "completes", "stops"}, left \in SUBSET Nodes :
          Serves(o, pc, left)
    BY <1>2, <2>1, <2>2 DEF TriggerMeeting, TriggerKill, TriggerCompletion, Reset
  <2> QED
    BY <2>3, <2>4, ServesStep
<1>3. CASE MeetingStep(o)
  <2>1. operator[o].pc \notin ResetPhases /\ UNCHANGED <<used, simNodes>>
    BY <1>3 DEF MeetingStep, ResetPhases
  <2>2. Answers(o) \/ \E n : operator' = [operator EXCEPT ![o].left = @ \ {n}]
    BY <1>3 DEF MeetingStep
  <2> QED
    BY <1>0, <2>1, <2>2, AnswersStep, TakesOne
<1>4. CASE KillStep(o) \/ CompletionStep(o)
  <2>1. operator[o].pc \notin ResetPhases /\ UNCHANGED <<used, simNodes>> /\ Answers(o)
    BY <1>4 DEF KillStep, CompletionStep, ResetPhases
  <2> QED
    BY <1>0, <2>1, AnswersStep
<1>5. CASE StopNode(o)
  BY <1>5, TakesOne DEF StopNode
<1>6. CASE NewBatch(o)
  <2> DEFINE b == used.resets + 1
  <2> DEFINE x == [pc |-> "builds", batch |-> b, left |-> Of(b)]
  <2>1. used.resets \in Nat /\ used.resets < MaxResets
    BY <1>6 DEF NewBatch, OperatorInv
  <2>2. b \in Batches /\ b # 0
    BY <2>1, GameAssumption DEF Batches
  <2>3. operator' = [operator EXCEPT ![o] = x] /\ UNCHANGED simNodes
    BY <1>6 DEF NewBatch
  <2>4. used' \in [requests : Nat, resets : Nat, setbacks : Nat]
    BY <1>6 DEF NewBatch, OperatorInv
  <2> HIDE DEF b
  <2>5. Sound(x) /\ x.pc \in ResetPhases
    BY <2>2, OfNodes DEF Sound, Request, Phases, ResetPhases
  <2> HIDE DEF x
  <2> QED
    BY <1>0, <2>3, <2>4, <2>5 DEF OperatorStep
<1>7. CASE BuildNode(o)
  <2>1. operator[o].pc = "builds" /\ UNCHANGED <<used, simNodes>>
    BY <1>7 DEF BuildNode
  <2>2. CASE \E n : operator' = [operator EXCEPT ![o].left = @ \ {n}]
    BY <2>1, <2>2, TakesOne
  <2>3. CASE operator' = [operator EXCEPT ![o].pc = "starts", ![o].left = Of(operator[o].batch)]
    <3> DEFINE x == [operator[o] EXCEPT !.pc = "starts", !.left = Of(operator[o].batch)]
    <3>1. operator[o].batch # 0 /\ Of(operator[o].batch) \subseteq Nodes
      BY <1>0, <2>1, OfNodes DEF Sound
    <3>2. Sound(x) /\ x.pc \in ResetPhases
      BY <1>0, <3>1 DEF Sound, Request, Phases, ResetPhases
    <3>3. operator' = [operator EXCEPT ![o] = x]
      BY <2>3
    <3> HIDE DEF x
    <3> QED
      BY <1>0, <2>1, <3>2, <3>3 DEF OperatorStep, OperatorInv
  <2> QED
    BY <1>7, <2>2, <2>3 DEF BuildNode
<1>8. CASE StartNode(o)
  <2>1. operator[o].pc = "starts" /\ UNCHANGED used /\ operator[o].batch # 0
    BY <1>0, <1>8 DEF StartNode, Sound
  <2>2. CASE simNodes' = operator[o].batch /\ Answers(o)
    BY <1>0, <2>1, <2>2, AnswersStep
  <2>3. CASE UNCHANGED simNodes /\ \E n : operator' = [operator EXCEPT ![o].left = @ \ {n}]
    BY <2>1, <2>3, TakesOne
  <2> QED
    BY <1>8, <2>2, <2>3 DEF StartNode
<1> QED
  BY <1>1, <1>2, <1>3, <1>4, <1>5, <1>6, <1>7, <1>8 DEF Operate

(* A spoofed event for a panel is told to it; every other spoofed packet   *)
(* leaves the reports alone, also one for the controller.                  *)
LEMMA SpoofPipe ==
  ASSUME Pipe, NEW o \in Operators, Spoof(o)
  PROVE  Pipe'
<1>1. PICK name \in SpoofedNames, from \in SpoofedSources,
           dest \in Addresses \cup {Controller, Everyone} :
        /\ air' = Transmit(air, Event(name, dest, from, NoOne, Controller), Controller)
        /\ told' = Told(Event(name, dest, from, NoOne, Controller))
  BY DEF Spoof, ControllerSends
<1> DEFINE e == Event(name, dest, from, NoOne, Controller)
<1>2. UNCHANGED <<node, seen>>
  BY DEF Spoof
<1>3. e \in Packets /\ e.by \notin Tasks
  <2>1. dest \in Int /\ from \in Int
    BY Apart, AddressTyped, GameAssumption DEF Addresses
  <2> QED
    BY <2>1, Apart DEF Event, Packets, Names, NoOne, Senders
<1>4. air' = Transmit(air, e, Controller) /\ told' = Told(e)
  BY <1>1
<1> HIDE DEF e
<1>5. CASE Asks(e) /\ e.dest \in Tasks
  BY <1>2, <1>3, <1>4, <1>5, TellKeeps
<1>6. CASE ~(Asks(e) /\ e.dest \in Tasks)
  <2>1. Quiet(e)
    BY <1>3, <1>6 DEF Quiet
  <2>2. told' = told
    <3>1. e.dest \in Tasks => e.dest # Everyone
      BY Apart
    <3> QED
      BY <1>4, <1>6, <3>1 DEF Told, Asks
  <2> QED
    BY <1>2, <1>4, <2>1, <2>2, QuietKeeps
<1> QED
  BY <1>5, <1>6

(* A request says nothing of a panel, unless it spoofs an event for it or  *)
(* resets the simulation.                                                  *)
LEMMA OperatePipe ==
  ASSUME Pipe, OperatorInv, ~Resetting, NEW o \in Operators, Operate(o)
  PROVE  Pipe'
<1>0. simNodes = 0 /\ operator[o].pc \notin {"stops", "builds", "starts"}
  BY DEF Resetting
<1>1. CASE Transmits(o)
  <2>1. PICK name \in {"START", "STOP"} : air' = Transmit(air, Broadcast(name), Controller)
    BY <1>1 DEF Transmits, ControllerSends
  <2>2. Quiet(Broadcast(name))
    BY BroadcastQuiet DEF Names
  <2>3. UNCHANGED <<node, told, seen>>
    BY <1>1 DEF Transmits, operatorOnly, history
  <2> QED
    BY <2>1, <2>2, <2>3, QuietKeeps
<1>7. CASE Spoof(o)
  BY <1>7, SpoofPipe
<1>2. CASE TriggerSabotage(o)
  <2>1. PICK p \in Impostors : QueueSabotage(<<simNodes, p>>)
    BY <1>2 DEF TriggerSabotage
  <2>2. <<simNodes, p>> \in PlayerNodes
    BY GameAssumption DEF OperatorInv, PlayerNodes
  <2>3. UNCHANGED <<air, told, seen>>
    BY <1>2 DEF TriggerSabotage, operatorOnly, history
  <2> QED
    BY <2>1, <2>2, <2>3, SabotageKeeps
<1>3. CASE TriggerMeeting(o)
  <2>1. /\ air' = Transmit(air, Broadcast("MEETING_START"), Controller)
        /\ UNCHANGED <<node, told, seen>>
    BY <1>3 DEF TriggerMeeting, ControllerSends, operatorOnly, history
  <2> QED
    BY <2>1, BroadcastQuiet, QuietKeeps DEF Names
<1>4. CASE KillStep(o)
  <2>1. /\ air' = Transmit(air, Broadcast("PLAYER_DEATH"), Controller)
        /\ UNCHANGED <<node, told, seen>>
    BY <1>4 DEF KillStep, ControllerSends, operatorOnly, history
  <2> QED
    BY <2>1, BroadcastQuiet, QuietKeeps DEF Names
<1>5. CASE \/ SetDifficulty(o) \/ MeetingStep(o) \/ TriggerKill(o)
           \/ TriggerCompletion(o) \/ CompletionStep(o) \/ Reset(o)
  <2>1. UNCHANGED <<air, node, told, seen>>
    BY <1>5 DEF SetDifficulty, MeetingStep, TriggerKill, TriggerCompletion, CompletionStep, Reset,
                operatorOnly, history
  <2> QED
    BY <2>1, UnchangedKeeps
<1>6. ~StopNode(o) /\ ~NewBatch(o) /\ ~BuildNode(o) /\ ~StartNode(o)
  BY <1>0 DEF StopNode, NewBatch, BuildNode, StartNode
<1> QED
  BY <1>1, <1>2, <1>3, <1>4, <1>5, <1>6, <1>7 DEF Operate

-----------------------------------------------------------------------------
(* Until a reset begins, every report is in one of the places it passes.   *)
PipeInv == OperatorInv /\ (~Resetting => Pipe)

LEMMA NothingPicked ==
  ASSUME NEW S
  PROVE  Picked(<<>>, S) = <<>>
<1>1. <<>> \in Seq(Packets) /\ Len(<<>>) = 0
  OBVIOUS
<1>2. PickedUpTo(<<>>, S)[0] = <<>>
  BY <1>1, PickedStep
<1> QED
  BY <1>1, <1>2 DEF Picked

LEMMA PipeInit ==
  ASSUME Init
  PROVE  PipeInv
<1>1. OperatorInv
  <2>1. 0 \in Batches
    BY GameAssumption DEF Batches
  <2> QED
    BY <2>1 DEF Init, OperatorInv, Sound, Request, Phases
<1>2. air = [a \in Senders |-> <<>>]
  BY DEF Init, Senders
<1>3. AirTyped(air)
  BY <1>2, Apart DEF AirTyped
<1>4. /\ NodesTyped(node)
      /\ \A n \in Nodes : node[n].tx = <<>> /\ (n[1] # 0 => node[n].thread = "none")
  <2>1. node = [n \in Nodes |->
                  IF n[1] = 0 THEN [NewNode EXCEPT !.thread = "loop"] ELSE NoNode]
    BY DEF Init
  <2>2. ASSUME NEW a
        PROVE  NoNode \in NodeRecord(a) /\ [NewNode EXCEPT !.thread = "loop"] \in NodeRecord(a)
    <3>1. <<>> \in Seq(Telemetry(a))
      OBVIOUS
    <3> QED
      BY <3>1 DEF NoNode, NewNode, NodeRecord, Threads
  <2>3. /\ [NewNode EXCEPT !.thread = "loop"].tx = <<>>
        /\ NoNode.tx = <<>> /\ NoNode.thread = "none"
    BY DEF NoNode, NewNode
  <2> QED
    BY <2>1, <2>2, <2>3 DEF NodesTyped
<1>5. told = [t \in Tasks |-> <<>>] /\ seen = [t \in Tasks |-> <<>>]
  BY DEF Init
<1>6. PipeTypes
  BY <1>3, <1>4, <1>5 DEF PipeTypes
<1>7. ASSUME NEW t \in Tasks PROVE told[t] = seen[t] \o Flight(air, node, t)
  <2>1. <<0, t>> \in Nodes
    BY Apart, GameAssumption DEF Nodes, Batches
  <2>2. air[Controller] = <<>> /\ air[t] = <<>> /\ node[<<0, t>>].tx = <<>>
    BY <1>2, <1>4, <2>1, Apart
  <2>3. FromPanel(<<>>, t) = <<>> /\ ToPanel(<<>>) = <<>>
    BY NothingPicked DEF FromPanel, ToPanel
  <2>4. Flight(air, node, t) = <<>> \o <<>> \o <<>>
    BY <2>2, <2>3 DEF Flight
  <2>5. <<>> \o <<>> = <<>>
    OBVIOUS
  <2> QED
    BY <1>5, <2>4, <2>5
<1> QED
  BY <1>1, <1>6, <1>7 DEF PipeInv, Pipe, Delivered

LEMMA PipeStep ==
  ASSUME PlayInv, PipeInv, [Next]_vars
  PROVE  PipeInv'
<1>1. OperatorInv' /\ (Resetting => Resetting')
  <2>1. ASSUME NEW o \in Operators, Operate(o) PROVE OperatorInv' /\ (Resetting => Resetting')
    BY <2>1, OperateSteps, StepKeeps DEF PipeInv
  <2>2. ASSUME UNCHANGED <<simNodes, operator>>,
               used' \in [requests : Nat, resets : Nat, setbacks : Nat]
        PROVE  OperatorInv' /\ (Resetting => Resetting')
    BY <2>2 DEF PipeInv, OperatorInv, Resetting
  <2>3. used \in [requests : Nat, resets : Nat, setbacks : Nat]
    BY DEF PipeInv, OperatorInv
  <2>4. ASSUME NEW n \in PlayerNodes, Tick(n)
        PROVE  /\ UNCHANGED <<simNodes, operator>>
               /\ used' \in [requests : Nat, resets : Nat, setbacks : Nat]
    BY <2>3, <2>4 DEF Tick, PenaltyOver, CheckIn, WorkEnds, Solve, Fail, Sabotage, tickOnly
  <2>5. ASSUME NEW n \in Nodes, Receives(n) PROVE UNCHANGED <<simNodes, operator, used>>
    BY <2>5 DEF Receives, heardOnly
  <2>6. ASSUME Poll \/ Sniff PROVE UNCHANGED <<simNodes, operator, used>>
    BY <2>6 DEF Poll, Sniff, controllerOnly
  <2>7. CASE UNCHANGED vars
    BY <2>2, <2>3, <2>7 DEF vars
  <2> QED
    BY <2>1, <2>2, <2>3, <2>4, <2>5, <2>6, <2>7 DEF Next, PlayerNodes
<1>2. ASSUME ~Resetting' PROVE Pipe'
  <2>1. ~Resetting /\ Pipe /\ OperatorInv
    BY <1>1, <1>2 DEF PipeInv
  <2>2. CASE UNCHANGED vars
    BY <2>1, <2>2, UnchangedKeeps DEF vars, nodeVars, history
  <2>3. ASSUME NEW n \in PlayerNodes, Tick(n) PROVE Pipe'
    BY <2>1, <2>3, TickPipe
  <2>4. ASSUME NEW n \in Nodes, Receives(n) PROVE Pipe'
    BY <2>1, <2>4, ReceivePipe
  <2>5. ASSUME NEW o \in Operators, Operate(o) PROVE Pipe'
    BY <2>1, <2>5, OperatePipe
  <2> QED
    BY <2>1, <2>2, <2>3, <2>4, <2>5, PollPipe, SniffPipe DEF Next, PlayerNodes
<1> QED
  BY <1>1, <1>2 DEF PipeInv

(* What a panel was told, by players or by spoofed packets, is, in order,  *)
(* what the controller received from it, what waits in the controller's    *)
(* queue, in the panel's telemetry queue and in the panel's own queue      *)
(* (handle_packet, respond_to_poll, _sniff_loop), as long as no node is    *)
(* stopped.                                                                *)
THEOREM PipeInvariant == Spec => []PipeInv
<1>1. Init => PipeInv
  BY PipeInit
<1>2. PlayInv /\ PipeInv /\ [Next]_vars => PipeInv'
  BY PipeStep
<1> QED
  BY <1>1, <1>2, PlayInvariant, PTL DEF Spec

(* Every panel's reports reach the controller in the order in which it was *)
(* told of them, and once, for any number of players, panels, operators    *)
(* and requests and any spoofed packets, until the simulation is reset     *)
(* (VirtualTaskNode.handle_packet, respond_to_poll, _sniff_loop).          *)
THEOREM ReportsArrive == Spec => []ReportsReachController
<1>1. PipeInv => ReportsReachController
  BY DEF PipeInv, ReportsReachController, Pipe, Delivered, Flight, InFlight
<1> QED
  BY <1>1, PipeInvariant, PTL
=============================================================================
