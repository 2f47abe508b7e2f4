---------------------------- MODULE SimulatedGame ----------------------------
(***************************************************************************)
(* The archived prototype in simulation mode (web_app.py, simulator.py):   *)
(* node threads for players and task panels, the controller's coordinator  *)
(* and sniffer threads, and the operator's requests, which run on threads  *)
(* of their own.                                                           *)
(*                                                                         *)
(* A node thread alternates tick() and one received packet; each of them   *)
(* is one step.  A packet is what it says, its addresses, which are those  *)
(* of the code (type and number), and the radio that sends it.  Timers are *)
(* Booleans that may run out at any tick; walking takes any number of      *)
(* ticks.  Beacons and heartbeats change nothing where they arrive and are *)
(* left out, as are the packet history of the console and its streams.     *)
(***************************************************************************)
EXTENDS Integers, Sequences, FiniteSets, SequencesExt, VirtualAirwaves

CONSTANTS
  Players, Impostors, Tasks,   \* their addresses
  Operators,      \* threads that serve requests
  SpoofedNames,   \* what the packets say that an operator spoofs
  SpoofedSources, \* the addresses they claim to come from
  MaxRequests,    \* bound: requests of the operator
  MaxResets,      \* bound: resets of the simulation, at most one
  MaxSetbacks,    \* bound: puzzles failed and sabotages an impostor starts by
                  \* itself, together
  MaxPolls        \* bound: packets waiting at a node that is polled

(* An address is a node type and a number of one byte.                     *)
AddressOf(type, number) == 256 * type + number
NumberOf(address) == address % 256
OfType(type) == AddressOf(type, 0)..AddressOf(type, 255)
AnyAddress == AddressOf(0, 0)..AddressOf(255, 255)

GAME_CONTROLLER == 2
PLAYER == 3
TASK == 4

Controller == AddressOf(GAME_CONTROLLER, 1)
Addresses == Players \cup Tasks

ASSUME GameAssumption ==
  /\ Impostors \subseteq Players
  /\ Players \subseteq OfType(PLAYER) /\ Tasks \subseteq OfType(TASK)
  /\ SpoofedSources \subseteq AnyAddress
  /\ Addresses # {}
  /\ MaxResets \in {0, 1} /\ {MaxRequests, MaxSetbacks, MaxPolls} \subseteq Nat

(* A node is known by the batch it was started in and its address.         *)
Batches == 0..MaxResets
Nodes == Batches \X Addresses
Address(n) == n[2]
Of(batch) == {batch} \X Addresses

VARIABLES
  air,         \* the queues of the virtual airwaves
  node,        \* thread, radio and telemetry queue of every node
  player,      \* what a player node knows besides
  panel,       \* status of a task node
  simNodes,    \* the batch in app.state.sim_nodes
  polled,      \* the coordinator's place in its sweep
  difficulty,  \* app.state.difficulty
  operator,    \* requests that are being served
  used,        \* how much of the bounds is used
  told,        \* events each task panel was told, in order
  seen,        \* reports of each panel the controller received, in order
  finished,    \* tasks each player completed, in order
  owed         \* players whose failure was not dealt with yet

nodeVars == <<node, player, panel>>
history == <<told, seen, finished, owed>>
vars == <<air, nodeVars, simNodes, polled, difficulty, operator, used, history>>

-----------------------------------------------------------------------------
(* Packets. *)

(* A packet: what it says, the addresses of its header, and the number of  *)
(* the player it is about (key_1 of a report).  It does not say which radio*)
(* sends it: by is the address the airwaves are given.  A CONFIG that sets *)
(* penalty_time says CONFIG_PENALTY, or CONFIG_NO_PENALTY when it is zero. *)
Event(name, dest, from, about, by) ==
  [name |-> name, dest |-> dest, from |-> from, about |-> about, by |-> by]
NoOne == -1
Command(name, dest) == Event(name, dest, Controller, NoOne, Controller)
Broadcast(name) == Command(name, Everyone)
TaskEvents == {"CHECK_IN", "COMPLETED", "TASK_FAIL"}

(* The player a packet tells of: a panel knows it by the number of the     *)
(* packet's source.                                                        *)
Subject(e) == IF e.dest = Controller THEN e.about ELSE NumberOf(e.from)
Entry(e) == <<e.name, Subject(e)>>

(* RadioManager.transmit *)
ControllerSends(packet) == Transmit(air, packet, Controller)

(* What the panels were told when the packet is sent as well; nobody has   *)
(* the address of a stopped one.                                           *)
Told(packet) ==
  IF packet.name \in TaskEvents /\ packet.dest \in Tasks \cap DOMAIN air
  THEN [told EXCEPT ![packet.dest] = Append(@, Entry(packet))] ELSE told

-----------------------------------------------------------------------------
(* Nodes. *)

NoTask == 0
NoState == "none"

NewNode == [thread |-> "ready", radio |-> TRUE, tx |-> <<>>]
NoNode == [thread |-> "none", radio |-> FALSE, tx |-> <<>>]
NewPlayer == [state |-> "LOBBY", before |-> NoState, tasks |-> Tasks,
              active |-> NoTask, working |-> FALSE, penalty |-> FALSE]

Runs(n) == node[n].thread = "loop"

(* startup_event has run: the first batch is in use. *)
Init ==
  /\ air = [a \in Addresses \cup {Controller} |-> <<>>]
  /\ node = [n \in Nodes |->
               IF n[1] = 0 THEN [NewNode EXCEPT !.thread = "loop"] ELSE NoNode]
  /\ player = [n \in Batches \X Players |-> NewPlayer]
  /\ panel = [n \in Batches \X Tasks |-> 0]
  /\ simNodes = 0
  /\ polled = 1
  /\ difficulty = "medium"
  /\ operator = [o \in Operators |-> [pc |-> "idle", batch |-> 0, left |-> {}]]
  /\ used = [requests |-> 0, resets |-> 0, setbacks |-> 0]
  /\ told = [t \in Tasks |-> <<>>] /\ seen = told
  /\ finished = [n \in Batches \X Players |-> <<>>]
  /\ owed = {}

(* choose_next_action: the players it may leave. *)
NextAction(q) ==
  IF q.tasks = {} THEN {q} ELSE {[q EXCEPT !.active = t] : t \in q.tasks}

BeginMeeting(q) ==
  [q EXCEPT !.before = IF q.state # "MEETING" THEN q.state ELSE @, !.state = "MEETING"]

(* end_meeting: what may be left. *)
EndMeeting(q) ==
  LET state == IF q.before = NoState THEN "ALIVE" ELSE q.before
      back == [q EXCEPT !.state = state, !.before = NoState]
  IN IF q.state # "MEETING" THEN {q}
     ELSE IF state = "ALIVE" THEN NextAction(back) ELSE {back}

(* Mutant: a new game gives the player all its tasks again. *)
MutantStarted(q) ==
  NextAction([q EXCEPT !.state = "ALIVE", !.before = NoState, !.tasks = Tasks])

Started(q) == NextAction([q EXCEPT !.state = "ALIVE", !.before = NoState])

(* VirtualPlayerNode.handle_broadcast *)
AfterBroadcast(q, name) ==
  CASE name = "START" -> Started(q)
    [] name = "STOP" -> {[q EXCEPT !.state = "LOBBY", !.before = NoState]}
    [] name = "MEETING_START" -> {BeginMeeting(q)}
    [] name = "MEETING_END" -> EndMeeting(q)
    [] OTHER -> {q}

-----------------------------------------------------------------------------
(* tick() of a player.  It only does something in a game, and nothing else *)
(* while the penalty lasts or while it works on a task.                    *)

Plays(n) == Runs(n) /\ player[n].state \notin {"LOBBY", "DEAD", "MEETING"}
Walks(n) == Plays(n) /\ ~player[n].penalty /\ ~(player[n].active # NoTask /\ player[n].working)

(* The player's own radio sends.                                           *)
Tell(n, name) ==
  LET packet == Event(name, player[n].active, Address(n), NoOne, Address(n)) IN
  /\ air' = Transmit(air, packet, Address(n))
  /\ told' = Told(packet)

tickOnly == <<panel, simNodes, polled, difficulty, operator, seen>>

PenaltyOver(n) ==
  /\ Plays(n) /\ player[n].penalty
  /\ player' = [player EXCEPT ![n].penalty = FALSE]
  /\ UNCHANGED <<air, node, used, told, finished, owed, tickOnly>>

(* arrive_at_target *)
CheckIn(n) ==
  /\ Walks(n)
  /\ player[n].active # NoTask
  /\ Tell(n, "CHECK_IN")
  /\ player' = [player EXCEPT ![n].working = TRUE]
  /\ UNCHANGED <<node, used, finished, owed, tickOnly>>

(* work_on_task when its timer runs out: solved, or failed. *)
Solve(n) ==
  /\ Tell(n, "COMPLETED")
  /\ \E q \in NextAction([player[n] EXCEPT !.tasks = @ \ {player[n].active},
                                           !.active = NoTask, !.working = FALSE]) :
       player' = [player EXCEPT ![n] = q]
  /\ finished' = [finished EXCEPT ![n] = Append(@, player[n].active)]
  /\ UNCHANGED <<used, owed>>

Fail(n) ==
  /\ used.setbacks < MaxSetbacks
  /\ used' = [used EXCEPT !.setbacks = @ + 1]
  /\ Tell(n, "TASK_FAIL")
  /\ \E q \in NextAction([player[n] EXCEPT !.active = NoTask, !.working = FALSE]) :
       player' = [player EXCEPT ![n] = q]
  /\ owed' = owed \cup {n}
  /\ UNCHANGED finished

WorkEnds(n) ==
  /\ Plays(n) /\ ~player[n].penalty
  /\ player[n].active # NoTask /\ player[n].working
  /\ Solve(n) \/ Fail(n)
  /\ UNCHANGED <<node, tickOnly>>

QueueSabotage(n) ==
  node' = [node EXCEPT ![n].tx =
             Append(@, Event("SABOTAGE", Controller, Address(n), NoOne, Address(n)))]

Sabotage(n) ==
  /\ Walks(n) /\ player[n].state = "ALIVE" /\ Address(n) \in Impostors
  /\ used.setbacks < MaxSetbacks
  /\ used' = [used EXCEPT !.setbacks = @ + 1]
  /\ QueueSabotage(n)
  /\ UNCHANGED <<air, player, told, finished, owed, tickOnly>>

Tick(n) == PenaltyOver(n) \/ CheckIn(n) \/ WorkEnds(n) \/ Sabotage(n)

-----------------------------------------------------------------------------
(* A node thread receives.  rx() registers its address every time; one that*)
(* runs is registered, unless overlapping resets orphaned its batch, which *)
(* a single reset cannot do.                                               *)

heardOnly == <<simNodes, polled, difficulty, operator, used, told, seen, finished>>

(* Mutant: the newest report is sent and the others are forgotten. *)
MutantRespond(q, n, tx) ==
  [air |-> IF tx = <<>> THEN q ELSE Transmit(q, Last(tx), Address(n)), tx |-> <<>>]

(* respond_to_poll sends the oldest report; else a heartbeat.              *)
Respond(q, n, tx) ==
  [air |-> IF tx = <<>> THEN q ELSE Transmit(q, Head(tx), Address(n)),
   tx  |-> IF tx = <<>> THEN tx ELSE Tail(tx)]

Responds(q, n, tx) ==
  LET response == Respond(q, n, tx)
  IN air' = response.air /\ node' = [node EXCEPT ![n].tx = response.tx]

(* respond_to_poll of a player: a setting of penalty_time starts or ends   *)
(* its lockout.                                                            *)
AfterSetting(penalty, name) ==
  CASE name = "CONFIG_PENALTY" -> TRUE
    [] name = "CONFIG_NO_PENALTY" -> FALSE
    [] OTHER -> penalty

(* Any packet from the controller's address to a node is a poll, whatever  *)
(* it says; a packet from another address, which only a spoofed one has, is*)
(* not answered.                                                           *)
PlayerReceives(n) ==
  LET packet == FirstPacket(air, Address(n))
      rest == Received(air, Address(n))
  IN
  /\ Address(n) \in Players
  /\ \/ /\ packet.dest = Everyone
        /\ \E q \in AfterBroadcast(player[n], packet.name) :
             player' = [player EXCEPT ![n] = q]
        /\ air' = rest
        /\ UNCHANGED <<node, owed>>
     \/ /\ packet.dest # Everyone /\ packet.from = Controller
        /\ player' = [player EXCEPT ![n].penalty = AfterSetting(@, packet.name)]
        /\ owed' = IF packet.name = "CONFIG_PENALTY" /\ packet.about # NoOne
                   THEN owed \ {n} ELSE owed
        /\ Responds(rest, n, node[n].tx)
     \/ /\ packet.dest # Everyone /\ packet.from # Controller
        /\ air' = rest
        /\ UNCHANGED <<node, player, owed>>
  /\ UNCHANGED panel

(* VirtualTaskNode.handle_broadcast; 0 idle, 1 active, 2 complete, 3 locked *)
PanelAfter(status, name) ==
  CASE name \in {"START", "STOP"} -> 0
    [] name = "SABOTAGE" -> 3
    [] name = "MEETING_END" /\ status = 3 -> 0
    [] OTHER -> status

StatusOf(name) ==
  CASE name = "CHECK_IN" -> 1 [] name = "COMPLETED" -> 2 [] name = "TASK_FAIL" -> 3

(* VirtualTaskNode.handle_packet: an event is reported at one of the next  *)
(* polls, whoever it is from; one from the controller's address is a poll  *)
(* itself.                                                                 *)
PanelReceives(n) ==
  LET packet == FirstPacket(air, Address(n))
      rest == Received(air, Address(n))
      reports == packet.name \in TaskEvents
      tx == IF reports
            THEN Append(node[n].tx, Event(packet.name, Controller, Address(n),
                                           NumberOf(packet.from), Address(n)))
            ELSE node[n].tx
  IN
  /\ Address(n) \in Tasks
  /\ IF packet.dest = Everyone
     THEN /\ panel' = [panel EXCEPT ![n] = PanelAfter(@, packet.name)]
          /\ air' = rest
          /\ UNCHANGED node
     ELSE /\ panel' = [panel EXCEPT ![n] = IF reports THEN StatusOf(packet.name) ELSE @]
          /\ IF packet.from = Controller THEN Responds(rest, n, tx)
             ELSE air' = rest /\ node' = [node EXCEPT ![n].tx = tx]
  /\ UNCHANGED <<player, owed>>

Receives(n) ==
  /\ Runs(n) /\ node[n].radio
  /\ HasPacket(air, Address(n))
  /\ PlayerReceives(n) \/ PanelReceives(n)
  /\ UNCHANGED heardOnly

-----------------------------------------------------------------------------
(* The controller. *)

controllerOnly == <<nodeVars, simNodes, difficulty, operator, used, told, finished>>

(* One step of the coordinator's sweep.  A new batch has the same addresses.*)
Poll ==
  LET order == SetToSeq(Addresses)
      address == order[polled]
  IN
  /\ address \in DOMAIN air => Len(air[address]) < MaxPolls
  /\ air' = ControllerSends(Command("SYNC", address))
  /\ polled' = (polled % Len(order)) + 1
  /\ UNCHANGED <<seen, owed, controllerOnly>>

(* What the rules engine sends to a node because of a failure it was told  *)
(* of; about is only for owed.                                             *)
Penalty(dest, about) == Event("CONFIG_PENALTY", dest, Controller, about, Controller)

(* Mutant: the panel is locked that reported the failure. *)
MutantRules(q, packet) ==
  CASE packet.name = "TASK_FAIL" /\ packet.about # NoOne /\ difficulty # "easy" ->
         Transmit(q, Penalty(packet.from, packet.about), Controller)
    [] packet.name = "SABOTAGE" -> Transmit(q, Broadcast("SABOTAGE"), Controller)
    [] OTHER -> q

(* The rules engine: what the sniffer sends because of a packet, whoever   *)
(* it is from.                                                             *)
Rules(q, packet) ==
  CASE packet.name = "TASK_FAIL" /\ packet.about # NoOne /\ difficulty # "easy" ->
         Transmit(q, Penalty(AddressOf(PLAYER, packet.about), packet.about), Controller)
    [] packet.name = "SABOTAGE" -> Transmit(q, Broadcast("SABOTAGE"), Controller)
    [] OTHER -> q

(* _sniff_loop; its two uses of the lock are one step, since what another  *)
(* thread sends in between might as well have been sent before.            *)
Sniff ==
  LET packet == FirstPacket(air, Controller) IN
  /\ HasPacket(air, Controller)
  /\ air' = Rules(Received(air, Controller), packet)
  /\ seen' = IF packet.by \in Tasks
             THEN [seen EXCEPT ![packet.by] = Append(@, Entry(packet))] ELSE seen
  /\ owed' = IF packet.name = "TASK_FAIL" /\ difficulty = "easy"
             THEN {n \in owed : NumberOf(Address(n)) # packet.about} ELSE owed
  /\ UNCHANGED <<polled, controllerOnly>>

-----------------------------------------------------------------------------
(* Requests of the operator.  The list of nodes is read when one begins.   *)

operatorOnly == <<panel, polled, history>>

Requests ==
  /\ used.requests < MaxRequests
  /\ used' = [used EXCEPT !.requests = @ + 1]

Idle(o) == operator[o].pc = "idle"
Serves(o, pc, left) ==
  operator' = [operator EXCEPT ![o] = [pc |-> pc, batch |-> simNodes, left |-> left]]
Answers(o) == operator' = [operator EXCEPT ![o].pc = "idle", ![o].left = {}]

(* /api/game/start, /api/game/stop *)
Transmits(o) ==
  /\ Idle(o) /\ Requests
  /\ \E name \in {"START", "STOP"} : air' = ControllerSends(Broadcast(name))
  /\ UNCHANGED <<node, player, simNodes, difficulty, operator, operatorOnly>>

(* spoof_packet: the controller's radio sends any packet, from and to any  *)
(* address, also its own.  An event is staged without a player.            *)
Spoof(o) ==
  /\ Idle(o) /\ Requests
  /\ \E name \in SpoofedNames, from \in SpoofedSources,
        dest \in Addresses \cup {Controller, Everyone} :
       LET packet == Event(name, dest, from, NoOne, Controller)
       IN air' = ControllerSends(packet) /\ told' = Told(packet)
  /\ UNCHANGED <<node, player, simNodes, difficulty, operator,
                 panel, polled, seen, finished, owed>>

SetDifficulty(o) ==
  /\ Idle(o) /\ Requests
  /\ difficulty' \in {"easy", "medium", "hard"}
  /\ UNCHANGED <<air, node, player, simNodes, operator, operatorOnly>>

TriggerSabotage(o) ==
  /\ Idle(o) /\ Requests
  /\ \E p \in Impostors : QueueSabotage(<<simNodes, p>>)
  /\ UNCHANGED <<air, player, simNodes, difficulty, operator, operatorOnly>>

(* A meeting is broadcast and then begun for one player after the other.   *)
TriggerMeeting(o) ==
  /\ Idle(o) /\ Requests
  /\ air' = ControllerSends(Broadcast("MEETING_START"))
  /\ Serves(o, "meets", {simNodes} \X Players)
  /\ UNCHANGED <<node, player, simNodes, difficulty, operatorOnly>>

MeetingStep(o) ==
  /\ operator[o].pc = "meets"
  /\ \/ /\ operator[o].left = {}
        /\ Answers(o)
        /\ UNCHANGED player
     \/ \E n \in operator[o].left :
          /\ operator' = [operator EXCEPT ![o].left = @ \ {n}]
          /\ player' = [player EXCEPT ![n] = BeginMeeting(@)]
  /\ UNCHANGED <<air, node, simNodes, difficulty, used, operatorOnly>>

TriggerKill(o) ==
  /\ Idle(o) /\ Requests
  /\ \E p \in Players : player' = [player EXCEPT ![<<simNodes, p>>].state = "DEAD"]
  /\ Serves(o, "kills", {})
  /\ UNCHANGED <<air, node, simNodes, difficulty, operatorOnly>>

KillStep(o) ==
  /\ operator[o].pc = "kills"
  /\ air' = ControllerSends(Broadcast("PLAYER_DEATH"))
  /\ Answers(o)
  /\ UNCHANGED <<node, player, simNodes, difficulty, used, operatorOnly>>

(* A task is forced: the timer is set after active_task was looked at.     *)
TriggerCompletion(o) ==
  /\ Idle(o) /\ Requests
  /\ \E p \in Players :
       /\ player[<<simNodes, p>>].active # NoTask
       /\ Serves(o, "completes", {<<simNodes, p>>})
  /\ UNCHANGED <<air, node, player, simNodes, difficulty, operatorOnly>>

CompletionStep(o) ==
  /\ operator[o].pc = "completes"
  /\ \E n \in operator[o].left : player' = [player EXCEPT ![n].working = TRUE]
  /\ Answers(o)
  /\ UNCHANGED <<air, node, simNodes, difficulty, used, operatorOnly>>

(* /api/sim/reset: every node is stopped (its thread is joined, its radio  *)
(* gives up the address), new ones are made, then started, then published. *)
Reset(o) ==
  /\ Idle(o) /\ Requests
  /\ Serves(o, "stops", Of(simNodes))
  /\ UNCHANGED <<air, node, player, simNodes, difficulty, operatorOnly>>

StopNode(o) ==
  /\ operator[o].pc = "stops"
  /\ \E n \in operator[o].left :
       /\ operator' = [operator EXCEPT ![o].left = @ \ {n}]
       /\ node' = [node EXCEPT ![n].thread = "ended", ![n].radio = FALSE]
       /\ air' = IF node[n].radio THEN Unregister(air, Address(n)) ELSE air
  /\ UNCHANGED <<player, simNodes, difficulty, used, operatorOnly>>

NewBatch(o) ==
  /\ operator[o].pc = "stops" /\ operator[o].left = {}
  /\ used.resets < MaxResets
  /\ used' = [used EXCEPT !.resets = @ + 1]
  /\ operator' = [operator EXCEPT ![o] =
       [pc |-> "builds", batch |-> used.resets + 1, left |-> Of(used.resets + 1)]]
  /\ UNCHANGED <<air, node, player, simNodes, difficulty, operatorOnly>>

BuildNode(o) ==
  /\ operator[o].pc = "builds"
  /\ \/ \E n \in operator[o].left :
          /\ operator' = [operator EXCEPT ![o].left = @ \ {n}]
          /\ node' = [node EXCEPT ![n] = NewNode]
          /\ air' = Register(air, Address(n))
     \/ /\ operator[o].left = {}
        /\ operator' = [operator EXCEPT ![o].pc = "starts", ![o].left = Of(operator[o].batch)]
        /\ UNCHANGED <<air, node>>
  /\ UNCHANGED <<player, simNodes, difficulty, used, operatorOnly>>

StartNode(o) ==
  /\ operator[o].pc = "starts"
  /\ \/ \E n \in operator[o].left :
          /\ operator' = [operator EXCEPT ![o].left = @ \ {n}]
          /\ node' = [node EXCEPT ![n].thread = "loop"]
          /\ UNCHANGED simNodes
     \/ /\ operator[o].left = {}
        /\ simNodes' = operator[o].batch
        /\ Answers(o)
        /\ UNCHANGED node
  /\ UNCHANGED <<air, player, difficulty, used, operatorOnly>>

Operate(o) ==
  \/ Transmits(o) \/ Spoof(o) \/ SetDifficulty(o) \/ TriggerSabotage(o)
  \/ TriggerMeeting(o) \/ MeetingStep(o) \/ TriggerKill(o) \/ KillStep(o)
  \/ TriggerCompletion(o) \/ CompletionStep(o)
  \/ Reset(o) \/ StopNode(o) \/ NewBatch(o) \/ BuildNode(o) \/ StartNode(o)

-----------------------------------------------------------------------------
Next ==
  \/ \E n \in Batches \X Players : Tick(n)
  \/ \E n \in Nodes : Receives(n)
  \/ Poll \/ Sniff
  \/ \E o \in Operators : Operate(o)

Spec == Init /\ [][Next]_vars

(* Every thread keeps running.  A game need not go on.                     *)
FairSpec ==
  /\ Spec
  /\ WF_vars(Poll) /\ WF_vars(Sniff)
  /\ \A n \in Nodes : WF_vars(Receives(n))

-----------------------------------------------------------------------------
(* Properties. *)

(* The name and the subject of the packets of q that are numbered in S.    *)
PickedUpTo(q, S) ==
  LET picked[i \in 0..Len(q)] ==
        IF i = 0 THEN <<>>
        ELSE IF i \in S THEN Append(picked[i - 1], Entry(q[i])) ELSE picked[i - 1]
  IN picked
Picked(q, S) == PickedUpTo(q, S)[Len(q)]

(* What task panel t sent, and the events for a task panel, in a queue.    *)
FromPanel(q, t) == Picked(q, {i \in DOMAIN q : q[i].by = t})
ToPanel(q) == Picked(q, {i \in DOMAIN q : q[i].name \in TaskEvents /\ q[i].dest # Everyone})

InFlight(t) ==
  FromPanel(air[Controller], t) \o FromPanel(node[<<0, t>>].tx, t) \o ToPanel(air[t])

Resetting ==
  simNodes # 0 \/ \E o \in Operators : operator[o].pc \in {"stops", "builds", "starts"}

(* What a task panel was told, by players and by spoofed packets alike, the*)
(* controller receives from that panel, in that order, nothing lost and    *)
(* nothing twice, through two hops, the panel's telemetry queue and the    *)
(* polling, whatever else is sent or polled meanwhile; the rest is on its  *)
(* way.  A reset drops what is on its way.  Packets spoofed to the         *)
(* controller in the panel's name may come in between: seen has the panel's*)
(* own, while the console cannot tell them apart.                          *)
ReportsReachController ==
  ~Resetting => \A t \in Tasks : told[t] = seen[t] \o InFlight(t)

(* A player completes each of its tasks at most once, also when games are  *)
(* stopped and started, when meetings interrupt it and when a completion   *)
(* is forced while the player goes on to its next task.                    *)
TaskDoneOnce == \A n \in DOMAIN finished : IsInjective(finished[n])

(* A failed puzzle locks the player that failed it: task panel, poll,      *)
(* rules engine and the player's own thread each do their part, whatever   *)
(* is spoofed, unless the game is easy when the controller sees it, or the *)
(* simulation is reset.                                                    *)
FailureIsPenalised ==
  \A n \in Batches \X Players : (n \in owed) ~> (n \notin owed \/ Resetting)

=============================================================================
