--------------------------- MODULE TransmitLedger ---------------------------
(***************************************************************************)
(* The transmit requests of the workbench and the ledger that keeps them   *)
(* from being sent twice: WorkbenchService.transmit (service.py).  Each    *)
(* caller repeats its requests as it likes: because an answer was lost,    *)
(* because a user pressed the button again, or with other input.           *)
(*                                                                         *)
(* The ledger is guarded by the service's own lock so that it holds for    *)
(* callers on several threads; the shipped web layer has one.  The radio   *)
(* is one step here: PhysicalCapture has its steps.  A restart empties     *)
(* everything but the callers' memory.                                     *)
(***************************************************************************)
EXTENDS Naturals, SequencesExt

CONSTANTS
  Callers,
  Ids,          \* request identifiers; one made for a caller is a fresh one
  Frames,       \* frame and mode, once parsed
  Provenances,  \* the local metadata that comes with a request
  Capacity,     \* _transmit_result_capacity
  MaxCalls,     \* bound: calls
  MaxRestarts   \* bound: restarts of the process

ASSUME LedgerAssumption ==
  /\ Ids # {} /\ Frames # {} /\ Provenances # {}
  /\ Capacity \in Nat \ {0} /\ MaxCalls \in Nat /\ MaxRestarts \in Nat

VARIABLES
  results,     \* _transmit_results, oldest first
  inProgress,  \* _transmit_in_progress
  call,        \* what each caller's call has come to
  calls, restarts,   \* how much of the bounds is used
  onAir,       \* history: requests handed to the radio, in order
  told,        \* history: results given to the calls that produced them
  forgotten    \* history: identifiers whose result was dropped

ledgerVars == <<results, inProgress>>
boundVars == <<calls, restarts>>
historyVars == <<onAir, told, forgotten>>
vars == <<ledgerVars, call, boundVars, historyVars>>

Signatures == [frame : Frames, provenance : Provenances]
Requests == [id : Ids, signature : Signatures]
Results == [request : Requests, outcome : {"sent", "unknown"}]

CallPC == {"idle", "send", "remember", "finally"}
Answers == {"none", "result", "replayed", "conflict", "in progress", "lost"}
Calls == [pc : CallPC, request : Requests, outcome : {"sent", "unknown"},
          answer : Answers, found : SUBSET Results]

(* request: the one this call makes or made last; answer: what it was told *)
(* in the end; found: the entry of the ledger that answer is about.        *)
NoCall ==
  [pc |-> "idle", request |-> CHOOSE r \in Requests : TRUE, outcome |-> "unknown",
   answer |-> "none", found |-> {}]

Init ==
  /\ results = <<>> /\ inProgress = {}
  /\ call = [c \in Callers |-> NoCall]
  /\ calls = 0 /\ restarts = 0
  /\ onAir = <<>> /\ told = {} /\ forgotten = {}

-----------------------------------------------------------------------------
CallAt(c, pc) == call[c].pc = pc
CallTo(c, pc) == call' = [call EXCEPT ![c].pc = pc]

Cached(id) == {r \in Range(results) : r.request.id = id}
Marked(id) == {r \in inProgress : r.id = id}

(* The call is answered at once, because of what the ledger holds.         *)
Refer(c, request, answer, found) ==
  /\ call' = [call EXCEPT ![c].request = request, ![c].answer = answer,
                          ![c].found = {found}]
  /\ UNCHANGED inProgress

Compare(c, request, earlier, answer, found) ==
  Refer(c, request, IF request.signature = earlier.signature THEN answer ELSE "conflict",
        found)

(* Mutant: a request that is in progress is not looked for.                *)
MutantAdmit(c, request) ==
  /\ CallAt(c, "idle")
  /\ \/ \E r \in Cached(request.id) : Compare(c, request, r.request, "replayed", r)
     \/ /\ Cached(request.id) = {}
        /\ inProgress' = inProgress \cup {request}
        /\ call' = [call EXCEPT ![c] = [NoCall EXCEPT !.pc = "send", !.request = request]]

(* transmit up to the release of the lock: a remembered result is replayed *)
(* for the same input, a request in progress is refused, another one is    *)
(* marked as in progress.  A call without an identifier gets one that was  *)
(* never used.                                                             *)
Admit(c, request) ==
  /\ CallAt(c, "idle")
  /\ \/ \E r \in Cached(request.id) : Compare(c, request, r.request, "replayed", r)
     \/ /\ Cached(request.id) = {}
        /\ \E r \in Marked(request.id) :
             Compare(c, request, r, "in progress", [request |-> r, outcome |-> "unknown"])
     \/ /\ Cached(request.id) = {} /\ Marked(request.id) = {}
        /\ inProgress' = inProgress \cup {request}
        /\ call' = [call EXCEPT ![c] = [NoCall EXCEPT !.pc = "send", !.request = request]]

Call(c) ==
  /\ calls < MaxCalls
  /\ \E request \in Requests : Admit(c, request)
  /\ calls' = calls + 1
  /\ UNCHANGED <<results, restarts, historyVars>>

(* carrier.send and consume_physical: both, or one that raises.  A frame   *)
(* that may not be sent raises before it gets to the radio.                *)
Send(c) ==
  /\ CallAt(c, "send")
  /\ \E outcome \in {"sent", "unknown"} :
       call' = [call EXCEPT ![c].pc = "remember", ![c].outcome = outcome]
  /\ \/ onAir' = Append(onAir, call[c].request)
     \/ call'[c].outcome = "unknown" /\ UNCHANGED onAir
  /\ UNCHANGED <<ledgerVars, boundVars, told, forgotten>>

(* Mutant: one result too many is kept.                                    *)
MutantEvict(list) == IF Len(list) > Capacity + 1 THEN Tail(list) ELSE list

(* popitem(last=False) while there are too many.                           *)
Evict(list) == IF Len(list) > Capacity THEN Tail(list) ELSE list

(* Mutant: whatever became of it, a frame is remembered as sent.           *)
MutantRememberSent(c) ==
  LET result == [request |-> call[c].request, outcome |-> "sent"]
  IN  /\ CallAt(c, "remember")
      /\ results' = Evict(Append(results, result))
      /\ forgotten' = forgotten \cup
           {r.request.id : r \in Range(results) \ Range(results')}
      /\ CallTo(c, "finally")
      /\ UNCHANGED <<inProgress, boundVars, onAir, told>>

(* Mutant: only a frame that was sent is remembered.                       *)
MutantRemember(c) ==
  /\ CallAt(c, "remember")
  /\ results' =
       IF call[c].outcome = "sent"
         THEN Evict(Append(results, [request |-> call[c].request, outcome |-> "sent"]))
         ELSE results
  /\ forgotten' = forgotten \cup
       {r.request.id : r \in Range(results) \ Range(results')}
  /\ CallTo(c, "finally")
  /\ UNCHANGED <<inProgress, boundVars, onAir, told>>

(* _remember_transmit_result, for a sent frame and for an unknown outcome. *)
Remember(c) ==
  LET result == [request |-> call[c].request, outcome |-> call[c].outcome]
      others == RemoveFirstMatch(results, LAMBDA r : r.request.id = result.request.id)
  IN  /\ CallAt(c, "remember")
      /\ results' = Evict(Append(others, result))
      /\ forgotten' = forgotten \cup
           {r.request.id : r \in Range(results) \ Range(results')}
      /\ CallTo(c, "finally")
      /\ UNCHANGED <<inProgress, boundVars, onAir, told>>

(* Mutant: the mark stays.                                                 *)
MutantUnmark(request) == UNCHANGED inProgress

Unmark(request) == inProgress' = {r \in inProgress : r.id # request.id}

(* The finally block, and the answer.                                      *)
Answer(c) ==
  LET result == [request |-> call[c].request, outcome |-> call[c].outcome]
  IN  /\ CallAt(c, "finally")
      /\ Unmark(call[c].request)
      /\ told' = told \cup {result}
      /\ call' = [call EXCEPT ![c].pc = "idle", ![c].answer = "result",
                              ![c].found = {result}]
      /\ UNCHANGED <<results, boundVars, onAir, forgotten>>

(* The process ends and is started again; calls under way get no answer.   *)
Restart ==
  /\ restarts < MaxRestarts
  /\ results' = <<>> /\ inProgress' = {}
  /\ call' = [c \in Callers |-> [NoCall EXCEPT !.answer = "lost"]]
  /\ onAir' = <<>> /\ told' = {} /\ forgotten' = {}
  /\ restarts' = restarts + 1
  /\ UNCHANGED calls

Proceed(c) == Send(c) \/ Remember(c) \/ Answer(c)

Next == Restart \/ \E c \in Callers : Call(c) \/ Proceed(c)

Spec == Init /\ [][Next]_vars

-----------------------------------------------------------------------------
(* Properties. *)

TypeOK ==
  /\ results \in Seq(Results) /\ Len(results) <= Capacity
  /\ inProgress \subseteq Requests
  /\ call \in [Callers -> Calls]
  /\ calls \in 0..MaxCalls /\ restarts \in 0..MaxRestarts
  /\ onAir \in Seq(Requests)
  /\ told \subseteq Results
  /\ forgotten \subseteq Ids

(* However often, by whomever and with whatever input a request identifier *)
(* is repeated, the process hands it to the radio once, as long as it has  *)
(* not dropped the result.                                                 *)
OneTransmissionPerId ==
  \A i, j \in DOMAIN onAir :
    i # j /\ onAir[i].id = onAir[j].id => onAir[i].id \in forgotten

(* What a repeated request is told is what the first one was told, or is   *)
(* about to be told.                                                       *)
ReplayIsTheFirstResult ==
  \A c \in Callers : call[c].answer = "replayed" =>
    \A r \in call[c].found :
      \/ r \in told
      \/ \E d \in Callers : CallAt(d, "finally") /\ call[d].request = r.request
                              /\ call[d].outcome = r.outcome

(* The marks are those of the calls under way, one call for each: none is  *)
(* left behind to refuse an identifier for ever.                           *)
MarksAreCallsUnderWay ==
  /\ inProgress = {call[c].request : c \in {d \in Callers : ~CallAt(d, "idle")}}
  /\ \A c, d \in Callers :
       c # d /\ ~CallAt(c, "idle") /\ ~CallAt(d, "idle")
         => call[c].request.id # call[d].request.id

(* A call that has been to the radio and ended is remembered, whatever it  *)
(* was told, unless newer results took its place.                          *)
TransmissionsAreRemembered ==
  \A i \in DOMAIN onAir :
    \/ \E r \in inProgress : r.id = onAir[i].id
    \/ Cached(onAir[i].id) # {}
    \/ onAir[i].id \in forgotten /\ Len(results) = Capacity

(* "repeating the same request ID, frame, and mode returns the stored      *)
(* result" (docs/editor-api-v1.md): a conflict is about another frame.  It *)
(* is not so: other provenance is enough (README.md, section 4).           *)
ConflictMeansOtherFrame ==
  \A c \in Callers : call[c].answer = "conflict" =>
    \A r \in call[c].found :
      call[c].request.signature.frame # r.request.signature.frame

=============================================================================
