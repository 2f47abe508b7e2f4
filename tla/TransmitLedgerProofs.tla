------------------------ MODULE TransmitLedgerProofs ------------------------
(***************************************************************************)
(* The transmit ledger for any number of callers, identifiers, inputs and  *)
(* calls and every capacity: an identifier is handed to the radio once     *)
(* unless its result was dropped, and the ledger tells repeated calls what *)
(* the first one was told.                                                 *)
(***************************************************************************)
EXTENDS TransmitLedger, TLAPS

Remembered(id) == \E i \in DOMAIN results : results[i].request.id = id

(* Forgotten for good: only a full ledger drops a result.                  *)
Dropped(id) == id \in forgotten /\ Len(results) = Capacity

IdsDiffer ==
  \A i, j \in DOMAIN results : i # j => results[i].request.id # results[j].request.id

(* What a call that was admitted may rely on until it is remembered, and   *)
(* what it leaves behind.                                                  *)
Admitted(c) == CallAt(c, "send") \/ CallAt(c, "remember")

AdmittedIsNew == \A c \in Callers : Admitted(c) => ~Remembered(call[c].request.id)

FirstSend ==
  \A c \in Callers : CallAt(c, "send") =>
    \A i \in DOMAIN onAir : onAir[i].id = call[c].request.id => onAir[i].id \in forgotten

LeavesResult ==
  \A c \in Callers : CallAt(c, "finally") =>
    Remembered(call[c].request.id) \/ Dropped(call[c].request.id)

(* A remembered result was told to its caller, or is about to be.          *)
ToldBy(r, d) ==
  CallAt(d, "finally") /\ call[d].request = r.request /\ call[d].outcome = r.outcome
Known(r) == r \in told \/ \E d \in Callers : ToldBy(r, d)
ResultsKnown == \A i \in DOMAIN results : Known(results[i])

OnAirRemembered ==
  \A i \in DOMAIN onAir :
    \/ \E r \in inProgress : r.id = onAir[i].id
    \/ Remembered(onAir[i].id)
    \/ Dropped(onAir[i].id)

ReplayInv ==
  \A c \in Callers : call[c].answer = "replayed" => \A r \in call[c].found : Known(r)

LedgerInv ==
  /\ TypeOK
  /\ MarksAreCallsUnderWay
  /\ IdsDiffer
  /\ AdmittedIsNew
  /\ FirstSend
  /\ LeavesResult
  /\ ResultsKnown
  /\ OnAirRemembered
  /\ OneTransmissionPerId
  /\ ReplayInv

-----------------------------------------------------------------------------
(* There is a request for the callers to begin with.                       *)
LEMMA NoCallTyped ==
  /\ NoCall \in Calls
  /\ NoCall.pc = "idle" /\ NoCall.answer = "none"
<1>1. Requests # {}
  <2>1. PICK id \in Ids, frame \in Frames, provenance \in Provenances : TRUE
    BY LedgerAssumption
  <2>2. [id |-> id, signature |-> [frame |-> frame, provenance |-> provenance]] \in Requests
    BY DEF Requests, Signatures
  <2> QED
    BY <2>2
<1>2. (CHOOSE r \in Requests : TRUE) \in Requests
  BY <1>1
<1> QED
  BY <1>2 DEF NoCall, Calls, CallPC, Answers

(* The set Cached is empty when nothing is remembered.                     *)
LEMMA CachedIsRemembered ==
  ASSUME NEW id PROVE (Cached(id) = {}) <=> ~Remembered(id)
  BY DEF Cached, Remembered, Range

(* The ledger of _remember_transmit_result: the new result is in it, the   *)
(* identifiers stay distinct, and what is dropped is recorded, which       *)
(* happens only when the ledger is full.                                   *)
LEMMA RememberKeeps ==
  ASSUME TypeOK, IdsDiffer, AdmittedIsNew, NEW c \in Callers, Remember(c)
  PROVE  LET result == [request |-> call[c].request, outcome |-> call[c].outcome]
         IN  /\ results' \in Seq(Results) /\ Len(results') <= Capacity
             /\ IdsDiffer'
             /\ \A i \in DOMAIN results' :
                  results'[i] = result \/ \E j \in DOMAIN results : results'[i] = results[j]
             /\ Remembered(call[c].request.id)'
             /\ \A id : Remembered(id) => Remembered(id)' \/ Dropped(id)'
             /\ Len(results) = Capacity => Len(results') = Capacity
             /\ forgotten \subseteq forgotten' /\ forgotten' \subseteq Ids
<1> DEFINE result == [request |-> call[c].request, outcome |-> call[c].outcome]
           n == Len(results)
           list == Append(results, result)
<1>0. /\ result \in Results /\ results \in Seq(Results) /\ n \in 0..Capacity
      /\ Capacity \in Nat \ {0}
      /\ \A i \in 1..n : results[i] \in Results /\ results[i].request.id \in Ids
      /\ call' = [call EXCEPT ![c].pc = "finally"] /\ c \in DOMAIN call
  <2>1. result \in Results
    BY DEF TypeOK, Calls, Results
  <2>2. \A r \in Results : r.request.id \in Ids
    BY DEF Results, Requests
  <2>3. results \in Seq(Results) /\ Len(results) <= Capacity
    BY DEF TypeOK
  <2>4. call' = [call EXCEPT ![c].pc = "finally"] /\ c \in DOMAIN call
    BY DEF TypeOK, Remember, CallTo
  <2>5. \A i \in 1..n : results[i] \in Results
    BY <2>3
  <2> HIDE DEF result
  <2> QED
    BY <2>1, <2>2, <2>3, <2>4, <2>5, LedgerAssumption
<1>1. ~Remembered(call[c].request.id)
  BY DEF AdmittedIsNew, Admitted, Remember
<1>2. results' = Evict(list)
  BY <1>1 DEF Remember, Remembered, RemoveFirstMatch
<1>3. forgotten' = forgotten \cup {r.request.id : r \in Range(results) \ Range(results')}
  BY DEF Remember
<1>4. /\ list \in Seq(Results) /\ Len(list) = n + 1
      /\ \A i \in 1..n : list[i] = results[i]
      /\ list[n + 1] = result
  BY <1>0
<1>5. PICK k \in {0, 1} :
        /\ results' \in Seq(Results)
        /\ Len(results') = n + 1 - k
        /\ \A i \in 1..(n + 1 - k) : results'[i] = list[i + k]
        /\ k = 1 <=> n = Capacity
  <2>1. CASE n = Capacity
    <3>1. results' = Tail(list)
      BY <1>0, <1>2, <1>4, <2>1 DEF Evict
    <3>2. /\ Tail(list) \in Seq(Results) /\ Len(Tail(list)) = n
          /\ \A i \in 1..n : Tail(list)[i] = list[i + 1]
      <4> HIDE DEF list, n
      <4>1. list # <<>>
        BY <1>0, <1>4
      <4> QED
        BY <1>0, <1>4, <4>1
    <3> QED
      BY <1>0, <2>1, <3>1, <3>2
  <2>2. CASE n < Capacity
    BY <1>0, <1>2, <1>4, <2>2 DEF Evict
  <2> QED
    BY <1>0, <2>1, <2>2
<1> HIDE DEF list, n, result
<1>6. /\ DOMAIN results' = 1..(n + 1 - k) /\ DOMAIN results = 1..n
      /\ n + 1 - k <= Capacity
      /\ \A i \in 1..(n + 1 - k) :
           results'[i] = IF i + k <= n THEN results[i + k] ELSE result
  <2>1. DOMAIN results' = 1..(n + 1 - k) /\ DOMAIN results = 1..n
    BY <1>0, <1>5 DEF n
  <2>2. ASSUME NEW i \in 1..(n + 1 - k)
        PROVE  results'[i] = IF i + k <= n THEN results[i + k] ELSE result
    <3>1. i + k \in 1..(n + 1) /\ results'[i] = list[i + k]
      BY <1>0, <1>5
    <3> QED
      BY <1>0, <1>4, <3>1
  <2>3. n + 1 - k <= Capacity
    BY <1>0, <1>5
  <2> QED
    BY <2>1, <2>2, <2>3
<1>7. \A i \in 1..n : results[i].request.id # result.request.id
  BY <1>1, <1>6 DEF Remembered, result
<1>8. IdsDiffer'
  <2> SUFFICES ASSUME NEW i \in 1..(n + 1 - k), NEW j \in 1..(n + 1 - k), i # j
               PROVE  results'[i].request.id # results'[j].request.id
    BY <1>6 DEF IdsDiffer
  <2> QED
    BY <1>0, <1>6, <1>7 DEF IdsDiffer
<1>9. results'[n + 1 - k] = result /\ n + 1 - k \in 1..(n + 1 - k)
  BY <1>0, <1>5, <1>6
<1>10. ASSUME k = 1 PROVE results[1].request.id \in forgotten' /\ Len(results') = Capacity
  <2>1. results[1] \in Range(results)
    BY <1>0, <1>5, <1>6, <1>10 DEF Range
  <2>2. results[1] \notin Range(results')
    <3> SUFFICES ASSUME NEW i \in 1..n, results'[i] = results[1] PROVE FALSE
      BY <1>0, <1>6, <1>10 DEF Range
    <3> QED
      BY <1>0, <1>5, <1>6, <1>7, <1>10 DEF IdsDiffer
  <2> QED
    BY <1>0, <1>3, <1>5, <1>10, <2>1, <2>2
<1>11. ASSUME NEW id, Remembered(id) PROVE Remembered(id)' \/ Dropped(id)'
  <2>1. PICK i \in 1..n : results[i].request.id = id
    BY <1>6, <1>11 DEF Remembered
  <2>2. CASE i - k = 0
    BY <1>0, <1>5, <1>10, <2>1, <2>2 DEF Dropped
  <2>3. CASE i - k > 0
    <3>1. i - k \in 1..(n + 1 - k) /\ results'[i - k] = results[i]
      BY <1>0, <1>6, <2>1, <2>3
    <3> QED
      BY <1>6, <2>1, <3>1 DEF Remembered
  <2> QED
    BY <2>1, <2>2, <2>3
<1>12. Remembered(call[c].request.id)'
  <2>1. results'[n + 1 - k].request.id = call[c].request.id
    BY <1>9 DEF result
  <2>2. call'[c].request.id = call[c].request.id
    BY <1>0 DEF TypeOK, Calls
  <2> QED
    BY <1>6, <1>9, <2>1, <2>2 DEF Remembered
<1>13. forgotten \subseteq forgotten' /\ forgotten' \subseteq Ids
  BY <1>0, <1>3, <1>6 DEF TypeOK, Range
<1>14. \A i \in DOMAIN results' :
         results'[i] = result \/ \E j \in DOMAIN results : results'[i] = results[j]
  BY <1>0, <1>6
<1>15. n = Capacity => Len(results') = Capacity
  BY <1>0, <1>5
<1> QED
  BY <1>0, <1>5, <1>6, <1>8, <1>11, <1>12, <1>13, <1>14, <1>15 DEF result, n

-----------------------------------------------------------------------------
(* The ledger initially and after a restart.                               *)
Empty ==
  /\ results = <<>> /\ inProgress = {} /\ onAir = <<>> /\ told = {} /\ forgotten = {}
  /\ calls \in 0..MaxCalls /\ restarts \in 0..MaxRestarts
  /\ \E a \in {"none", "lost"} : call = [c \in Callers |-> [NoCall EXCEPT !.answer = a]]

(* Nothing was sent or told that an empty ledger would have to remember.   *)
LEMMA EmptyLedger == Empty => LedgerInv
<1> SUFFICES ASSUME Empty PROVE LedgerInv
  OBVIOUS
<1> USE DEF Empty
<1>1. TypeOK
  <2>1. \A a \in {"none", "lost"} : [NoCall EXCEPT !.answer = a] \in Calls
    BY NoCallTyped DEF Calls, Answers
  <2> QED
    BY <2>1, LedgerAssumption DEF TypeOK
<1>2. \A c \in Callers : call[c].pc = "idle" /\ call[c].answer # "replayed"
  BY NoCallTyped DEF Calls
<1>3. MarksAreCallsUnderWay
  BY <1>2 DEF MarksAreCallsUnderWay, CallAt
<1>4. AdmittedIsNew /\ FirstSend /\ LeavesResult /\ ReplayInv
  BY <1>2 DEF AdmittedIsNew, FirstSend, LeavesResult, ReplayInv, Admitted, CallAt
<1>5. IdsDiffer /\ ResultsKnown /\ OnAirRemembered /\ OneTransmissionPerId
  BY DEF IdsDiffer, ResultsKnown, OnAirRemembered, OneTransmissionPerId
<1> QED
  BY <1>1, <1>3, <1>4, <1>5 DEF LedgerInv

(* A call that is answered from the ledger changes nothing in it.          *)
LEMMA ReferKeeps ==
  ASSUME LedgerInv, NEW c \in Callers, CallAt(c, "idle"),
         NEW request \in Requests, NEW answer \in Answers, NEW found \in Results,
         Refer(c, request, answer, found),
         answer = "replayed" => Known(found),
         calls' \in 0..MaxCalls, UNCHANGED <<results, restarts, historyVars>>
  PROVE  LedgerInv'
<1>1. /\ TypeOK' /\ inProgress' = inProgress
      /\ results' = results /\ onAir' = onAir /\ told' = told /\ forgotten' = forgotten
      /\ call'[c].pc = "idle" /\ call'[c].answer = answer /\ call'[c].found = {found}
      /\ \A d \in Callers \ {c} : call'[d] = call[d]
  BY DEF LedgerInv, TypeOK, Calls, Refer, CallAt, historyVars
<1>2. \A d \in Callers : ~CallAt(d, "idle") => call'[d] = call[d]
  BY <1>1
<1>3. \A d \in Callers, pc \in CallPC : CallAt(d, pc)' <=> CallAt(d, pc)
  BY <1>1 DEF CallAt
<1>4. \A r : Known(r) => Known(r)'
  BY <1>1, <1>2 DEF Known, ToldBy, CallAt
<1>5. MarksAreCallsUnderWay'
  BY <1>1, <1>2, <1>3 DEF LedgerInv, MarksAreCallsUnderWay, CallPC
<1>6. AdmittedIsNew' /\ FirstSend' /\ LeavesResult'
  BY <1>1, <1>2 DEF LedgerInv, AdmittedIsNew, FirstSend, LeavesResult, Admitted, CallAt,
     Remembered, Dropped
<1>7. ResultsKnown'
  BY <1>1, <1>4 DEF LedgerInv, ResultsKnown
<1>8. ReplayInv'
  BY <1>1, <1>4 DEF LedgerInv, ReplayInv
<1>9. IdsDiffer' /\ OnAirRemembered' /\ OneTransmissionPerId'
  BY <1>1 DEF LedgerInv, IdsDiffer, OnAirRemembered, OneTransmissionPerId, Remembered, Dropped
<1> QED
  BY <1>1, <1>5, <1>6, <1>7, <1>8, <1>9 DEF LedgerInv

(* A call that is admitted is the only one of its identifier under way, and*)
(* what this identifier sent before, if anything, has been dropped.        *)
LEMMA AdmittedKeeps ==
  ASSUME LedgerInv, NEW c \in Callers, CallAt(c, "idle"), NEW request \in Requests,
         ~Remembered(request.id), Marked(request.id) = {},
         inProgress' = inProgress \cup {request},
         call' = [call EXCEPT ![c] = [NoCall EXCEPT !.pc = "send", !.request = request]],
         calls' \in 0..MaxCalls, UNCHANGED <<results, restarts, historyVars>>
  PROVE  LedgerInv'
<1>1. /\ TypeOK'
      /\ results' = results /\ onAir' = onAir /\ told' = told /\ forgotten' = forgotten
      /\ call'[c].pc = "send" /\ call'[c].request = request /\ call'[c].answer = "none"
      /\ \A d \in Callers \ {c} : call'[d] = call[d]
  BY NoCallTyped DEF LedgerInv, TypeOK, Calls, CallPC, historyVars
<1>2. \A r \in inProgress : r.id # request.id
  BY DEF Marked
<1>3. MarksAreCallsUnderWay'
  <2>1. \A d \in Callers \ {c} : ~CallAt(d, "idle") => call[d].request.id # request.id
    BY <1>2 DEF LedgerInv, MarksAreCallsUnderWay
  <2>2. \A d \in Callers \ {c} : CallAt(d, "idle")' <=> CallAt(d, "idle")
    BY <1>1 DEF CallAt
  <2>3. CallAt(c, "idle") /\ ~CallAt(c, "idle")'
    BY <1>1 DEF CallAt
  <2>4. inProgress' = {call'[d].request : d \in {e \in Callers : ~CallAt(e, "idle")'}}
    <3>1. inProgress = {call[d].request : d \in {e \in Callers : ~CallAt(e, "idle")}}
      BY DEF LedgerInv, MarksAreCallsUnderWay
    <3>2. \A r : r \in inProgress' <=>
                   r = request \/ \E d \in Callers \ {c} : ~CallAt(d, "idle") /\ r = call[d].request
      BY <2>3, <3>1
    <3> QED
      BY <1>1, <2>2, <2>3, <3>2
  <2>5. ASSUME NEW d \in Callers, NEW e \in Callers, d # e,
               ~CallAt(d, "idle")', ~CallAt(e, "idle")'
        PROVE  call'[d].request.id # call'[e].request.id
    BY <1>1, <2>1, <2>2, <2>5 DEF LedgerInv, MarksAreCallsUnderWay
  <2> QED
    BY <2>4, <2>5 DEF MarksAreCallsUnderWay
<1>4. AdmittedIsNew'
  BY <1>1 DEF LedgerInv, AdmittedIsNew, Admitted, CallAt, Remembered
<1>5. FirstSend'
  <2>1. ASSUME NEW i \in DOMAIN onAir, onAir[i].id = request.id
        PROVE  onAir[i].id \in forgotten
    BY <1>2, <2>1 DEF LedgerInv, OnAirRemembered, Dropped
  <2> QED
    BY <1>1, <2>1 DEF LedgerInv, FirstSend, CallAt
<1>6. LeavesResult'
  BY <1>1 DEF LedgerInv, LeavesResult, CallAt, Remembered, Dropped
<1>7. \A r : Known(r) => Known(r)'
  BY <1>1 DEF Known, ToldBy, CallAt
<1>8. ResultsKnown'
  BY <1>1, <1>7 DEF LedgerInv, ResultsKnown
<1>9. ReplayInv'
  BY <1>1, <1>7 DEF LedgerInv, ReplayInv
<1>10. IdsDiffer' /\ OnAirRemembered' /\ OneTransmissionPerId'
  BY <1>1 DEF LedgerInv, IdsDiffer, OnAirRemembered, OneTransmissionPerId, Remembered, Dropped
<1> QED
  BY <1>1, <1>3, <1>4, <1>5, <1>6, <1>8, <1>9, <1>10 DEF LedgerInv

(* Each of the four ways in which a call begins.                           *)
LEMMA CallKeeps ==
  ASSUME LedgerInv, NEW c \in Callers, Call(c)
  PROVE  LedgerInv'
<1>1. PICK request \in Requests : Admit(c, request)
  BY DEF Call
<1>2. CallAt(c, "idle") /\ calls' \in 0..MaxCalls /\ UNCHANGED <<results, restarts, historyVars>>
  <2>1. calls \in 0..MaxCalls /\ calls < MaxCalls /\ calls' = calls + 1
    BY DEF Call, LedgerInv, TypeOK
  <2>2. calls' \in 0..MaxCalls
    BY <2>1, LedgerAssumption
  <2> QED
    BY <1>1, <2>2 DEF Call, Admit
<1>3. CASE \E r \in Cached(request.id) : Compare(c, request, r.request, "replayed", r)
  <2>1. PICK i \in DOMAIN results : Compare(c, request, results[i].request, "replayed", results[i])
    BY <1>3 DEF Cached, Range
  <2>2. results[i] \in Results /\ Known(results[i])
    BY DEF LedgerInv, TypeOK, ResultsKnown
  <2> QED
    BY <1>2, <2>1, <2>2, ReferKeeps DEF Compare, Answers
<1>4. CASE \E r \in Marked(request.id) :
             Compare(c, request, r, "in progress", [request |-> r, outcome |-> "unknown"])
  <2>1. PICK r \in Requests :
          Compare(c, request, r, "in progress", [request |-> r, outcome |-> "unknown"])
    BY <1>4 DEF Marked, LedgerInv, TypeOK
  <2>2. [request |-> r, outcome |-> "unknown"] \in Results
    BY DEF Results
  <2> QED
    BY <1>2, <2>1, <2>2, ReferKeeps DEF Compare, Answers
<1>5. CASE /\ Cached(request.id) = {} /\ Marked(request.id) = {}
           /\ inProgress' = inProgress \cup {request}
           /\ call' = [call EXCEPT ![c] = [NoCall EXCEPT !.pc = "send", !.request = request]]
  BY <1>2, <1>5, CachedIsRemembered, AdmittedKeeps
<1> QED
  BY <1>1, <1>3, <1>4, <1>5 DEF Admit

(* The radio is told once of an identifier, unless its result is gone.     *)
LEMMA SendKeeps ==
  ASSUME LedgerInv, NEW c \in Callers, Send(c)
  PROVE  LedgerInv'
<1>1. PICK outcome \in {"sent", "unknown"} :
        call' = [call EXCEPT ![c].pc = "remember", ![c].outcome = outcome]
  BY DEF Send
<1>2. /\ CallAt(c, "send") /\ call[c].request \in Requests
      /\ UNCHANGED <<results, inProgress, told, forgotten, calls, restarts>>
      /\ call'[c].pc = "remember" /\ call'[c].request = call[c].request
      /\ call'[c].answer = call[c].answer /\ call'[c].found = call[c].found
      /\ \A d \in Callers \ {c} : call'[d] = call[d]
  BY <1>1 DEF Send, LedgerInv, TypeOK, Calls, ledgerVars, boundVars
<1>3. /\ onAir' \in Seq(Requests)
      /\ DOMAIN onAir \subseteq DOMAIN onAir'
      /\ \A i \in DOMAIN onAir : onAir'[i] = onAir[i]
      /\ \A i \in DOMAIN onAir' \ DOMAIN onAir :
           i = Len(onAir) + 1 /\ onAir'[i] = call[c].request
  <2>1. onAir \in Seq(Requests)
    BY DEF LedgerInv, TypeOK
  <2>2. CASE onAir' = Append(onAir, call[c].request)
    BY <1>2, <2>1, <2>2
  <2>3. CASE onAir' = onAir
    BY <2>1, <2>3
  <2> QED
    BY <2>2, <2>3 DEF Send
<1>4. TypeOK'
  <2>1. call' \in [Callers -> Calls]
    BY <1>1 DEF LedgerInv, TypeOK, Calls, CallPC
  <2> QED
    BY <1>2, <1>3, <2>1 DEF LedgerInv, TypeOK
<1>5. MarksAreCallsUnderWay'
  <2>1. \A d \in Callers : CallAt(d, "idle")' <=> CallAt(d, "idle")
    BY <1>2 DEF CallAt
  <2>2. \A d \in Callers : call'[d].request = call[d].request
    BY <1>2
  <2> QED
    BY <1>2, <2>1, <2>2 DEF LedgerInv, MarksAreCallsUnderWay
<1>6. ASSUME NEW i \in DOMAIN onAir', onAir'[i].id = call[c].request.id
      PROVE  i = Len(onAir) + 1 \/ onAir'[i].id \in forgotten
  BY <1>2, <1>3, <1>6 DEF LedgerInv, FirstSend
<1>7. ASSUME NEW d \in Callers, CallAt(d, "send")', NEW i \in DOMAIN onAir',
             onAir'[i].id = call'[d].request.id
      PROVE  onAir'[i].id \in forgotten'
  <2>1. d # c /\ CallAt(d, "send") /\ call'[d] = call[d]
    BY <1>2, <1>7 DEF CallAt
  <2>2. call[d].request.id # call[c].request.id
    BY <1>2, <2>1 DEF LedgerInv, MarksAreCallsUnderWay, CallAt
  <2> QED
    BY <1>2, <1>3, <1>7, <2>1, <2>2 DEF LedgerInv, FirstSend
<1>8. AdmittedIsNew' /\ LeavesResult'
  BY <1>2 DEF LedgerInv, AdmittedIsNew, LeavesResult, Admitted, CallAt, Remembered, Dropped
<1>9. \A r : Known(r) => Known(r)'
  BY <1>2 DEF Known, ToldBy, CallAt
<1>10. IdsDiffer' /\ ResultsKnown'
  BY <1>2, <1>9 DEF LedgerInv, IdsDiffer, ResultsKnown
<1>11. ReplayInv'
  BY <1>2, <1>9 DEF LedgerInv, ReplayInv
<1>12. OnAirRemembered'
  <2>1. call[c].request \in inProgress
    BY <1>2 DEF LedgerInv, MarksAreCallsUnderWay, CallAt
  <2> QED
    BY <1>2, <1>3, <2>1 DEF LedgerInv, OnAirRemembered, Remembered, Dropped
<1>13. OneTransmissionPerId'
  <2> SUFFICES ASSUME NEW i \in DOMAIN onAir', NEW j \in DOMAIN onAir',
                      i # j, onAir'[i].id = onAir'[j].id
               PROVE  onAir'[i].id \in forgotten
    BY <1>2 DEF OneTransmissionPerId
  <2>1. CASE i \in DOMAIN onAir /\ j \in DOMAIN onAir
    BY <1>3, <2>1 DEF LedgerInv, OneTransmissionPerId
  <2>2. CASE ~(i \in DOMAIN onAir /\ j \in DOMAIN onAir)
    BY <1>3, <1>6, <2>2
  <2> QED
    BY <2>1, <2>2
<1> QED
  BY <1>4, <1>5, <1>7, <1>8, <1>10, <1>11, <1>12, <1>13 DEF LedgerInv, FirstSend

(* The result takes its place in the ledger before the mark is removed.    *)
LEMMA RememberingKeeps ==
  ASSUME LedgerInv, NEW c \in Callers, Remember(c)
  PROVE  LedgerInv'
<1> DEFINE result == [request |-> call[c].request, outcome |-> call[c].outcome]
<1>1. /\ results' \in Seq(Results) /\ Len(results') <= Capacity
      /\ IdsDiffer'
      /\ \A i \in DOMAIN results' :
           results'[i] = result \/ \E j \in DOMAIN results : results'[i] = results[j]
      /\ Remembered(call[c].request.id)'
      /\ \A id : Remembered(id) => Remembered(id)' \/ Dropped(id)'
      /\ Len(results) = Capacity => Len(results') = Capacity
      /\ forgotten \subseteq forgotten' /\ forgotten' \subseteq Ids
  BY RememberKeeps DEF LedgerInv
<1>2. /\ CallAt(c, "remember")
      /\ UNCHANGED <<inProgress, onAir, told, calls, restarts>>
      /\ call' = [call EXCEPT ![c].pc = "finally"]
      /\ call'[c] = [call[c] EXCEPT !.pc = "finally"]
      /\ call'[c].pc = "finally" /\ call'[c].request = call[c].request
      /\ call'[c].outcome = call[c].outcome
      /\ call'[c].answer = call[c].answer /\ call'[c].found = call[c].found
      /\ \A d \in Callers \ {c} : call'[d] = call[d]
  BY DEF Remember, CallTo, LedgerInv, TypeOK, Calls, boundVars
<1>3. TypeOK'
  BY <1>1, <1>2 DEF LedgerInv, TypeOK, Calls, CallPC
<1>4. \A id : Dropped(id) => Dropped(id)'
  BY <1>1 DEF Dropped
<1>5. MarksAreCallsUnderWay'
  <2>1. \A d \in Callers : CallAt(d, "idle")' <=> CallAt(d, "idle")
    BY <1>2 DEF CallAt
  <2>2. \A d \in Callers : call'[d].request = call[d].request
    BY <1>2
  <2> QED
    BY <1>2, <2>1, <2>2 DEF LedgerInv, MarksAreCallsUnderWay
<1>6. ASSUME NEW d \in Callers, Admitted(d)'
      PROVE  ~Remembered(call[d].request.id)'
  <2>1. d # c /\ Admitted(d) /\ call'[d] = call[d]
    BY <1>2, <1>6 DEF Admitted, CallAt
  <2>2. call[d].request.id # call[c].request.id
    BY <1>2, <2>1 DEF LedgerInv, MarksAreCallsUnderWay, Admitted, CallAt
  <2>3. \A j \in DOMAIN results : results[j].request.id # call[d].request.id
    BY <2>1 DEF LedgerInv, AdmittedIsNew, Remembered
  <2>4. result.request.id # call[d].request.id
    BY <2>2
  <2> HIDE DEF result
  <2>5. \A i \in DOMAIN results' : results'[i].request.id # call[d].request.id
    BY <1>1, <2>3, <2>4
  <2> QED
    BY <2>1, <2>5 DEF Remembered
<1>7. AdmittedIsNew'
  BY <1>2, <1>6 DEF AdmittedIsNew, Remembered
<1>8. FirstSend' /\ OneTransmissionPerId'
  BY <1>1, <1>2 DEF LedgerInv, FirstSend, OneTransmissionPerId, CallAt
<1>9. LeavesResult'
  BY <1>1, <1>2, <1>4 DEF LedgerInv, LeavesResult, CallAt
<1>10. OnAirRemembered'
  BY <1>1, <1>2, <1>4 DEF LedgerInv, OnAirRemembered
<1>11. \A r : Known(r) => Known(r)'
  BY <1>2 DEF Known, ToldBy, CallAt
<1>12. ResultsKnown'
  <2>1. PICK r : r = result
    OBVIOUS
  <2>2. Known(r)'
    BY <1>2, <2>1 DEF Known, ToldBy, CallAt
  <2> HIDE DEF result
  <2> QED
    BY <1>1, <1>11, <2>1, <2>2 DEF LedgerInv, ResultsKnown
<1>13. ReplayInv'
  BY <1>2, <1>11 DEF LedgerInv, ReplayInv
<1> QED
  BY <1>1, <1>3, <1>5, <1>7, <1>8, <1>9, <1>10, <1>12, <1>13 DEF LedgerInv

(* The mark that goes is the call's own.                                   *)
LEMMA AnswerKeeps ==
  ASSUME LedgerInv, NEW c \in Callers, Answer(c)
  PROVE  LedgerInv'
<1> DEFINE result == [request |-> call[c].request, outcome |-> call[c].outcome]
<1>1. /\ CallAt(c, "finally") /\ result \in Results
      /\ UNCHANGED <<results, onAir, forgotten, calls, restarts>>
      /\ inProgress' = {r \in inProgress : r.id # call[c].request.id}
      /\ told' = told \cup {result}
      /\ call'[c].pc = "idle" /\ call'[c].answer = "result"
      /\ \A d \in Callers \ {c} : call'[d] = call[d]
  BY DEF Answer, Unmark, LedgerInv, TypeOK, Calls, boundVars, Results
<1>2. TypeOK'
  <2>1. call' = [call EXCEPT ![c].pc = "idle", ![c].answer = "result", ![c].found = {result}]
    BY DEF Answer
  <2> HIDE DEF result
  <2>2. call' \in [Callers -> Calls]
    <3>1. [call[c] EXCEPT !.pc = "idle", !.answer = "result", !.found = {result}] \in Calls
      BY <1>1 DEF LedgerInv, TypeOK, Calls, CallPC, Answers
    <3>2. call' = [call EXCEPT ![c] = [call[c] EXCEPT !.pc = "idle", !.answer = "result",
                                                      !.found = {result}]]
      BY <2>1 DEF LedgerInv, TypeOK, Calls
    <3> QED
      BY <3>1, <3>2 DEF LedgerInv, TypeOK
  <2> QED
    BY <1>1, <2>2 DEF LedgerInv, TypeOK
<1> HIDE DEF result
<1>3. \A d \in Callers : CallAt(d, "idle")' <=> d = c \/ CallAt(d, "idle")
  BY <1>1 DEF CallAt
<1>4. ~CallAt(c, "idle")
  BY <1>1 DEF CallAt
<1>5. MarksAreCallsUnderWay'
  <2>1. inProgress = {call[d].request : d \in {e \in Callers : ~CallAt(e, "idle")}}
    BY DEF LedgerInv, MarksAreCallsUnderWay
  <2>2. \A d \in Callers \ {c} : ~CallAt(d, "idle") => call[d].request.id # call[c].request.id
    BY <1>4 DEF LedgerInv, MarksAreCallsUnderWay
  <2>3. \A r : r \in inProgress' <=>
                 \E d \in Callers \ {c} : ~CallAt(d, "idle") /\ r = call[d].request
    BY <1>1, <2>1, <2>2
  <2>4. inProgress' = {call'[d].request : d \in {e \in Callers : ~CallAt(e, "idle")'}}
    BY <1>1, <1>3, <2>3
  <2>5. ASSUME NEW d \in Callers, NEW e \in Callers, d # e,
               ~CallAt(d, "idle")', ~CallAt(e, "idle")'
        PROVE  call'[d].request.id # call'[e].request.id
    BY <1>1, <1>3, <2>5 DEF LedgerInv, MarksAreCallsUnderWay
  <2> QED
    BY <2>4, <2>5 DEF MarksAreCallsUnderWay
<1>6. AdmittedIsNew' /\ FirstSend' /\ LeavesResult'
  BY <1>1 DEF LedgerInv, AdmittedIsNew, FirstSend, LeavesResult, Admitted, CallAt,
     Remembered, Dropped
<1>7. \A r \in Results : Known(r) => Known(r)'
  <2> SUFFICES ASSUME NEW r \in Results, Known(r) PROVE Known(r)'
    OBVIOUS
  <2>1. CASE ToldBy(r, c)
    <3>1. r = result
      BY <2>1 DEF ToldBy, Results, result
    <3> QED
      BY <1>1, <3>1 DEF Known
  <2>2. CASE r \in told \/ \E d \in Callers \ {c} : ToldBy(r, d)
    BY <1>1, <2>2 DEF Known, ToldBy, CallAt
  <2> QED
    BY <2>1, <2>2 DEF Known
<1>8. ResultsKnown' /\ IdsDiffer'
  BY <1>1, <1>7 DEF LedgerInv, TypeOK, ResultsKnown, IdsDiffer
<1>9. ReplayInv'
  <2>1. \A d \in Callers : call[d].found \subseteq Results
    BY DEF LedgerInv, TypeOK, Calls
  <2> QED
    BY <1>1, <1>7, <2>1 DEF LedgerInv, ReplayInv
<1>10. OnAirRemembered' /\ OneTransmissionPerId'
  <2>1. Remembered(call[c].request.id) \/ Dropped(call[c].request.id)
    BY <1>1 DEF LedgerInv, LeavesResult
  <2> QED
    BY <1>1, <2>1 DEF LedgerInv, OnAirRemembered, OneTransmissionPerId, Remembered, Dropped
<1> QED
  BY <1>2, <1>5, <1>6, <1>8, <1>9, <1>10 DEF LedgerInv

-----------------------------------------------------------------------------
(* The conjunction above holds in every state: none of its parts is        *)
(* inductive without the others, since what a call may send depends on what*)
(* is marked, remembered or dropped.                                       *)
THEOREM LedgerInvariant == Spec => []LedgerInv
<1>1. Init => Empty
  <2>1. NoCall = [NoCall EXCEPT !.answer = "none"]
    BY NoCallTyped DEF Calls
  <2> QED
    BY <2>1, LedgerAssumption DEF Init, Empty
<1>2. LedgerInv /\ Restart => Empty'
  <2> SUFFICES ASSUME LedgerInv, Restart PROVE Empty'
    OBVIOUS
  <2>1. calls' \in 0..MaxCalls /\ restarts' \in 0..MaxRestarts
    <3>1. calls \in 0..MaxCalls /\ restarts \in 0..MaxRestarts
      BY DEF LedgerInv, TypeOK
    <3> QED
      BY <3>1, LedgerAssumption DEF Restart
  <2> QED
    BY <2>1 DEF Restart, Empty
<1>3. LedgerInv /\ UNCHANGED vars => LedgerInv'
  BY DEF vars, ledgerVars, boundVars, historyVars, LedgerInv, TypeOK,
     MarksAreCallsUnderWay, IdsDiffer, AdmittedIsNew, FirstSend, LeavesResult, ResultsKnown,
     OnAirRemembered, OneTransmissionPerId, ReplayInv, Known, ToldBy, Remembered, Dropped,
     Admitted, CallAt
<1>4. LedgerInv /\ (\E c \in Callers : Call(c) \/ Proceed(c)) => LedgerInv'
  BY CallKeeps, SendKeeps, RememberingKeeps, AnswerKeeps DEF Proceed
<1>5. [Next]_vars => Restart \/ UNCHANGED vars \/ \E c \in Callers : Call(c) \/ Proceed(c)
  BY DEF Next
<1> QED
  BY <1>1, <1>2, <1>3, <1>4, <1>5, EmptyLedger, PTL DEF Spec

(* Every call and the ledger keep their types, and the ledger its capacity *)
(* (_transmit_result_capacity).                                            *)
THEOREM LedgerTypeCorrect == Spec => []TypeOK
<1>1. LedgerInv => TypeOK
  BY DEF LedgerInv
<1> QED
  BY <1>1, LedgerInvariant, PTL

(* No identifier is sent twice while its result is kept.                   *)
THEOREM NoDoubleTransmission == Spec => []OneTransmissionPerId
<1>1. LedgerInv => OneTransmissionPerId
  BY DEF LedgerInv
<1> QED
  BY <1>1, LedgerInvariant, PTL

(* The finally block removes every mark, and only the call's own.          *)
THEOREM MarksCorrect == Spec => []MarksAreCallsUnderWay
<1>1. LedgerInv => MarksAreCallsUnderWay
  BY DEF LedgerInv
<1> QED
  BY <1>1, LedgerInvariant, PTL

(* What is replayed is what the first call was told.                       *)
THEOREM ReplayCorrect == Spec => []ReplayIsTheFirstResult
<1>1. LedgerInv => ReplayIsTheFirstResult
  BY DEF LedgerInv, ReplayInv, ReplayIsTheFirstResult, Known, ToldBy
<1> QED
  BY <1>1, LedgerInvariant, PTL

(* A transmission is in progress, remembered, or dropped by a full ledger. *)
THEOREM TransmissionsRemembered == Spec => []TransmissionsAreRemembered
<1>1. LedgerInv => TransmissionsAreRemembered
  <2>1. ASSUME NEW id, Remembered(id) PROVE Cached(id) # {}
    BY <2>1, CachedIsRemembered
  <2> QED
    BY <2>1 DEF LedgerInv, OnAirRemembered, TransmissionsAreRemembered, Dropped
<1> QED
  BY <1>1, LedgerInvariant, PTL
=============================================================================
