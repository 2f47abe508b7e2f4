------------------------------ MODULE LiveView ------------------------------
(***************************************************************************)
(* How a browser page keeps up with the workbench model: the event stream  *)
(* of web.py (workbench_events), the page's EventSource, and the refresh   *)
(* of the snapshot (workbench_web/app.js).                                 *)
(*                                                                         *)
(* Events only say that something changed; the page then fetches the whole *)
(* state.  The stream is a coroutine of the event loop, while the receiver *)
(* thread publishes at any moment; its notification becomes a callback     *)
(* that the loop runs later (call_soon_threadsafe).  Connections break,    *)
(* fetches fail, and the process may be restarted with an empty model.     *)
(***************************************************************************)
EXTENDS WorkbenchModel, SequencesExt

CONSTANTS
  MaxRevision,    \* bound: changes of one process
  MaxReceiverChanges,  \* bound: those among them that are no observations
  MaxDisruptions, \* bound: broken connections, failed fetches and restarts
  Restarts        \* whether the process may be restarted

ASSUME LiveViewBoundsAssumption ==
  /\ MaxRevision \in Nat /\ MaxReceiverChanges \in Nat
  /\ MaxDisruptions \in Nat /\ Restarts \in BOOLEAN

VARIABLES
  process,     \* process_instance_id
  stream,      \* the coroutine: pc, revision and the changes to yield
  changed,     \* its asyncio.Event is set
  callbacks,   \* changed.set is scheduled with the loop
  transit,     \* events on their way to the page
  lastEventId, \* EventSource: id of the last event received
  view,        \* the snapshot rendered last: its process and revision
  pending,     \* modelRefreshPending
  frames,      \* callbacks requested for the next animation frame, up to 2
  fetches,     \* fetches under way: modelRefreshBusy says that there is one
  fetchFailed, \* history: the fetch that ended last has failed
  disruptions  \* how much of MaxDisruptions is used

serverVars == <<modelVars, process>>
streamVars == <<stream, changed, callbacks>>
pageVars == <<lastEventId, view, pending, frames, fetches, fetchFailed>>
vars == <<serverVars, streamVars, transit, pageVars, disruptions>>

StreamPC == {"closed", "check", "send", "wait"}
Closed == [pc |-> "closed", revision |-> 0, batch |-> <<>>]

Snapshots == [process : Nat, revision : Nat]
CurrentState == [process |-> process, revision |-> revision]

Fetching == [stage |-> "request"]
Fetched(snapshot) == [stage |-> "answer", snapshot |-> snapshot]

Busy == fetches # <<>>

(* The page has loaded, with a first snapshot of an empty model, and is    *)
(* about to connect.                                                       *)
Init ==
  /\ ModelInit
  /\ process = 0
  /\ stream = Closed /\ changed = FALSE /\ callbacks = FALSE
  /\ transit = <<>> /\ lastEventId = 0
  /\ view = CurrentState
  /\ pending = FALSE /\ frames = 0 /\ fetches = <<>> /\ fetchFailed = FALSE
  /\ disruptions = 0

Disrupt == disruptions < MaxDisruptions /\ disruptions' = disruptions + 1

(* Mutant: a request for another refresh is forgotten.                     *)
MutantFetchEnds(i) == fetches' = RemoveAt(fetches, i) /\ pending' = FALSE

(* The finally block of refreshModel.                                      *)
FetchEnds(i) ==
  /\ fetches' = RemoveAt(fetches, i) \o IF pending THEN <<Fetching>> ELSE <<>>
  /\ pending' = FALSE

-----------------------------------------------------------------------------
(* The process: publishers and its end. *)

(* Mutant: subscribers hear of observations only.                          *)
MutantNotifySubscribers ==
  callbacks' = (callbacks \/ (stream.pc # "closed" /\ journalSequence' # journalSequence))

(* Subscribers are called under the model's lock.                          *)
NotifySubscribers == callbacks' = (callbacks \/ stream.pc # "closed")

ModelChanges ==
  /\ revision < MaxRevision
  /\ ModelNext
  /\ revision' - journalSequence' <= MaxReceiverChanges
  /\ NotifySubscribers
  /\ UNCHANGED <<process, stream, changed, transit, pageVars, disruptions>>

StreamAt(pc) == stream.pc = pc
StreamTo(pc) == stream' = [stream EXCEPT !.pc = pc]
OnlyStreamMoves == UNCHANGED <<serverVars, pageVars, disruptions>>

(* The loop runs the scheduled changed.set.                                *)
RunCallback ==
  /\ callbacks
  /\ callbacks' = FALSE
  /\ changed' = TRUE
  /\ UNCHANGED <<stream, transit>> /\ OnlyStreamMoves

Resync == [kind |-> "resync", revision |-> revision]
Model(r) == [kind |-> "model", revision |-> r]

(* One round of the loop: the event is cleared and model_changes called;   *)
(* then there is something to yield, or the coroutine waits.  It is not    *)
(* suspended in between, so no callback runs there.  A wait ends with the  *)
(* event, or after 15 seconds with a keep-alive.                           *)
ReadChanges ==
  LET answer == ChangesSince(stream.revision)
      batch == IF answer.resync THEN <<Resync>>
               ELSE [i \in DOMAIN answer.changes |-> Model(answer.changes[i])]
  IN  /\ StreamAt("check") \/ StreamAt("wait")
      /\ changed' = FALSE
      /\ stream' = [stream EXCEPT !.batch = batch,
                                  !.pc = IF batch = <<>> THEN "wait" ELSE "send"]
      /\ UNCHANGED <<callbacks, transit>> /\ OnlyStreamMoves

(* Mutant: the stream keeps its revision after a yield.                    *)
MutantSendEvent ==
  /\ StreamAt("send")
  /\ transit' = Append(transit, Head(stream.batch))
  /\ stream' = [stream EXCEPT
       !.batch = Tail(@), !.pc = IF Tail(stream.batch) = <<>> THEN "check" ELSE "send"]
  /\ UNCHANGED <<changed, callbacks>> /\ OnlyStreamMoves

(* Each event of the batch is a yield.                                     *)
SendEvent ==
  /\ StreamAt("send")
  /\ transit' = Append(transit, Head(stream.batch))
  /\ stream' = [stream EXCEPT
       !.revision = Head(stream.batch).revision, !.batch = Tail(@),
       !.pc = IF Tail(stream.batch) = <<>> THEN "check" ELSE "send"]
  /\ UNCHANGED <<changed, callbacks>> /\ OnlyStreamMoves

Disconnected ==
  /\ stream' = Closed /\ changed' = FALSE /\ callbacks' = FALSE /\ transit' = <<>>

(* The connection breaks: what was on its way is lost.                     *)
ConnectionBreaks ==
  /\ Disrupt
  /\ ~StreamAt("closed")
  /\ Disconnected
  /\ UNCHANGED <<serverVars, pageVars>>

(* A fetch that the old process has not answered fails with it.            *)
ProcessRestarts ==
  /\ Restarts
  /\ Disrupt
  /\ process' = process + 1
  /\ revision' = 0 /\ changes' = <<>> /\ receiver' = Stopped
  /\ entries' = <<>> /\ journalSequence' = 0 /\ discarded' = 0
  /\ Disconnected
  /\ IF \E i \in DOMAIN fetches : fetches[i] = Fetching
       THEN fetchFailed' = TRUE /\ \E i \in DOMAIN fetches :
              fetches[i] = Fetching /\ FetchEnds(i)
       ELSE UNCHANGED <<fetches, pending, fetchFailed>>
  /\ UNCHANGED <<lastEventId, view, frames>>

-----------------------------------------------------------------------------
(* The page. *)

OnlyPageMoves == UNCHANGED <<serverVars, streamVars, disruptions>>

(* scheduleModelRefresh.  Any number of callbacks above one has the effect *)
(* of two, see AnimationFrame.                                             *)
ScheduleRefresh ==
  IF pending THEN UNCHANGED <<pending, frames>>
             ELSE pending' = TRUE /\ frames' = IF frames = 0 THEN 1 ELSE 2

(* EventSource connects, at first and again after every break, and sends   *)
(* the last event id.  The page's own after parameter is 0 (connectModel-  *)
(* Stream runs once, with the first snapshot).                             *)
Connect ==
  /\ StreamAt("closed")
  /\ stream' = [pc |-> "check", revision |-> lastEventId, batch |-> <<>>]
  /\ ScheduleRefresh
  /\ UNCHANGED <<serverVars, changed, callbacks, transit, lastEventId, view, fetches,
                 fetchFailed, disruptions>>

ReceiveEvent ==
  /\ transit # <<>>
  /\ lastEventId' = Head(transit).revision
  /\ transit' = Tail(transit)
  /\ ScheduleRefresh
  /\ UNCHANGED <<view, fetches, fetchFailed>> /\ OnlyPageMoves

(* Mutant: a refresh does not wait for the one that is under way.          *)
MutantAnimationFrame ==
  /\ frames > 0 /\ Len(fetches) < 2
  /\ frames' = 0 /\ pending' = FALSE
  /\ fetches' = Append(fetches, Fetching)
  /\ UNCHANGED <<transit, lastEventId, view, fetchFailed>> /\ OnlyPageMoves

(* All callbacks run when the frame is drawn.  Each resets the flag and    *)
(* calls refreshModel: it starts a fetch, or asks for another one after    *)
(* the one that is under way.                                              *)
AnimationFrame ==
  /\ frames > 0
  /\ frames' = 0
  /\ fetches' = IF Busy THEN fetches ELSE <<Fetching>>
  /\ pending' = (Busy \/ frames > 1)
  /\ UNCHANGED <<transit, lastEventId, view, fetchFailed>> /\ OnlyPageMoves

(* The route handler takes the snapshot under the model's lock.            *)
HandleFetch ==
  /\ \E i \in DOMAIN fetches :
       /\ fetches[i] = Fetching
       /\ fetches' = [fetches EXCEPT ![i] = Fetched(CurrentState)]
  /\ UNCHANGED <<transit, lastEventId, view, pending, frames, fetchFailed>>
  /\ OnlyPageMoves

RenderSnapshot ==
  /\ \E i \in DOMAIN fetches :
       /\ fetches[i].stage = "answer"
       /\ view' = fetches[i].snapshot
       /\ FetchEnds(i)
  /\ fetchFailed' = FALSE
  /\ UNCHANGED <<transit, lastEventId, frames>> /\ OnlyPageMoves

(* A failed fetch is shown as an error; nothing asks for it again.         *)
FetchFails ==
  /\ Disrupt
  /\ \E i \in DOMAIN fetches : FetchEnds(i)
  /\ fetchFailed' = TRUE
  /\ UNCHANGED <<serverVars, streamVars, transit, lastEventId, view, frames>>

StreamStep == RunCallback \/ ReadChanges \/ SendEvent

PageStep ==
  Connect \/ ReceiveEvent \/ AnimationFrame \/ HandleFetch \/ RenderSnapshot

Next ==
  ModelChanges \/ StreamStep \/ PageStep
    \/ ConnectionBreaks \/ ProcessRestarts \/ FetchFails

(* The loop keeps running and the browser keeps connecting, receiving and  *)
(* drawing.  Nothing makes the model change or a connection break.         *)
Fairness ==
  /\ WF_vars(RunCallback) /\ WF_vars(ReadChanges) /\ WF_vars(SendEvent)
  /\ WF_vars(Connect) /\ WF_vars(ReceiveEvent) /\ WF_vars(AnimationFrame)
  /\ WF_vars(HandleFetch) /\ WF_vars(RenderSnapshot)

Spec == Init /\ [][Next]_vars /\ Fairness

-----------------------------------------------------------------------------
(* Properties. *)

(* The types of the variables; no run checks them.                        *)
TypeOK ==
  /\ ModelTypeOK
  /\ process \in Nat
  /\ stream.pc \in StreamPC /\ stream.revision \in Nat
  /\ stream.pc = "send" <=> stream.batch # <<>>
  /\ changed \in BOOLEAN /\ callbacks \in BOOLEAN
  /\ lastEventId \in Nat
  /\ view \in Snapshots
  /\ pending \in BOOLEAN /\ frames \in 0..2
  /\ Len(fetches) <= 1 /\ \A i \in DOMAIN fetches : fetches[i].stage \in {"request", "answer"}
  /\ fetchFailed \in BOOLEAN
  /\ disruptions \in 0..MaxDisruptions

(* The stream never sleeps on a change: when it waits and neither its      *)
(* event nor the callback that sets it is there, it has sent everything.   *)
NoLostWakeup ==
  StreamAt("wait") /\ ~changed /\ ~callbacks => stream.revision = revision

(* Events of one connection reach the page in order and without a gap,     *)
(* unless a resync says that there is one.                                 *)
EventsWithoutGap ==
  \A i \in 1..(Len(transit) - 1) :
    \/ transit[i + 1].kind = "resync"
    \/ transit[i + 1].revision = transit[i].revision + 1

(* Within one process, the page never replaces what it shows by something  *)
(* older: answers are not rendered out of order.                           *)
ViewNeverGoesBack ==
  [][view'.process = view.process => view'.revision >= view.revision]_vars

(* When the model has come to rest, the page shows its last state, unless  *)
(* its last fetch has failed: broken connections make no difference.  A    *)
(* restart of the process is noticed in any case.                          *)
ViewCatchesUp ==
  <>[](fetchFailed \/ (view.process = process /\ (process = 0 => view = CurrentState)))

(* "A client must not carry a model revision ... across a changed process  *)
(* identity" (docs/editor-api-v1.md): a page that does not gets to show    *)
(* the last state of the restarted process as well.  It is not so for the  *)
(* page that is shipped (README.md, section 4).                            *)
ViewCatchesUpAfterRestart == <>[](view = CurrentState \/ fetchFailed)

=============================================================================
