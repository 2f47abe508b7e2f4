---------------------------- MODULE LiveViewProofs ----------------------------
(***************************************************************************)
(* The workbench model and the page that follows it, for any retention     *)
(* limits, any number of changes, and any breaks and restarts.             *)
(*                                                                         *)
(* The three invariants of the model are proved of its steps alone first;  *)
(* they give what is known of an answer of changes_since, on which the     *)
(* stream rests.  The page needs only that one fetch is under way at most. *)
(***************************************************************************)
EXTENDS LiveView, TLAPS, FiniteSetTheorems

(* A deque with a maximal length takes an item on its right: it keeps its  *)
(* items in order and ends with the new one.                               *)
LEMMA PushRightKeepsNewest ==
  ASSUME NEW queue \in Seq(Nat), NEW item \in Nat, NEW max \in Nat \ {0},
         Len(queue) <= max, NEW result, result = PushRight(queue, item, max)
  PROVE  /\ result \in Seq(Nat)
         /\ Len(queue) < max => Len(result) = Len(queue) + 1
         /\ Len(queue) = max => Len(result) = max
<1>1. CASE Len(queue) < max
  BY <1>1 DEF PushRight
<1>2. CASE Len(queue) = max
  <2>1. queue # <<>>
    BY <1>2
  <2> QED
    BY <1>2, <2>1 DEF PushRight
<1> QED
  BY <1>1, <1>2

LEMMA PushRightShifts ==
  ASSUME NEW queue \in Seq(Nat), NEW item \in Nat, NEW max \in Nat \ {0},
         Len(queue) <= max, NEW result, result = PushRight(queue, item, max),
         NEW i \in 1..Len(result)
  PROVE  result[i] = IF i = Len(result) THEN item
                     ELSE IF Len(queue) < max THEN queue[i] ELSE queue[i + 1]
<1>1. CASE Len(queue) < max
  BY <1>1 DEF PushRight
<1>2. CASE Len(queue) = max
  <2>1. queue # <<>>
    BY <1>2
  <2>2. result = Append(Tail(queue), item)
    BY <1>2 DEF PushRight
  <2>3. /\ Tail(queue) \in Seq(Nat) /\ Len(Tail(queue)) = max - 1
        /\ \A k \in 1..(max - 1) : Tail(queue)[k] = queue[k + 1]
    BY <1>2, <2>1
  <2>4. Len(result) = max /\ result[max] = item
    BY <1>2, <2>2, <2>3
  <2>5. CASE i < max
    <3>1. i \in 1..(max - 1) /\ result[i] = Tail(queue)[i]
      BY <1>2, <2>2, <2>3, <2>5
    <3> QED
      BY <1>2, <2>3, <2>4, <2>5, <3>1
  <2> QED
    BY <2>4, <2>5
<1> QED
  BY <1>1, <1>2

(* The same on the left: the new item comes first.                         *)
LEMMA PushLeftKeepsNewest ==
  ASSUME NEW queue \in Seq(Nat), NEW item \in Nat, NEW max \in Nat \ {0},
         Len(queue) <= max, NEW result, result = PushLeft(queue, item, max)
  PROVE  /\ result \in Seq(Nat)
         /\ Len(result) = IF Len(queue) < max THEN Len(queue) + 1 ELSE max
         /\ result[1] = item
<1> DEFINE kept == IF Len(queue) < max THEN queue
                   ELSE SubSeq(queue, 1, Len(queue) - 1)
<1>1. /\ kept \in Seq(Nat)
      /\ Len(kept) = IF Len(queue) < max THEN Len(queue) ELSE max - 1
  OBVIOUS
<1>2. result = <<item>> \o kept
  BY DEF PushLeft
<1> HIDE DEF kept
<1> QED
  BY <1>1, <1>2

LEMMA PushLeftShifts ==
  ASSUME NEW queue \in Seq(Nat), NEW item \in Nat, NEW max \in Nat \ {0},
         Len(queue) <= max, NEW result, result = PushLeft(queue, item, max),
         NEW i \in 2..Len(result)
  PROVE  result[i] = queue[i - 1]
<1> DEFINE kept == IF Len(queue) < max THEN queue
                   ELSE SubSeq(queue, 1, Len(queue) - 1)
<1>1. /\ kept \in Seq(Nat)
      /\ \A k \in 1..Len(kept) : kept[k] = queue[k]
  OBVIOUS
<1>2. result = <<item>> \o kept
  BY DEF PushLeft
<1> HIDE DEF kept
<1>3. i - 1 \in 1..Len(kept) /\ result[i] = kept[i - 1]
  BY <1>1, <1>2
<1> QED
  BY <1>1, <1>3

-----------------------------------------------------------------------------
(* The invariants of the model. *)

ModelInv == ModelTypeOK /\ JournalIsNewest /\ ChangesAreNewest

(* An empty model: the constructor, and the process after a restart. *)
LEMMA EmptyModel ==
  ASSUME ModelInit
  PROVE  ModelInv
  BY RetentionAssumption, ViewsAssumption
     DEF ModelInit, ModelInv, ModelTypeOK, JournalIsNewest, ChangesAreNewest

(* The fields keep their types and the deques their limits. *)
LEMMA ModelStepTyped ==
  ASSUME ModelTypeOK, [ModelNext]_modelVars
  PROVE  ModelTypeOK'
<1> USE RetentionAssumption DEF ModelTypeOK
<1>1. ASSUME RecordChange
      PROVE  /\ revision' \in Nat
             /\ changes' \in Seq(Nat) /\ Len(changes') <= ChangeRetention
  <2>1. /\ changes' = PushRight(changes, revision + 1, ChangeRetention)
        /\ changes \in Seq(Nat) /\ revision + 1 \in Nat /\ Len(changes) <= ChangeRetention
        /\ revision' = revision + 1
    BY <1>1 DEF RecordChange
  <2>2. /\ changes' \in Seq(Nat)
        /\ Len(changes) < ChangeRetention => Len(changes') = Len(changes) + 1
        /\ Len(changes) = ChangeRetention => Len(changes') = ChangeRetention
    <3> HIDE DEF ModelTypeOK
    <3> QED
      BY <2>1, PushRightKeepsNewest
  <2> QED
    BY <2>1, <2>2
<1>2. CASE Publish
  <2>1. entries' \in Seq(Nat) /\ Len(entries') <= Retention
    <3>1. /\ Len(entries) <= Retention /\ entries \in Seq(Nat) /\ journalSequence \in Nat
          /\ entries' = PushLeft(entries, journalSequence, Retention)
      BY <1>2 DEF Publish
    <3>2. /\ entries' \in Seq(Nat)
          /\ Len(entries') = IF Len(entries) < Retention THEN Len(entries) + 1 ELSE Retention
      BY <3>1, PushLeftKeepsNewest
    <3> QED
      BY <3>1, <3>2
  <2> QED
    BY <1>1, <1>2, <2>1 DEF Publish
<1>3. ASSUME NEW v \in ReceiverViews, SetReceiverState(v)
      PROVE  ModelTypeOK'
  BY <1>1, <1>3 DEF SetReceiverState, journalVars
<1>4. CASE RecordReceiverMetrics
  BY <1>1, <1>4 DEF RecordReceiverMetrics, journalVars
<1>5. CASE UNCHANGED modelVars
  BY <1>5 DEF modelVars, journalVars
<1> QED
  BY <1>2, <1>3, <1>4, <1>5 DEF ModelNext

(* The journal: a new observation takes the place of the oldest one. *)
LEMMA JournalStep ==
  ASSUME ModelTypeOK, JournalIsNewest, [ModelNext]_modelVars
  PROVE  JournalIsNewest'
<1> USE RetentionAssumption
<1>1. CASE Publish
  <2>0. /\ Len(entries) <= Retention /\ entries \in Seq(Nat) /\ journalSequence \in Nat
        /\ discarded \in Nat
        /\ entries' = PushLeft(entries, journalSequence, Retention)
    BY <1>1 DEF Publish, ModelTypeOK
  <2>1. /\ entries' \in Seq(Nat)
        /\ Len(entries') = IF Len(entries) < Retention THEN Len(entries) + 1
                           ELSE Retention
        /\ entries'[1] = journalSequence
        /\ \A i \in 2..Len(entries') : entries'[i] = entries[i - 1]
    <3>1. /\ entries' \in Seq(Nat)
          /\ Len(entries') = IF Len(entries) < Retention THEN Len(entries) + 1
                             ELSE Retention
          /\ entries'[1] = journalSequence
      BY <2>0, PushLeftKeepsNewest
    <3>2. ASSUME NEW i \in 2..Len(entries')  PROVE  entries'[i] = entries[i - 1]
      BY <2>0, PushLeftShifts
    <3> QED
      BY <3>1, <3>2
  <2>2. discarded' + Len(entries') = journalSequence'
    <3>1. discarded + Len(entries) = journalSequence /\ Len(entries) \in Nat
      BY DEF JournalIsNewest
    <3>2. journalSequence' = journalSequence + 1
      BY <1>1 DEF Publish
    <3>3. CASE Len(entries) < Retention
      <4>1. discarded' = discarded /\ Len(entries') = Len(entries) + 1
        BY <1>1, <2>0, <2>1, <3>3 DEF Publish
      <4> QED
        BY <2>0, <3>1, <3>2, <4>1
    <3>4. CASE Len(entries) = Retention
      <4>1. discarded' = discarded + 1 /\ Len(entries') = Len(entries)
        BY <1>1, <2>0, <2>1, <3>4 DEF Publish
      <4> QED
        BY <2>0, <3>1, <3>2, <4>1
    <3> QED
      BY <2>0, <3>1, <3>3, <3>4
  <2>3. discarded' > 0 => Len(entries') = Retention
    BY <1>1, <2>0, <2>1 DEF Publish, JournalIsNewest
  <2>4. ASSUME NEW i \in 1..Len(entries')
        PROVE  entries'[i] = journalSequence' - i
    <3>1. CASE i = 1
      BY <1>1, <2>0, <2>1, <3>1 DEF Publish
    <3>2. CASE i > 1
      <4>1. i \in 2..Len(entries') /\ i - 1 \in 1..Len(entries)
        BY <2>0, <2>1, <3>2
      <4>2. entries[i - 1] = journalSequence - (i - 1)
        BY <4>1 DEF JournalIsNewest
      <4> QED
        BY <1>1, <2>0, <2>1, <4>1, <4>2 DEF Publish
    <3> QED
      BY <2>0, <2>1, <3>1, <3>2
  <2> QED
    BY <2>2, <2>3, <2>4 DEF JournalIsNewest
<1>2. CASE UNCHANGED journalVars
  BY <1>2 DEF JournalIsNewest, journalVars
<1> QED
  BY <1>1, <1>2 DEF ModelNext, SetReceiverState, RecordReceiverMetrics, modelVars

(* The changes: a new one gets the next number. *)
LEMMA ChangesStep ==
  ASSUME ModelTypeOK, ChangesAreNewest, [ModelNext]_modelVars
  PROVE  ChangesAreNewest'
<1> USE RetentionAssumption
<1>1. CASE RecordChange
  <2>1. /\ changes' = PushRight(changes, revision + 1, ChangeRetention)
        /\ changes \in Seq(Nat) /\ Len(changes) <= ChangeRetention
        /\ revision \in Nat /\ revision' = revision + 1
    BY <1>1 DEF RecordChange, ModelTypeOK
  <2>2. /\ changes' \in Seq(Nat)
        /\ Len(changes) < ChangeRetention => Len(changes') = Len(changes) + 1
        /\ Len(changes) = ChangeRetention => Len(changes') = ChangeRetention
    BY <2>1, PushRightKeepsNewest
  <2>3. ASSUME NEW i \in 1..Len(changes')
        PROVE  changes'[i] = IF i = Len(changes') THEN revision + 1
                             ELSE IF Len(changes) < ChangeRetention
                                  THEN changes[i] ELSE changes[i + 1]
    BY <2>1, PushRightShifts
  <2>4. Len(changes') <= revision' /\ changes' # <<>>
    BY <2>1, <2>2 DEF ChangesAreNewest
  <2>5. ASSUME NEW i \in 1..Len(changes')
        PROVE  changes'[i] = revision' - Len(changes') + i
    <3>1. CASE i = Len(changes')
      BY <2>1, <2>2, <2>3, <3>1
    <3>2. CASE i < Len(changes') /\ Len(changes) < ChangeRetention
      <4>1. i \in 1..Len(changes) /\ changes'[i] = changes[i] /\ Len(changes') = Len(changes) + 1
        BY <2>1, <2>2, <2>3, <3>2
      <4>2. changes[i] = revision - Len(changes) + i
        BY <4>1 DEF ChangesAreNewest
      <4> QED
        BY <2>1, <4>1, <4>2
    <3>3. CASE i < Len(changes') /\ Len(changes) = ChangeRetention
      <4>1. /\ i + 1 \in 1..Len(changes) /\ changes'[i] = changes[i + 1]
            /\ Len(changes') = Len(changes)
        BY <2>1, <2>2, <2>3, <3>3
      <4>2. changes[i + 1] = revision - Len(changes) + (i + 1)
        BY <4>1 DEF ChangesAreNewest
      <4> QED
        BY <2>1, <4>1, <4>2
    <3> QED
      BY <2>1, <2>2, <3>1, <3>2, <3>3
  <2> QED
    BY <2>4, <2>5 DEF ChangesAreNewest
<1>2. CASE UNCHANGED <<revision, changes>>
  BY <1>2 DEF ChangesAreNewest
<1> QED
  BY <1>1, <1>2 DEF ModelNext, Publish, SetReceiverState, RecordReceiverMetrics, modelVars

LEMMA ModelStep ==
  ASSUME ModelInv, [ModelNext]_modelVars
  PROVE  ModelInv'
  BY ModelStepTyped, JournalStep, ChangesStep DEF ModelInv

(* The model alone keeps its fields typed, neither deque outgrows its      *)
(* limit (WorkbenchModel.__init__), the journal holds the newest           *)
(* observations (publish) and the changes are the newest ones, numbered    *)
(* without a hole (_record_change_unlocked).                               *)
THEOREM ModelCorrect == ModelSpec => [](ModelTypeOK /\ JournalIsNewest /\ ChangesAreNewest)
<1>1. ModelInit => ModelInv
  BY EmptyModel
<1>2. ModelInv /\ [ModelNext]_modelVars => ModelInv'
  BY ModelStep
<1>3. ModelInv => ModelTypeOK /\ JournalIsNewest /\ ChangesAreNewest
  BY DEF ModelInv
<1> QED
  BY <1>1, <1>2, <1>3, PTL DEF ModelSpec

-----------------------------------------------------------------------------
(* What an answer of changes_since says. *)

LEMMA AnswerLeadsOn ==
  ASSUME ModelInv, NEW r \in Nat
  PROVE  LET newer == ChangesSince(r).changes
         IN  /\ newer \in Seq(Nat)
             /\ ~MustResync(r) =>
                  /\ \A i \in 1..Len(newer) : newer[i] = r + i
                  /\ newer = <<>> => r = revision
<1> DEFINE older == {i \in DOMAIN changes : changes[i] <= r}
           newer == SubSeq(changes, Cardinality(older) + 1, Len(changes))
<1>1. /\ revision \in Nat /\ changes \in Seq(Nat) /\ Len(changes) \in Nat
      /\ DOMAIN changes = 1..Len(changes)
      /\ \A i \in 1..Len(changes) : changes[i] = revision - Len(changes) + i
      /\ Len(changes) <= revision
      /\ revision > 0 => changes # <<>>
  BY DEF ModelInv, ModelTypeOK, ChangesAreNewest
<1>2. CASE MustResync(r)
  BY <1>2 DEF ChangesSince
<1>3. CASE ~MustResync(r)
  <2> DEFINE n == r - (revision - Len(changes))
  <2>1. n \in 0..Len(changes)
    <3>1. r <= revision /\ r >= OldestReplayable
      BY <1>1, <1>3 DEF MustResync, OldestReplayable
    <3>2. CASE changes # <<>>
      <4>1. Head(changes) = revision - Len(changes) + 1
        BY <1>1, <3>2
      <4> QED
        BY <1>1, <3>1, <3>2, <4>1 DEF OldestReplayable
    <3>3. CASE changes = <<>>
      BY <1>1, <3>1, <3>3 DEF OldestReplayable
    <3> QED
      BY <3>2, <3>3
  <2>2. older = 1..n
    BY <1>1, <2>1
  <2>3. Cardinality(older) = n
    <3> HIDE DEF n, older
    <3>1. Cardinality(1..n) = IF 1 > n THEN 0 ELSE n - 1 + 1
      BY <2>1, FS_Interval
    <3> QED
      BY <1>1, <2>1, <2>2, <3>1
  <2>4. ChangesSince(r).changes = newer
    BY <1>3 DEF ChangesSince
  <2> HIDE DEF older
  <2>5. /\ newer \in Seq(Nat) /\ Len(newer) = Len(changes) - n
        /\ \A i \in 1..Len(newer) : newer[i] = changes[n + i]
    BY <1>1, <2>1, <2>3
  <2> HIDE DEF newer
  <2>6. ASSUME NEW i \in 1..Len(newer)  PROVE  newer[i] = r + i
    <3>1. n + i \in 1..Len(changes) /\ newer[i] = changes[n + i]
      BY <1>1, <2>1, <2>5
    <3>2. changes[n + i] = revision - Len(changes) + (n + i)
      BY <1>1, <3>1
    <3> QED
      BY <1>1, <3>1, <3>2
  <2>7. newer = <<>> => r = revision
    BY <1>1, <2>1, <2>5
  <2> QED
    BY <2>4, <2>5, <2>6, <2>7
<1> QED
  BY <1>2, <1>3

-----------------------------------------------------------------------------
(* The event stream. *)

Events == [kind : {"resync", "model"}, revision : Nat]

(* What the coroutine has still to yield leads on from what it yielded: the*)
(* next changes, or one resync.                                            *)
BatchInv ==
  /\ stream \in [pc : StreamPC, revision : Nat, batch : Seq(Events)]
  /\ stream.pc = "send" <=> stream.batch # <<>>
  /\ \A i \in 1..Len(stream.batch) :
       \/ stream.batch[i].revision = stream.revision + i
       \/ stream.batch[i].kind = "resync" /\ Len(stream.batch) = 1

(* What is on its way ends with what was yielded last.                     *)
TransitInv ==
  /\ transit \in Seq(Events)
  /\ stream.pc = "closed" => transit = <<>>
  /\ transit # <<>> => transit[Len(transit)].revision = stream.revision
  /\ EventsWithoutGap

StreamInv ==
  /\ BatchInv /\ TransitInv /\ NoLostWakeup
  /\ lastEventId \in Nat

(* The page: what it shows is no newer than the answer it waits for, and   *)
(* that no newer than the model.                                           *)
NotNewer(s, t) == s.process <= t.process /\ (s.process = t.process => s.revision <= t.revision)

ViewInv ==
  /\ process \in Nat /\ view \in Snapshots /\ NotNewer(view, CurrentState)
  /\ fetches \in Seq({Fetching} \cup {Fetched(s) : s \in Snapshots}) /\ Len(fetches) <= 1
  /\ \A i \in 1..Len(fetches) : fetches[i].stage = "answer" =>
       /\ NotNewer(view, fetches[i].snapshot)
       /\ NotNewer(fetches[i].snapshot, CurrentState)

LiveInv == ModelInv /\ StreamInv /\ ViewInv

-----------------------------------------------------------------------------
(* Steps that leave a part alone. *)

LEMMA SameModel ==
  ASSUME ModelInv, UNCHANGED serverVars
  PROVE  ModelInv'
  BY ModelStep DEF serverVars

LEMMA SameStream ==
  ASSUME StreamInv, UNCHANGED <<serverVars, streamVars, transit, lastEventId>>
  PROVE  StreamInv'
  BY DEF serverVars, modelVars, streamVars, StreamInv, BatchInv, TransitInv, NoLostWakeup,
         EventsWithoutGap, StreamAt

LEMMA SameView ==
  ASSUME ViewInv, UNCHANGED <<process, revision, view, fetches>>
  PROVE  ViewInv'
  BY DEF ViewInv, CurrentState

-----------------------------------------------------------------------------
(* The stream. *)

(* A change while the stream waits leaves a callback behind (the lambda    *)
(* that workbench_events subscribes with).                                 *)
LEMMA ModelChangesStream ==
  ASSUME StreamInv, ModelChanges
  PROVE  StreamInv'
<1>1. UNCHANGED <<stream, changed, transit, lastEventId>>
  BY DEF ModelChanges, pageVars
<1>2. BatchInv' /\ TransitInv' /\ lastEventId' \in Nat
  BY <1>1 DEF StreamInv, BatchInv, TransitInv, EventsWithoutGap
<1>3. NoLostWakeup'
  BY <1>1 DEF ModelChanges, NotifySubscribers, NoLostWakeup, StreamAt
<1> QED
  BY <1>2, <1>3 DEF StreamInv

LEMMA RunCallbackStream ==
  ASSUME StreamInv, RunCallback
  PROVE  StreamInv'
<1>1. UNCHANGED <<stream, transit, lastEventId>>
  BY DEF RunCallback, OnlyStreamMoves, pageVars
<1>2. BatchInv' /\ TransitInv' /\ lastEventId' \in Nat
  BY <1>1 DEF StreamInv, BatchInv, TransitInv, EventsWithoutGap
<1>3. NoLostWakeup'
  BY DEF RunCallback, NoLostWakeup
<1> QED
  BY <1>2, <1>3 DEF StreamInv

(* One round of the loop: it waits only when there is nothing to yield.    *)
LEMMA ReadChangesStream ==
  ASSUME ModelInv, StreamInv, ReadChanges
  PROVE  StreamInv'
<1> DEFINE r == stream.revision
           newer == ChangesSince(r).changes
           models == [i \in DOMAIN newer |-> Model(newer[i])]
           batch == IF ChangesSince(r).resync THEN <<Resync>> ELSE models
<1>1. /\ UNCHANGED <<transit, lastEventId, revision>>
      /\ StreamAt("check") \/ StreamAt("wait")
      /\ stream' = [stream EXCEPT !.batch = batch,
                                  !.pc = IF batch = <<>> THEN "wait" ELSE "send"]
  BY DEF ReadChanges, OnlyStreamMoves, serverVars, modelVars, pageVars
<1>2. /\ r \in Nat /\ revision \in Nat
      /\ stream \in [pc : StreamPC, revision : Nat, batch : Seq(Events)]
  BY DEF StreamInv, BatchInv, ModelInv, ModelTypeOK
<1>3. ChangesSince(r).resync = MustResync(r)
  BY DEF ChangesSince
<1>4. /\ newer \in Seq(Nat)
      /\ ~MustResync(r) => \A i \in 1..Len(newer) : newer[i] = r + i
      /\ ~MustResync(r) /\ newer = <<>> => r = revision
  BY <1>2, AnswerLeadsOn
<1> HIDE DEF r, newer
<1>5. CASE MustResync(r)
  <2>1. batch = <<Resync>> /\ Resync \in Events /\ Resync.kind = "resync"
    BY <1>2, <1>3, <1>5 DEF Resync, Events
  <2> HIDE DEF batch
  <2>2. /\ batch \in Seq(Events) /\ Len(batch) = 1 /\ batch # <<>>
        /\ batch[1].kind = "resync"
    BY <2>1
  <2>3. stream' = [stream EXCEPT !.batch = batch, !.pc = "send"]
    BY <1>1, <2>2 DEF batch
  <2>4. /\ stream' \in [pc : StreamPC, revision : Nat, batch : Seq(Events)]
        /\ stream'.pc = "send" /\ stream'.revision = r /\ stream'.batch = batch
    BY <1>2, <2>2, <2>3 DEF StreamPC, r
  <2>5. \A i \in 1..Len(batch) : batch[i].kind = "resync" /\ Len(batch) = 1
    BY <2>2
  <2>6. BatchInv'
    BY <2>2, <2>4, <2>5 DEF BatchInv
  <2>7. TransitInv'
    BY <1>1, <2>4 DEF StreamInv, TransitInv, EventsWithoutGap, r
  <2>8. NoLostWakeup'
    BY <2>4 DEF NoLostWakeup, StreamAt
  <2> QED
    BY <1>1, <2>6, <2>7, <2>8 DEF StreamInv
<1>6. CASE ~MustResync(r)
  <2>1. batch = models
    BY <1>3, <1>6
  <2>2. /\ models \in Seq(Events) /\ Len(models) = Len(newer)
        /\ \A i \in 1..Len(models) : models[i].revision = r + i
        /\ models = <<>> => r = revision
    <3>1. /\ DOMAIN newer = 1..Len(newer) /\ Len(newer) \in Nat
          /\ \A i \in 1..Len(newer) : newer[i] \in Nat
      BY <1>4
    <3>2. \A i \in 1..Len(newer) : Model(newer[i]) \in Events /\ Model(newer[i]).revision = newer[i]
      BY <3>1 DEF Model, Events
    <3>3. \A i \in 1..Len(newer) : models[i] = Model(newer[i])
      BY <3>1
    <3>4. models \in Seq(Events) /\ Len(models) = Len(newer)
      BY <3>1, <3>2
    <3> HIDE DEF models
    <3>5. \A i \in 1..Len(models) : models[i].revision = r + i
      <4>1. \A i \in 1..Len(newer) : newer[i] = r + i
        BY <1>4, <1>6
      <4> QED
        BY <3>2, <3>3, <3>4, <4>1
    <3>6. models = <<>> => r = revision
      <4>1. models = <<>> => newer = <<>>
        BY <1>4, <3>4
      <4> QED
        BY <1>4, <1>6, <4>1
    <3> QED
      BY <3>4, <3>5, <3>6
  <2> HIDE DEF models
  <2>3. stream' = [stream EXCEPT !.batch = models,
                                 !.pc = IF models = <<>> THEN "wait" ELSE "send"]
    BY <1>1, <2>1
  <2>4. /\ stream' \in [pc : StreamPC, revision : Nat, batch : Seq(Events)]
        /\ stream'.pc = IF models = <<>> THEN "wait" ELSE "send"
        /\ stream'.revision = r /\ stream'.batch = models
    BY <1>2, <2>2, <2>3 DEF StreamPC, r
  <2>5. BatchInv'
    BY <2>2, <2>4 DEF BatchInv
  <2>6. TransitInv'
    BY <1>1, <2>4 DEF StreamInv, TransitInv, EventsWithoutGap, r
  <2>7. NoLostWakeup'
    BY <1>1, <2>2, <2>4 DEF NoLostWakeup, StreamAt
  <2> QED
    BY <1>1, <2>5, <2>6, <2>7 DEF StreamInv
<1> QED
  BY <1>5, <1>6

(* A yield follows on what is on its way. *)
LEMMA SendEventStream ==
  ASSUME StreamInv, SendEvent
  PROVE  StreamInv'
<1> DEFINE batch == stream.batch
           event == Head(batch)
<1>1. /\ UNCHANGED lastEventId /\ transit' = Append(transit, event)
      /\ stream' = [stream EXCEPT !.revision = event.revision, !.batch = Tail(batch),
                                  !.pc = IF Tail(batch) = <<>> THEN "check" ELSE "send"]
  BY DEF SendEvent, OnlyStreamMoves, pageVars
<1>2. /\ stream \in [pc : StreamPC, revision : Nat, batch : Seq(Events)]
      /\ batch \in Seq(Events) /\ batch # <<>> /\ stream.revision \in Nat
      /\ transit \in Seq(Events)
      /\ transit # <<>> => transit[Len(transit)].revision = stream.revision
      /\ \A i \in 1..Len(batch) :
           \/ batch[i].revision = stream.revision + i
           \/ batch[i].kind = "resync" /\ Len(batch) = 1
  BY DEF StreamInv, BatchInv, TransitInv, SendEvent, StreamAt
<1> HIDE DEF batch
<1>3. /\ event = batch[1] /\ event \in Events
      /\ Tail(batch) \in Seq(Events) /\ Len(Tail(batch)) = Len(batch) - 1
      /\ \A i \in 1..Len(Tail(batch)) : Tail(batch)[i] = batch[i + 1]
      /\ Len(batch) \in Nat \ {0}
  BY <1>2
<1>4. event.revision \in Nat /\ (event.revision = stream.revision + 1 \/ event.kind = "resync")
  BY <1>2, <1>3 DEF Events
<1> HIDE DEF event
<1>5. /\ stream' \in [pc : StreamPC, revision : Nat, batch : Seq(Events)]
      /\ stream'.pc = IF Tail(batch) = <<>> THEN "check" ELSE "send"
      /\ stream'.revision = event.revision /\ stream'.batch = Tail(batch)
  BY <1>1, <1>2, <1>3, <1>4 DEF StreamPC
<1>6. ASSUME NEW i \in 1..Len(Tail(batch))
      PROVE  Tail(batch)[i].revision = event.revision + i
  <2>1. i + 1 \in 1..Len(batch) /\ Len(batch) # 1 /\ 1 \in 1..Len(batch)
    BY <1>3
  <2>2. batch[i + 1].revision = stream.revision + (i + 1) /\ event.revision = stream.revision + 1
    BY <1>2, <1>3, <2>1
  <2> QED
    BY <1>2, <1>3, <2>2
<1>7. BatchInv'
  BY <1>5, <1>6 DEF BatchInv
<1>8. /\ transit' \in Seq(Events) /\ Len(transit') = Len(transit) + 1 /\ Len(transit) \in Nat
      /\ transit'[Len(transit) + 1] = event
      /\ \A i \in 1..Len(transit) : transit'[i] = transit[i]
  BY <1>1, <1>2, <1>3
<1>9. ASSUME NEW i \in 1..(Len(transit') - 1)
      PROVE  transit'[i + 1].kind = "resync" \/ transit'[i + 1].revision = transit'[i].revision + 1
  <2>1. CASE i < Len(transit)
    <3>1. /\ i \in 1..(Len(transit) - 1) /\ transit'[i] = transit[i]
          /\ transit'[i + 1] = transit[i + 1]
      BY <1>8, <2>1
    <3> QED
      BY <3>1 DEF StreamInv, TransitInv, EventsWithoutGap
  <2>2. CASE i = Len(transit)
    BY <1>2, <1>4, <1>8, <2>2
  <2> QED
    BY <1>8, <2>1, <2>2
<1>10. TransitInv'
  BY <1>5, <1>8, <1>9 DEF TransitInv, EventsWithoutGap
<1>11. NoLostWakeup'
  BY <1>5 DEF NoLostWakeup, StreamAt
<1> QED
  BY <1>1, <1>7, <1>10, <1>11 DEF StreamInv

(* A connection that ends takes what was on its way with it. *)
LEMMA DisconnectedStream ==
  ASSUME StreamInv, Disconnected, UNCHANGED lastEventId
  PROVE  StreamInv'
<1>1. stream' = Closed /\ transit' = <<>>
  BY DEF Disconnected
<1>2. BatchInv'
  BY <1>1 DEF Closed, BatchInv, StreamPC
<1>3. TransitInv' /\ NoLostWakeup'
  BY <1>1 DEF Closed, TransitInv, EventsWithoutGap, NoLostWakeup, StreamAt
<1> QED
  BY <1>2, <1>3 DEF StreamInv

LEMMA ConnectStream ==
  ASSUME StreamInv, Connect
  PROVE  StreamInv'
<1>1. /\ stream' = [pc |-> "check", revision |-> lastEventId, batch |-> <<>>]
      /\ transit' = <<>> /\ lastEventId' \in Nat /\ lastEventId \in Nat
  BY DEF Connect, StreamInv, TransitInv, StreamAt
<1>2. BatchInv'
  BY <1>1 DEF BatchInv, StreamPC
<1>3. TransitInv' /\ NoLostWakeup'
  BY <1>1 DEF TransitInv, EventsWithoutGap, NoLostWakeup, StreamAt
<1> QED
  BY <1>1, <1>2, <1>3 DEF StreamInv

LEMMA ReceiveEventStream ==
  ASSUME StreamInv, ReceiveEvent
  PROVE  StreamInv'
<1>1. /\ UNCHANGED <<stream, changed, callbacks, revision>>
      /\ transit # <<>> /\ transit' = Tail(transit) /\ lastEventId' = Head(transit).revision
  BY DEF ReceiveEvent, OnlyPageMoves, serverVars, modelVars, streamVars
<1>2. transit \in Seq(Events)
  BY DEF StreamInv, TransitInv
<1>3. /\ transit' \in Seq(Events) /\ Len(transit') = Len(transit) - 1 /\ Len(transit) \in Nat \ {0}
      /\ \A i \in 1..Len(transit') : transit'[i] = transit[i + 1]
      /\ Head(transit) \in Events
  BY <1>1, <1>2
<1>4. lastEventId' \in Nat
  BY <1>1, <1>3 DEF Events
<1>5. EventsWithoutGap'
  BY <1>3 DEF StreamInv, TransitInv, EventsWithoutGap
<1>6. transit' # <<>> => transit'[Len(transit')] = transit[Len(transit)]
  BY <1>3
<1>7. TransitInv'
  BY <1>1, <1>3, <1>5, <1>6 DEF StreamInv, TransitInv
<1>8. BatchInv' /\ NoLostWakeup'
  BY <1>1 DEF StreamInv, BatchInv, NoLostWakeup, StreamAt
<1> QED
  BY <1>4, <1>7, <1>8 DEF StreamInv

-----------------------------------------------------------------------------
(* The page. *)

ViewStep == view'.process = view.process => view'.revision >= view.revision

Fetches == {Fetching} \cup {Fetched(s) : s \in Snapshots}

LEMMA FetchTyped ==
  /\ Fetching \in Fetches /\ Fetching.stage = "request"
  /\ \A s \in Snapshots : /\ Fetched(s) \in Fetches /\ Fetched(s).stage = "answer"
                          /\ Fetched(s).snapshot = s
  /\ \A f \in Fetches : f.stage = "answer" => f.snapshot \in Snapshots
<1>1. Fetching \in Fetches /\ Fetching.stage = "request"
  BY DEF Fetches, Fetching
<1>2. ASSUME NEW s \in Snapshots
      PROVE  Fetched(s) \in Fetches /\ Fetched(s).stage = "answer" /\ Fetched(s).snapshot = s
  BY DEF Fetches, Fetched
<1>3. ASSUME NEW f \in Fetches, f.stage = "answer"
      PROVE  f.snapshot \in Snapshots
  <2>1. f # Fetching
    BY <1>1, <1>3
  <2>2. PICK s \in Snapshots : f = Fetched(s)
    BY <2>1 DEF Fetches
  <2> QED
    BY <1>2, <2>2
<1> QED
  BY <1>1, <1>2, <1>3

LEMMA Lexicographic ==
  /\ \A s \in Snapshots : NotNewer(s, s)
  /\ \A s, t, u \in Snapshots : NotNewer(s, t) /\ NotNewer(t, u) => NotNewer(s, u)
  /\ \A s, t \in Snapshots : NotNewer(s, t) /\ t.process = s.process => t.revision >= s.revision
  BY DEF Snapshots, NotNewer

(* A fetch that ends leaves at most a new one, which has no answer yet.    *)
LEMMA FetchEndsLeaves ==
  ASSUME ViewInv, NEW i \in DOMAIN fetches, FetchEnds(i)
  PROVE  /\ fetches' \in Seq(Fetches) /\ Len(fetches') <= 1
         /\ \A k \in 1..Len(fetches') : fetches'[k] = Fetching
<1>1. fetches \in Seq(Fetches) /\ Len(fetches) <= 1
  BY DEF ViewInv, Fetches
<1>2. Len(fetches) = 1 /\ i = 1
  BY <1>1
<1>3. RemoveAt(fetches, i) = <<>>
  BY <1>1, <1>2 DEF RemoveAt
<1>4. fetches' = <<>> \/ fetches' = <<Fetching>>
  BY <1>3 DEF FetchEnds
<1>5. CASE fetches' = <<>>
  BY <1>5
<1>6. CASE fetches' = <<Fetching>>
  BY <1>6, FetchTyped
<1> QED
  BY <1>4, <1>5, <1>6

(* Neither the model nor the process runs backwards. *)
LEMMA ServerMovesOn ==
  ASSUME ViewInv, UNCHANGED <<view, fetches>>, CurrentState' \in Snapshots,
         CurrentState \in Snapshots, NotNewer(CurrentState, CurrentState'), process' \in Nat
  PROVE  ViewInv'
<1>1. NotNewer(view', CurrentState')
  BY Lexicographic DEF ViewInv
<1>2. ASSUME NEW i \in 1..Len(fetches), fetches[i].stage = "answer"
      PROVE  NotNewer(fetches[i].snapshot, CurrentState')
  <2>1. fetches[i] \in Fetches
    BY DEF ViewInv, Fetches
  <2>2. fetches[i].snapshot \in Snapshots /\ NotNewer(fetches[i].snapshot, CurrentState)
    BY <1>2, <2>1, FetchTyped DEF ViewInv
  <2> QED
    BY <2>2, Lexicographic
<1> QED
  BY <1>1, <1>2 DEF ViewInv

LEMMA CurrentTyped ==
  ASSUME ModelInv, ViewInv
  PROVE  CurrentState \in Snapshots /\ CurrentState.process = process
         /\ CurrentState.revision = revision
  BY DEF CurrentState, Snapshots, ModelInv, ModelTypeOK, ViewInv

LEMMA ModelChangesView ==
  ASSUME ModelInv, ViewInv, ModelChanges
  PROVE  ViewInv'
<1>1. /\ UNCHANGED <<view, fetches, process>> /\ revision' = revision + 1
      /\ revision \in Nat /\ process \in Nat
  BY DEF ModelChanges, ModelNext, Publish, SetReceiverState, RecordReceiverMetrics, RecordChange,
         pageVars, ViewInv, ModelInv, ModelTypeOK
<1>2. CurrentState' \in Snapshots /\ NotNewer(CurrentState, CurrentState')
  BY <1>1 DEF CurrentState, Snapshots, NotNewer
<1> QED
  BY <1>1, <1>2, CurrentTyped, ServerMovesOn

LEMMA ProcessRestartsView ==
  ASSUME ModelInv, ViewInv, ProcessRestarts
  PROVE  ViewInv'
<1>1. /\ UNCHANGED view /\ process' = process + 1 /\ revision' = 0
      /\ revision \in Nat /\ process \in Nat
  BY DEF ProcessRestarts, ViewInv, ModelInv, ModelTypeOK
<1>2. /\ CurrentState' \in Snapshots /\ NotNewer(CurrentState, CurrentState')
      /\ process' \in Nat
  BY <1>1 DEF CurrentState, Snapshots, NotNewer
<1>3. CASE UNCHANGED fetches
  BY <1>1, <1>2, <1>3, CurrentTyped, ServerMovesOn
<1>4. CASE \E i \in DOMAIN fetches : FetchEnds(i)
  <2>1. /\ fetches' \in Seq(Fetches) /\ Len(fetches') <= 1
        /\ \A k \in 1..Len(fetches') : fetches'[k].stage # "answer"
    BY <1>4, FetchEndsLeaves, FetchTyped
  <2>2. view' \in Snapshots /\ NotNewer(view', CurrentState')
    BY <1>1, <1>2, CurrentTyped, Lexicographic DEF ViewInv
  <2> QED
    BY <1>2, <2>1, <2>2 DEF ViewInv, Fetches
<1> QED
  BY <1>3, <1>4 DEF ProcessRestarts

LEMMA AnimationFrameView ==
  ASSUME ViewInv, AnimationFrame
  PROVE  ViewInv'
<1>1. UNCHANGED <<process, revision, view>>
  BY DEF AnimationFrame, OnlyPageMoves, serverVars, modelVars
<1>2. fetches' = fetches \/ fetches' = <<Fetching>>
  BY DEF AnimationFrame
<1>3. CASE fetches' = <<Fetching>>
  <2>1. /\ fetches' \in Seq(Fetches) /\ Len(fetches') <= 1
        /\ \A k \in 1..Len(fetches') : fetches'[k].stage # "answer"
    BY <1>3, FetchTyped
  <2> QED
    BY <1>1, <2>1 DEF ViewInv, Fetches, CurrentState
<1> QED
  BY <1>1, <1>2, <1>3, SameView

LEMMA HandleFetchView ==
  ASSUME ModelInv, ViewInv, HandleFetch
  PROVE  ViewInv'
<1>1. UNCHANGED <<process, revision, view>>
  BY DEF HandleFetch, OnlyPageMoves, serverVars, modelVars
<1>2. PICK i \in DOMAIN fetches : fetches' = [fetches EXCEPT ![i] = Fetched(CurrentState)]
  BY DEF HandleFetch
<1>3. /\ fetches \in Seq(Fetches) /\ Len(fetches) <= 1
      /\ CurrentState \in Snapshots /\ Fetched(CurrentState) \in Fetches
      /\ Fetched(CurrentState).snapshot = CurrentState
  BY CurrentTyped, FetchTyped DEF ViewInv, Fetches
<1>4. /\ fetches' \in Seq(Fetches) /\ Len(fetches') <= 1
      /\ \A k \in 1..Len(fetches') : fetches'[k] = Fetched(CurrentState)
  BY <1>2, <1>3
<1>5. NotNewer(view, CurrentState) /\ NotNewer(CurrentState, CurrentState)
  BY <1>3, Lexicographic DEF ViewInv
<1>6. CurrentState' = CurrentState
  BY <1>1 DEF CurrentState
<1> QED
  BY <1>1, <1>3, <1>4, <1>5, <1>6 DEF ViewInv, Fetches

LEMMA RenderSnapshotView ==
  ASSUME ModelInv, ViewInv, RenderSnapshot
  PROVE  ViewInv' /\ ViewStep
<1>1. UNCHANGED <<process, revision>>
  BY DEF RenderSnapshot, OnlyPageMoves, serverVars, modelVars
<1>2. PICK i \in DOMAIN fetches :
        fetches[i].stage = "answer" /\ view' = fetches[i].snapshot /\ FetchEnds(i)
  BY DEF RenderSnapshot
<1>3. /\ fetches[i] \in Fetches /\ i \in 1..Len(fetches)
  BY DEF ViewInv, Fetches
<1>4. /\ view' \in Snapshots /\ NotNewer(view, view') /\ NotNewer(view', CurrentState)
      /\ view \in Snapshots
  BY <1>2, <1>3, FetchTyped DEF ViewInv
<1>5. /\ fetches' \in Seq(Fetches) /\ Len(fetches') <= 1
      /\ \A k \in 1..Len(fetches') : fetches'[k].stage # "answer"
  BY <1>2, FetchEndsLeaves, FetchTyped
<1>6. CurrentState' = CurrentState
  BY <1>1 DEF CurrentState
<1>7. ViewInv'
  BY <1>1, <1>4, <1>5, <1>6 DEF ViewInv, Fetches
<1>8. ViewStep
  BY <1>4, Lexicographic DEF ViewStep
<1> QED
  BY <1>7, <1>8

LEMMA FetchFailsView ==
  ASSUME ViewInv, FetchFails
  PROVE  ViewInv'
<1>1. UNCHANGED <<process, revision, view>>
  BY DEF FetchFails, serverVars, modelVars
<1>2. /\ fetches' \in Seq(Fetches) /\ Len(fetches') <= 1
      /\ \A k \in 1..Len(fetches') : fetches'[k].stage # "answer"
  BY FetchEndsLeaves, FetchTyped DEF FetchFails
<1> QED
  BY <1>1, <1>2 DEF ViewInv, Fetches, CurrentState

-----------------------------------------------------------------------------
(* Every step. *)

LEMMA RestartedModel ==
  ASSUME ProcessRestarts
  PROVE  ModelInv'
  BY RetentionAssumption, ViewsAssumption
     DEF ProcessRestarts, ModelInv, ModelTypeOK, JournalIsNewest, ChangesAreNewest

LEMMA NextModel ==
  ASSUME ModelInv, Next
  PROVE  ModelInv'
<1>1. CASE ModelChanges
  BY <1>1, ModelStep DEF ModelChanges
<1>2. CASE ProcessRestarts
  BY <1>2, RestartedModel
<1>3. CASE UNCHANGED serverVars
  BY <1>3, SameModel
<1> QED
  BY <1>1, <1>2, <1>3
     DEF Next, StreamStep, RunCallback, ReadChanges, SendEvent, OnlyStreamMoves, PageStep, Connect,
         ReceiveEvent, AnimationFrame, HandleFetch, RenderSnapshot, OnlyPageMoves,
         ConnectionBreaks, FetchFails

LEMMA NextStream ==
  ASSUME ModelInv, StreamInv, Next
  PROVE  StreamInv'
<1>1. CASE ModelChanges
  BY <1>1, ModelChangesStream
<1>2. CASE RunCallback \/ ReadChanges \/ SendEvent
  BY <1>2, RunCallbackStream, ReadChangesStream, SendEventStream
<1>3. CASE ConnectionBreaks \/ ProcessRestarts
  BY <1>3, DisconnectedStream DEF ConnectionBreaks, ProcessRestarts, pageVars
<1>4. CASE Connect \/ ReceiveEvent
  BY <1>4, ConnectStream, ReceiveEventStream
<1>5. CASE AnimationFrame \/ HandleFetch \/ RenderSnapshot \/ FetchFails
  BY <1>5, SameStream
     DEF AnimationFrame, HandleFetch, RenderSnapshot, FetchFails, OnlyPageMoves
<1> QED
  BY <1>1, <1>2, <1>3, <1>4, <1>5 DEF Next, StreamStep, PageStep

LEMMA NextView ==
  ASSUME ModelInv, ViewInv, Next
  PROVE  ViewInv' /\ ViewStep
<1>1. CASE RenderSnapshot
  BY <1>1, RenderSnapshotView
<1>2. ASSUME UNCHANGED view  PROVE  ViewStep
  BY <1>2 DEF ViewInv, Snapshots, ViewStep
<1>3. CASE ModelChanges \/ ProcessRestarts \/ FetchFails
  <2>1. UNCHANGED view
    BY <1>3 DEF ModelChanges, ProcessRestarts, FetchFails, pageVars
  <2> QED
    BY <1>2, <1>3, <2>1, ModelChangesView, ProcessRestartsView, FetchFailsView
<1>4. CASE AnimationFrame \/ HandleFetch
  <2>1. UNCHANGED view
    BY <1>4 DEF AnimationFrame, HandleFetch
  <2> QED
    BY <1>2, <1>4, <2>1, AnimationFrameView, HandleFetchView
<1>5. CASE StreamStep \/ ConnectionBreaks \/ Connect \/ ReceiveEvent
  <2>1. UNCHANGED <<process, revision, view, fetches>>
    BY <1>5 DEF StreamStep, RunCallback, ReadChanges, SendEvent, OnlyStreamMoves,
               ConnectionBreaks, Connect, ReceiveEvent, OnlyPageMoves, serverVars, modelVars,
               pageVars
  <2> QED
    BY <1>2, <2>1, SameView
<1> QED
  BY <1>1, <1>3, <1>4, <1>5 DEF Next, PageStep

-----------------------------------------------------------------------------
(* The theorems. *)

(* The invariant, under the specification with its fairness. *)
THEOREM LiveInvariant == Spec => []LiveInv
<1>1. ASSUME Init  PROVE  LiveInv
  <2>1. ModelInv /\ revision = 0
    BY <1>1, EmptyModel DEF Init, ModelInit
  <2>2. /\ process = 0 /\ stream = Closed /\ transit = <<>> /\ lastEventId = 0
        /\ view = CurrentState /\ fetches = <<>>
    BY <1>1 DEF Init
  <2>3. BatchInv /\ TransitInv /\ NoLostWakeup
    BY <2>2 DEF Closed, BatchInv, TransitInv, EventsWithoutGap, NoLostWakeup, StreamAt, StreamPC
  <2>4. view \in Snapshots /\ NotNewer(view, CurrentState)
    BY <2>1, <2>2 DEF CurrentState, Snapshots, NotNewer
  <2>5. ViewInv
    BY <2>2, <2>4 DEF ViewInv
  <2> QED
    BY <2>1, <2>2, <2>3, <2>5 DEF LiveInv, StreamInv
<1>2. ASSUME LiveInv, [Next]_vars  PROVE  LiveInv'
  <2>1. CASE Next
    BY <1>2, <2>1, NextModel, NextStream, NextView DEF LiveInv
  <2>2. CASE UNCHANGED vars
    <3>1. UNCHANGED serverVars /\ UNCHANGED <<serverVars, streamVars, transit, lastEventId>>
          /\ UNCHANGED <<process, revision, view, fetches>>
      BY <2>2 DEF vars, serverVars, modelVars, streamVars, pageVars
    <3> QED
      BY <1>2, <3>1, SameModel, SameStream, SameView DEF LiveInv
  <2> QED
    BY <1>2, <2>1, <2>2
<1> QED
  BY <1>1, <1>2, PTL DEF Spec

(* Also when the process is restarted, the journal (WorkbenchModel.publish)*)
(* holds exactly the newest observations, and the discard count says how   *)
(* many came before.                                                       *)
THEOREM JournalCorrect == Spec => []JournalIsNewest
<1>1. LiveInv => JournalIsNewest
  BY DEF LiveInv, ModelInv
<1> QED
  BY <1>1, LiveInvariant, PTL

(* The retained changes (_record_change_unlocked) are numbered up to the   *)
(* current revision without a hole.                                        *)
THEOREM ChangesCorrect == Spec => []ChangesAreNewest
<1>1. LiveInv => ChangesAreNewest
  BY DEF LiveInv, ModelInv
<1> QED
  BY <1>1, LiveInvariant, PTL

(* The event stream (workbench_events of web.py) never sleeps on a change. *)
THEOREM WakeupNotLost == Spec => []NoLostWakeup
<1>1. LiveInv => NoLostWakeup
  BY DEF LiveInv, StreamInv
<1> QED
  BY <1>1, LiveInvariant, PTL

(* The events of a connection follow on each other, unless a resync says   *)
(* that there is a gap (changes_since of model.py, workbench_events).      *)
THEOREM NoEventSkipped == Spec => []EventsWithoutGap
<1>1. LiveInv => EventsWithoutGap
  BY DEF LiveInv, StreamInv, TransitInv
<1> QED
  BY <1>1, LiveInvariant, PTL

(* Within one process, the page (refreshModel of app.js) never replaces    *)
(* what it shows by something older.                                       *)
THEOREM ViewMovesForward == Spec => ViewNeverGoesBack
<1>1. ASSUME LiveInv, [Next]_vars  PROVE  [ViewStep]_vars
  BY <1>1, NextView DEF LiveInv
<1>2. Spec => [][ViewStep]_vars
  BY <1>1, LiveInvariant, PTL DEF Spec
<1> QED
  BY <1>2 DEF ViewStep, ViewNeverGoesBack

=============================================================================
