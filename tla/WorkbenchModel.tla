--------------------------- MODULE WorkbenchModel ---------------------------
(***************************************************************************)
(* The process-local model of the workbench (model.py): retained           *)
(* observations, the receiver view, and the numbered changes a subscriber  *)
(* can ask for.  Every operation holds the model's condition lock from     *)
(* start to end and is therefore one step.                                 *)
(*                                                                         *)
(* An observation is its journal_sequence and a change is its revision:    *)
(* the kind in a change is for the reader of the stream, and the page      *)
(* treats all kinds alike.  The counters and timing samples inside the     *)
(* receiver view are left out: they change only in steps that record a     *)
(* change.                                                                 *)
(***************************************************************************)
EXTENDS Integers, Sequences, FiniteSets

CONSTANTS
  Retention,        \* retention: observations kept
  ChangeRetention,  \* change_retention: changes kept
  ReceiverViews,    \* receiver states with their errors
  Stopped           \* the view of a model that was just created

(* The constructor refuses other retention limits.                         *)
ASSUME RetentionAssumption ==
  Retention \in Nat \ {0} /\ ChangeRetention \in Nat \ {0}

ASSUME ViewsAssumption == Stopped \in ReceiverViews

VARIABLES
  revision,         \* _revision
  changes,          \* _changes, oldest first
  entries,          \* _entries, newest first
  journalSequence,  \* _journal_sequence
  discarded,        \* _journal_discarded_count
  receiver          \* _receiver

journalVars == <<entries, journalSequence, discarded>>
modelVars == <<revision, changes, journalVars, receiver>>

ModelInit ==
  /\ revision = 0 /\ changes = <<>>
  /\ entries = <<>> /\ journalSequence = 0 /\ discarded = 0
  /\ receiver = Stopped

-----------------------------------------------------------------------------
(* A deque with a maximal length drops an item at its other end.           *)
PushRight(queue, item, max) ==
  IF Len(queue) < max THEN Append(queue, item) ELSE Append(Tail(queue), item)

PushLeft(queue, item, max) ==
  <<item>> \o IF Len(queue) < max THEN queue ELSE SubSeq(queue, 1, Len(queue) - 1)

(* Mutant: the change gets the number the revision had before it.          *)
MutantRecordChange ==
  /\ revision' = revision + 1
  /\ changes' = PushRight(changes, revision, ChangeRetention)

(* _record_change_unlocked, up to the notification of the subscribers.     *)
RecordChange ==
  /\ revision' = revision + 1
  /\ changes' = PushRight(changes, revision + 1, ChangeRetention)

(* Mutant: the discards are counted once the deque is over its limit,      *)
(* which a deque with a maximal length never is.                           *)
MutantPublish ==
  /\ entries' = PushLeft(entries, journalSequence, Retention)
  /\ journalSequence' = journalSequence + 1
  /\ discarded' = IF Len(entries) > Retention THEN discarded + 1 ELSE discarded
  /\ RecordChange
  /\ UNCHANGED receiver

Publish ==
  /\ entries' = PushLeft(entries, journalSequence, Retention)
  /\ journalSequence' = journalSequence + 1
  /\ discarded' = IF Len(entries) = Retention THEN discarded + 1 ELSE discarded
  /\ RecordChange
  /\ UNCHANGED receiver

(* A view that is published again is no change.                            *)
SetReceiverState(view) ==
  /\ receiver # view
  /\ receiver' = view
  /\ RecordChange
  /\ UNCHANGED journalVars

(* With samples or activity to add; with none it records no change.        *)
RecordReceiverMetrics ==
  /\ RecordChange
  /\ UNCHANGED <<journalVars, receiver>>

ModelNext ==
  Publish \/ (\E view \in ReceiverViews : SetReceiverState(view)) \/ RecordReceiverMetrics

ModelSpec == ModelInit /\ [][ModelNext]_modelVars

(* The oldest revision from which the retained changes lead on.            *)
OldestReplayable == IF changes # <<>> THEN Head(changes) - 1 ELSE revision

(* Mutant: the revision before the oldest replayable one is replayed too.  *)
MutantMustResync(r) == r > revision \/ r + 1 < OldestReplayable

MustResync(r) == r > revision \/ r < OldestReplayable

(* changes_since, of a revision that is not negative: the changes after it,*)
(* which are the last ones, for the list is ascending (ChangesAreNewest).  *)
ChangesSince(r) ==
  LET older == {i \in DOMAIN changes : changes[i] <= r}
  IN  [revision |-> revision,
       resync |-> MustResync(r),
       changes |-> IF MustResync(r) THEN <<>>
                   ELSE SubSeq(changes, Cardinality(older) + 1, Len(changes))]

-----------------------------------------------------------------------------
(* Properties. *)

ModelTypeOK ==
  /\ revision \in Nat
  /\ changes \in Seq(Nat) /\ Len(changes) <= ChangeRetention
  /\ entries \in Seq(Nat) /\ Len(entries) <= Retention
  /\ journalSequence \in Nat
  /\ discarded \in Nat
  /\ receiver \in ReceiverViews

(* The journal holds the newest observations without a hole, and the       *)
(* discard count says exactly how many came before them.                   *)
JournalIsNewest ==
  /\ discarded + Len(entries) = journalSequence
  /\ discarded > 0 => Len(entries) = Retention
  /\ \A i \in 1..Len(entries) : entries[i] = journalSequence - i

(* The retained changes are the newest ones, numbered without a hole.      *)
ChangesAreNewest ==
  /\ Len(changes) <= revision
  /\ revision > 0 => changes # <<>>
  /\ \A i \in 1..Len(changes) : changes[i] = revision - Len(changes) + i

=============================================================================
