-------------------------- MODULE DraftEditorProofs --------------------------
(***************************************************************************)
(* The draft editor for any frames, and any number of drafts, edits and    *)
(* conversions: a draft's history is made of its own edits, and a modified *)
(* draft is not given up unasked.                                          *)
(*                                                                         *)
(* One counter, draftRequestSerial, numbers drafts and conversions alike;  *)
(* the proofs turn on what it says of a conversion that was not overtaken. *)
(***************************************************************************)
EXTENDS DraftEditor, TLAPS

(* What HistoryIsThisDraftsEdits says of the draft on the page, of any one.*)
OwnHistory(d) ==
  d.history # <<>> =>
    /\ d.history[1] = [draft |-> d.id, edit |-> d.id, valid |-> TRUE]
    /\ \A i \in DOMAIN d.history : d.history[i].draft = d.id
    /\ \A i, j \in DOMAIN d.history :
         i < j /\ d.history[j].edit # 0 => d.history[i].edit < d.history[j].edit

(* A draft has a snapshot from the moment its base was validated, and one  *)
(* that shows an edit counts as modified.                                  *)
Sound(d) ==
  /\ d \in Drafts
  /\ d.id = 0 => d = NoDraft
  /\ d.index \in 0..Len(d.history)
  /\ d.index = 0 <=> d.history = <<>>
  /\ d.index > 1 => d.dirty
  /\ OwnHistory(d)

EditsUpTo(d, n) == \A i \in DOMAIN d.history : d.history[i].edit <= n

ConversionTypes ==
  [stage : {"begin", "inspect", "compose"}, token : 1..serial, draft : 1..MaxSerial,
   complete : BOOLEAN]

(* A conversion that was not overtaken is the only one with its number, it *)
(* is about the draft on the page, and its number is higher than those of  *)
(* the edits made.                                                         *)
ConversionInv ==
  /\ conversions \subseteq ConversionTypes
  /\ \A c, d \in conversions : c.token = d.token => c = d
  /\ \A c \in conversions : ~Overtaken(c) =>
       /\ c.draft = draft.id
       /\ c.stage = "begin" <=> draft.history = <<>>
       /\ c.stage = "begin" => c.token = draft.id
       /\ EditsUpTo(draft, c.token - 1)

EditInv ==
  /\ serial \in 0..MaxSerial
  /\ Sound(draft) /\ draft.id <= serial /\ EditsUpTo(draft, serial)
  /\ ConversionInv

CallTypes ==
  [number : 1..MaxClicks, request : 0..MaxClicks, draft : 0..MaxSerial, edit : 0..MaxSerial,
   outcome : {"none", "sent", "unknown", "refused"}]

PageInv ==
  /\ inputs \in {"none", "bytes", "all"}
  /\ consented \in BOOLEAN /\ ticked \in BOOLEAN /\ enabled \in BOOLEAN
  /\ used \in [opens : Nat, malformed : Nat, ticks : Nat, clicks : Nat]
  /\ \A o \in opening : o.item \in Items
  /\ calls \subseteq CallTypes /\ ledger \subseteq CallTypes

EditorInv == EditInv /\ PageInv

-----------------------------------------------------------------------------
(* Drafts. *)

LEMMA NoDraftTyped ==
  /\ NoDraft \in Drafts /\ NoDraft.id = 0 /\ NoDraft.history = <<>> /\ NoDraft.index = 0
  /\ NoDraft.dirty = FALSE
<1>1. 0 \in 0..MaxSerial /\ 0 \in 0..MaxClicks
  BY DraftAssumption
<1>2. <<>> \in Seq(Snapshots)
  OBVIOUS
<1> QED
  BY <1>1, <1>2 DEF NoDraft, Drafts, NoRequest

LEMMA NoDraftSound == Sound(NoDraft) /\ \A n \in Nat : EditsUpTo(NoDraft, n)
<1>1. DOMAIN <<>> = {} /\ Len(<<>>) = 0
  OBVIOUS
<1> QED
  BY <1>1, NoDraftTyped DEF Sound, OwnHistory, EditsUpTo

LEMMA BeginSound ==
  ASSUME NEW item \in Items, NEW id \in 1..MaxSerial
  PROVE  LET d == [NoDraft EXCEPT !.id = id, !.base = item]
         IN  /\ Sound(d) /\ \A n \in Nat : EditsUpTo(d, n)
             /\ d.id = id /\ d.base = item /\ d.history = <<>>
<1> DEFINE d == [NoDraft EXCEPT !.id = id, !.base = item]
<1>1. DOMAIN <<>> = {} /\ Len(<<>>) = 0
  OBVIOUS
<1>2. /\ d \in Drafts /\ d.id = id /\ d.base = item
      /\ d.history = <<>> /\ d.index = 0 /\ d.dirty = FALSE
  <2>1. id \in 0..MaxSerial
    BY DraftAssumption
  <2> QED
    BY <2>1, NoDraftTyped DEF Drafts
<1>3. d.id # 0
  BY <1>2
<1> HIDE DEF d
<1>4. Sound(d) /\ \A n \in Nat : EditsUpTo(d, n)
  BY <1>1, <1>2, <1>3 DEF Sound, OwnHistory, EditsUpTo
<1> QED
  BY <1>2, <1>4 DEF d

(* Which fields undo, redo and revert change. *)
LEMMA DraftMoved ==
  ASSUME NEW d \in Drafts, NEW i \in Nat, NEW b \in BOOLEAN
  PROVE  LET e == [d EXCEPT !.index = i, !.dirty = b]
         IN  /\ e \in Drafts /\ e.id = d.id /\ e.base = d.base
             /\ e.history = d.history /\ e.index = i /\ e.dirty = b
  BY DEF Drafts

(* The parts of a sound draft. *)
LEMMA SoundParts ==
  ASSUME NEW d, Sound(d)
  PROVE  /\ d \in Drafts /\ d.id \in 0..MaxSerial /\ d.dirty \in BOOLEAN
         /\ d.history \in Seq(Snapshots)
         /\ d.index \in 0..Len(d.history) /\ Len(d.history) \in Nat
         /\ d.index = 0 <=> d.history = <<>>
         /\ \A i \in 1..Len(d.history) : d.history[i] \in Snapshots
         /\ DOMAIN d.history = 1..Len(d.history)
<1>1. d \in Drafts /\ d.index \in 0..Len(d.history) /\ (d.index = 0 <=> d.history = <<>>)
  BY DEF Sound
<1>2. /\ d.id \in 0..MaxSerial /\ d.dirty \in BOOLEAN /\ d.history \in Seq(Snapshots)
  BY <1>1 DEF Drafts
<1>3. /\ Len(d.history) \in Nat /\ DOMAIN d.history = 1..Len(d.history)
      /\ \A i \in 1..Len(d.history) : d.history[i] \in Snapshots
  BY <1>2
<1> QED
  BY <1>1, <1>2, <1>3

LEMMA SnapshotTyped ==
  ASSUME NEW s \in Snapshots
  PROVE  s.draft \in 1..MaxSerial /\ s.edit \in 0..MaxSerial /\ s.edit \in Nat
         /\ s.valid \in BOOLEAN
         /\ s = [draft |-> s.draft, edit |-> s.edit, valid |-> s.valid]
  BY DraftAssumption DEF Snapshots

(* pushDraftSnapshot keeps a draft sound: the first snapshot is its valid  *)
(* base, a later one malformed bytes or an edit that was asked for last.   *)
LEMMA PushSound ==
  ASSUME NEW d, Sound(d), d.id # 0, NEW s \in Snapshots, s.draft = d.id,
         IF d.history = <<>> THEN s.edit = d.id /\ s.valid = TRUE
         ELSE s.edit = 0 \/ EditsUpTo(d, s.edit - 1),
         NEW n \in Nat, EditsUpTo(d, n), s.edit <= n
  PROVE  LET h == Append(SubSeq(d.history, 1, d.index), s)
             e == [d EXCEPT !.history = h, !.index = Len(h), !.dirty = Len(h) > 1]
         IN  /\ Sound(e) /\ EditsUpTo(e, n)
             /\ e.id = d.id /\ e.base = d.base /\ e.history # <<>>
<1> DEFINE old == d.history
           k == d.index
           h == Append(SubSeq(old, 1, k), s)
           e == [d EXCEPT !.history = h, !.index = Len(h), !.dirty = Len(h) > 1]
<1>1. /\ d \in Drafts /\ old \in Seq(Snapshots) /\ k \in 0..Len(old) /\ Len(old) \in Nat
      /\ k = 0 <=> old = <<>>
      /\ DOMAIN old = 1..Len(old)
      /\ \A i \in 1..Len(old) : old[i] \in Snapshots
  BY SoundParts
<1>2. \A i \in 1..Len(old) : old[i].edit \in Nat
  BY <1>1, SnapshotTyped
<1>3. /\ s.edit \in Nat
      /\ s = [draft |-> s.draft, edit |-> s.edit, valid |-> s.valid]
  BY SnapshotTyped
<1>4. /\ old # <<>> => old[1] = [draft |-> d.id, edit |-> d.id, valid |-> TRUE]
      /\ \A i \in DOMAIN old : old[i].draft = d.id
      /\ \A i, j \in DOMAIN old : i < j /\ old[j].edit # 0 => old[i].edit < old[j].edit
  <2>1. OwnHistory(d)
    BY DEF Sound
  <2>2. CASE old # <<>>
    BY <2>1, <2>2 DEF OwnHistory
  <2>3. CASE old = <<>>
    <3>1. DOMAIN old = {}
      BY <1>1, <2>3
    <3> QED
      BY <2>3, <3>1
  <2> QED
    BY <2>2, <2>3
<1>5. /\ \A i \in DOMAIN old : old[i].edit <= n
      /\ old # <<>> => s.edit = 0 \/ \A i \in DOMAIN old : old[i].edit <= s.edit - 1
      /\ old = <<>> => s.edit = d.id /\ s.valid = TRUE
  BY DEF EditsUpTo
<1> HIDE DEF old, k
<1>6. /\ h \in Seq(Snapshots) /\ Len(h) = k + 1 /\ h # <<>>
      /\ \A i \in 1..k : h[i] = old[i]
      /\ h[k + 1] = s
      /\ DOMAIN h = 1..(k + 1)
  BY <1>1
<1> HIDE DEF h
<1>7. /\ e \in Drafts /\ e.id = d.id /\ e.base = d.base /\ e.history = h
      /\ e.index = Len(h) /\ e.dirty = (Len(h) > 1)
  <2>1. Len(h) \in Nat /\ (Len(h) > 1) \in BOOLEAN
    BY <1>1, <1>6
  <2>2. \A b \in BOOLEAN :
          LET m == [d EXCEPT !.history = h, !.index = Len(h), !.dirty = b]
          IN  /\ m \in Drafts /\ m.id = d.id /\ m.base = d.base
              /\ m.history = h /\ m.index = Len(h) /\ m.dirty = b
    <3>1. d \in Drafts /\ h \in Seq(Snapshots) /\ Len(h) \in Nat
      BY <1>1, <1>6, <2>1
    <3> QED
      BY <3>1 DEF Drafts
  <2> QED
    BY <2>1, <2>2, Zenon
<1> HIDE DEF e
<1>8. h[1] = [draft |-> d.id, edit |-> d.id, valid |-> TRUE]
  <2>1. CASE k = 0
    BY <1>1, <1>3, <1>5, <1>6, <2>1
  <2>2. CASE k > 0
    BY <1>1, <1>4, <1>6, <2>2
  <2> QED
    BY <1>1, <2>1, <2>2
<1>9. \A i \in 1..(k + 1) : h[i].draft = d.id
  BY <1>1, <1>4, <1>6
<1>10. ASSUME NEW i \in 1..(k + 1), NEW j \in 1..(k + 1), i < j, h[j].edit # 0
       PROVE  h[i].edit < h[j].edit
  <2>1. CASE j <= k
    <3>1. h[i] = old[i] /\ h[j] = old[j] /\ i \in DOMAIN old /\ j \in DOMAIN old
      BY <1>1, <1>6, <1>10, <2>1
    <3> QED
      BY <1>4, <1>10, <3>1
  <2>2. CASE j = k + 1
    <3>1. old # <<>> /\ h[i] = old[i] /\ h[j] = s /\ i \in DOMAIN old
      BY <1>1, <1>6, <1>10, <2>2
    <3>2. old[i].edit <= s.edit - 1
      BY <1>5, <1>10, <3>1
    <3> QED
      BY <1>1, <1>2, <1>3, <3>1, <3>2
  <2> QED
    BY <1>1, <2>1, <2>2
<1>11. \A i \in 1..(k + 1) : h[i].edit <= n
  BY <1>1, <1>5, <1>6
<1>12. OwnHistory(e)
  BY <1>6, <1>7, <1>8, <1>9, <1>10 DEF OwnHistory
<1>13. EditsUpTo(e, n)
  BY <1>6, <1>7, <1>11 DEF EditsUpTo
<1>14. e.index \in 0..Len(e.history) /\ e.index # 0 /\ e.history # <<>>
  BY <1>1, <1>6, <1>7
<1>15. e.index > 1 => e.dirty
  BY <1>6, <1>7
<1>16. Sound(e)
  BY <1>7, <1>12, <1>14, <1>15 DEF Sound
<1> QED
  BY <1>7, <1>13, <1>14, <1>16 DEF e, h, k, old

(* Undo, redo and revert keep it sound: the history stays.                 *)
LEMMA MoveSound ==
  ASSUME NEW d, Sound(d), NEW i \in 1..Len(d.history)
  PROVE  LET e == [d EXCEPT !.index = i, !.dirty = i > 1]
         IN  Sound(e) /\ e.id = d.id /\ e.base = d.base /\ e.history = d.history
<1> DEFINE e == [d EXCEPT !.index = i, !.dirty = i > 1]
<1>1. /\ d \in Drafts /\ d.history # <<>> /\ i \in Nat /\ i # 0 /\ Len(d.history) \in Nat
      /\ d.id # 0
  <2>1. d.id = 0 => d.history = <<>>
    BY NoDraftTyped DEF Sound
  <2>2. d.history # <<>>
    BY SoundParts
  <2> QED
    BY SoundParts, <2>1, <2>2
<1>2. /\ e \in Drafts /\ e.id = d.id /\ e.base = d.base /\ e.history = d.history
      /\ e.index = i /\ e.dirty = (i > 1)
  <2>1. (i > 1) \in BOOLEAN
    OBVIOUS
  <2>2. \A b \in BOOLEAN :
          LET m == [d EXCEPT !.index = i, !.dirty = b]
          IN  /\ m \in Drafts /\ m.id = d.id /\ m.base = d.base
              /\ m.history = d.history /\ m.index = i /\ m.dirty = b
    BY <1>1, DraftMoved
  <2> QED
    BY <2>1, <2>2, Zenon
<1> HIDE DEF e
<1>3. OwnHistory(e)
  BY <1>2 DEF OwnHistory, Sound
<1>4. e.index > 1 => e.dirty
  BY <1>2
<1>5. e.index \in 0..Len(e.history)
  BY <1>1, <1>2
<1>6. Sound(e)
  BY <1>1, <1>2, <1>3, <1>4, <1>5 DEF Sound
<1> QED
  BY <1>2, <1>6 DEF e

(* So does a transmission that is begun or answered.                       *)
LEMMA RequestSound ==
  ASSUME NEW d, Sound(d), NEW request \in 0..MaxClicks, d = NoDraft => request = NoRequest
  PROVE  LET e == [d EXCEPT !.request = request]
         IN  /\ Sound(e) /\ e.id = d.id /\ e.base = d.base /\ e.history = d.history
             /\ e.index = d.index
<1> DEFINE e == [d EXCEPT !.request = request]
<1>1. d \in Drafts
  BY DEF Sound
<1>2. /\ e \in Drafts /\ e.id = d.id /\ e.base = d.base /\ e.history = d.history
      /\ e.index = d.index /\ e.dirty = d.dirty
  BY <1>1 DEF Drafts
<1>3. ASSUME d = NoDraft  PROVE  e = NoDraft
  <2>1. e = [NoDraft EXCEPT !.request = NoRequest]
    BY <1>3
  <2>2. NoDraft.request = NoRequest
    BY DEF NoDraft
  <2> QED
    BY <2>1, <2>2 DEF NoDraft
<1> HIDE DEF e
<1>4. OwnHistory(e)
  BY <1>2 DEF OwnHistory, Sound
<1>5. Sound(e)
  BY <1>2, <1>3, <1>4 DEF Sound
<1> QED
  BY <1>2, <1>5 DEF e

-----------------------------------------------------------------------------
(* Conversions and their answers. *)

(* A step that takes neither a number nor an answer. *)
LEMMA EditedInv ==
  ASSUME EditInv, UNCHANGED <<serial, conversions>>, Sound(draft'),
         draft'.id = draft.id, draft'.history = <<>> <=> draft.history = <<>>,
         \A n \in Nat : EditsUpTo(draft, n) => EditsUpTo(draft', n)
  PROVE  EditInv'
<1>1. serial \in Nat /\ \A c \in conversions : c.token - 1 \in Nat
  BY DraftAssumption DEF EditInv, ConversionInv, ConversionTypes
<1>2. serial' \in 0..MaxSerial /\ draft'.id <= serial' /\ EditsUpTo(draft', serial')
  BY <1>1 DEF EditInv
<1>3. ConversionInv'
  <2>1. /\ conversions' \subseteq ConversionTypes'
        /\ \A c, d \in conversions' : c.token = d.token => c = d
    BY DEF EditInv, ConversionInv, ConversionTypes
  <2>2. ASSUME NEW c \in conversions', c.token = serial'
        PROVE  /\ c.draft = draft'.id
               /\ c.stage = "begin" <=> draft'.history = <<>>
               /\ c.stage = "begin" => c.token = draft'.id
               /\ EditsUpTo(draft', c.token - 1)
    BY <1>1, <2>2 DEF EditInv, ConversionInv, Overtaken
  <2> QED
    BY <2>1, <2>2 DEF ConversionInv, Overtaken
<1> QED
  BY <1>2, <1>3 DEF EditInv

(* The next number is taken: it overtakes every conversion under way. *)
LEMMA AskedInv ==
  ASSUME EditInv, serial < MaxSerial, serial' = serial + 1,
         Sound(draft'), draft'.id <= serial + 1, EditsUpTo(draft', serial),
         NEW S \in SUBSET [stage : {"begin", "inspect", "compose"}, token : {serial + 1},
                           draft : 1..MaxSerial, complete : BOOLEAN],
         conversions' = conversions \cup S,
         \A c, d \in S : c = d,
         \A c \in S : /\ c.draft = draft'.id
                      /\ c.stage = "begin" <=> draft'.history = <<>>
                      /\ c.stage = "begin" => c.token = draft'.id
  PROVE  EditInv'
<1>1. serial \in Nat /\ serial' \in 0..MaxSerial /\ MaxSerial \in Nat
  BY DraftAssumption DEF EditInv
<1>2. \A c \in conversions : c \in ConversionTypes /\ c.token # serial + 1
  BY <1>1 DEF EditInv, ConversionInv, ConversionTypes
<1>3. \A c \in S : c.token = serial + 1 /\ c \in ConversionTypes'
  BY <1>1 DEF ConversionTypes
<1>4. \A i \in DOMAIN draft'.history : draft'.history[i].edit \in Nat
  BY SoundParts, SnapshotTyped
<1>5. EditsUpTo(draft', serial')
  BY <1>1, <1>4 DEF EditsUpTo
<1>6. conversions' \subseteq ConversionTypes'
  <2>1. ASSUME NEW c \in ConversionTypes  PROVE  c \in ConversionTypes'
    BY <1>1, <2>1 DEF ConversionTypes
  <2> QED
    BY <1>2, <1>3, <2>1
<1>7. \A c, d \in conversions' : c.token = d.token => c = d
  BY <1>2, <1>3 DEF EditInv, ConversionInv
<1>8. ASSUME NEW c \in conversions', c.token = serial'
      PROVE  /\ c.draft = draft'.id
             /\ c.stage = "begin" <=> draft'.history = <<>>
             /\ c.stage = "begin" => c.token = draft'.id
             /\ EditsUpTo(draft', c.token - 1)
  <2>1. c \in S
    BY <1>2, <1>8
  <2>2. c.token - 1 = serial
    BY <1>1, <1>8
  <2> QED
    BY <2>1, <2>2
<1> QED
  BY <1>1, <1>5, <1>6, <1>7, <1>8 DEF EditInv, ConversionInv, Overtaken

(* A conversion is answered: only the draft of one that was not overtaken  *)
(* changes, and then no other such conversion is left.                     *)
LEMMA AnsweredInv ==
  ASSUME EditInv, NEW c \in conversions, serial' = serial, Answered(c),
         Sound(draft'), draft'.id <= serial, EditsUpTo(draft', serial),
         Overtaken(c) => draft' = draft
  PROVE  EditInv'
<1>1. /\ conversions' \subseteq ConversionTypes'
      /\ \A a, b \in conversions' : a.token = b.token => a = b
  BY DEF EditInv, ConversionInv, ConversionTypes, Answered
<1>2. ASSUME NEW a \in conversions', a.token = serial'
      PROVE  /\ a.draft = draft'.id
             /\ a.stage = "begin" <=> draft'.history = <<>>
             /\ a.stage = "begin" => a.token = draft'.id
             /\ EditsUpTo(draft', a.token - 1)
  <2>1. a \in conversions /\ a # c /\ a.token = serial
    BY <1>2 DEF Answered
  <2>2. Overtaken(c)
    BY <2>1 DEF EditInv, ConversionInv, Overtaken
  <2> QED
    BY <2>1, <2>2 DEF EditInv, ConversionInv, Overtaken
<1> QED
  BY <1>1, <1>2 DEF EditInv, ConversionInv, Overtaken

(* The answer is a frame: it is pushed onto the draft it was asked for.    *)
LEMMA AnswerPushed ==
  ASSUME EditInv, NEW c \in conversions, ~Overtaken(c), NEW v \in BOOLEAN,
         c.stage = "begin" => v = TRUE, UNCHANGED serial, Answered(c),
         Push([draft |-> c.draft, edit |-> c.token, valid |-> v])
  PROVE  EditInv' /\ draft'.id = draft.id
<1> DEFINE s == [draft |-> c.draft, edit |-> c.token, valid |-> v]
<1>1. /\ c.draft \in 1..MaxSerial /\ c.token = serial /\ serial \in 0..MaxSerial
      /\ c.stage \in {"begin", "inspect", "compose"}
  BY DEF EditInv, ConversionInv, ConversionTypes, Overtaken
<1>2. /\ c.draft = draft.id
      /\ c.stage = "begin" <=> draft.history = <<>>
      /\ c.stage = "begin" => c.token = draft.id
      /\ EditsUpTo(draft, c.token - 1)
  BY DEF EditInv, ConversionInv
<1>3. s \in Snapshots /\ s.draft = draft.id /\ s.edit = c.token /\ s.valid = v
  BY <1>1, <1>2 DEF Snapshots
<1>4. Sound(draft) /\ draft.id # 0 /\ serial \in Nat /\ EditsUpTo(draft, serial)
  BY <1>1, <1>2, DraftAssumption DEF EditInv
<1>5. IF draft.history = <<>> THEN s.edit = draft.id /\ s.valid = TRUE
      ELSE s.edit = 0 \/ EditsUpTo(draft, s.edit - 1)
  BY <1>2, <1>3
<1>6. s.edit <= serial
  BY <1>1, <1>3
<1>7. Push(s)
  OBVIOUS
<1> HIDE DEF s
<1>8. /\ Sound(draft') /\ EditsUpTo(draft', serial) /\ draft'.id = draft.id
  <2>1. draft' = LET h == Append(SubSeq(draft.history, 1, draft.index), s)
                 IN  [draft EXCEPT !.history = h, !.index = Len(h), !.dirty = Len(h) > 1]
    BY <1>7 DEF Push, ShowDraft
  <2> QED
    BY <1>3, <1>4, <1>5, <1>6, <2>1, PushSound
<1>9. draft'.id <= serial
  BY <1>8 DEF EditInv
<1> QED
  BY <1>8, <1>9, AnsweredInv

-----------------------------------------------------------------------------
(* Every step keeps the invariant, and gives a modified draft up only with *)
(* consent, or for the frame it was made from.                             *)

Consented ==
  draft.index > 1 /\ draft'.id # draft.id => consented' \/ draft'.base = draft.base

Kept == EditInv' /\ Consented

LEMMA SameDraft ==
  ASSUME EditInv, UNCHANGED editVars
  PROVE  Kept
<1>1. draft' = draft
  BY DEF editVars
<1>2. Sound(draft') /\ draft'.id = draft.id
  BY <1>1 DEF EditInv
<1>3. EditInv'
  BY <1>1, <1>2, EditedInv DEF editVars
<1> QED
  BY <1>2, <1>3 DEF Kept, Consented

(* What a draft that has a snapshot is known to be. *)
LEMMA WithSnapshot ==
  ASSUME NEW d, Sound(d), d.index > 0
  PROVE  d.history # <<>> /\ d # NoDraft /\ d.id \in 1..MaxSerial
<1>1. d.history # <<>>
  BY SoundParts
<1>2. d # NoDraft
  BY <1>1, NoDraftTyped
<1>3. d.id # 0
  BY <1>2 DEF Sound
<1> QED
  BY <1>1, <1>2, <1>3, SoundParts, DraftAssumption

LEMMA BeginDraftKept ==
  ASSUME EditInv, NEW item \in Items, BeginDraft(item),
         Replaceable(item) \/ consented' = TRUE
  PROVE  Kept
<1> DEFINE c == [Conversion("begin", serial + 1, TRUE) EXCEPT !.draft = serial + 1]
<1>1. serial \in Nat /\ serial + 1 \in 1..MaxSerial /\ serial < MaxSerial
      /\ serial' = serial + 1
  BY DraftAssumption DEF EditInv, BeginDraft
<1>2. /\ Sound(draft') /\ EditsUpTo(draft', serial)
      /\ draft'.id = serial + 1 /\ draft'.base = item /\ draft'.history = <<>>
  BY <1>1, BeginSound DEF BeginDraft
<1>3. /\ c \in [stage : {"begin", "inspect", "compose"}, token : {serial + 1},
                 draft : 1..MaxSerial, complete : BOOLEAN]
      /\ c.stage = "begin" /\ c.token = serial + 1 /\ c.draft = serial + 1
  BY <1>1 DEF Conversion
<1>4. conversions' = conversions \cup {c}
  BY DEF BeginDraft
<1> HIDE DEF c
<1>5. EditInv'
  <2>1. draft'.id <= serial + 1
    BY <1>1, <1>2
  <2>2. \A a, b \in {c} : a = b
    OBVIOUS
  <2>3. \A a \in {c} : /\ a.draft = draft'.id
                       /\ a.stage = "begin" <=> draft'.history = <<>>
                       /\ a.stage = "begin" => a.token = draft'.id
    BY <1>2, <1>3
  <2>4. {c} \in SUBSET [stage : {"begin", "inspect", "compose"}, token : {serial + 1},
                        draft : 1..MaxSerial, complete : BOOLEAN]
    BY <1>3
  <2> QED
    BY <1>1, <1>2, <1>4, <2>1, <2>2, <2>3, <2>4, AskedInv
<1>6. ASSUME draft.index > 1  PROVE  consented' = TRUE \/ draft'.base = draft.base
  <2>1. Sound(draft) /\ draft.index > 0
    BY <1>6, SoundParts DEF EditInv
  <2>2. HasDraft /\ draft.dirty
    BY <1>6, <2>1, WithSnapshot DEF HasDraft, Sound
  <2> QED
    BY <1>2, <2>2 DEF Replaceable
<1> QED
  BY <1>5, <1>6 DEF Kept, Consented

LEMMA ShowItemKept ==
  ASSUME EditInv, NEW item \in Items, ShowItem(item)
  PROVE  Kept
  BY BeginDraftKept, SameDraft DEF ShowItem

LEMMA ShowInvalidKept ==
  ASSUME EditInv, ShowInvalid
  PROVE  Kept
<1>1. UNCHANGED <<draft, serial, conversions>>
  BY DEF ShowInvalid
<1>2. Sound(draft')
  BY <1>1 DEF EditInv
<1> QED
  BY <1>1, <1>2, EditedInv DEF Kept, Consented

LEMMA AskConversionKept ==
  ASSUME EditInv, HasSnapshot, NEW stage \in {"inspect", "compose"}, NEW complete \in BOOLEAN,
         AskConversion(stage, complete)
  PROVE  Kept
<1>1. serial \in Nat /\ serial < MaxSerial /\ serial' = serial + 1 /\ draft' = draft
  BY DraftAssumption DEF EditInv, AskConversion
<1>2. /\ Sound(draft') /\ EditsUpTo(draft', serial) /\ draft'.id <= serial
      /\ draft'.history # <<>> /\ draft'.id \in 1..MaxSerial
  BY <1>1, WithSnapshot DEF EditInv, HasSnapshot
<1>3. draft'.id <= serial + 1
  BY <1>1, <1>2
<1> DEFINE c == Conversion(stage, serial + 1, complete)
<1>4. conversions' = conversions \cup {c}
  BY DEF AskConversion
<1>5. EditInv'
  <2>1. /\ c \in [stage : {"begin", "inspect", "compose"}, token : {serial + 1},
                   draft : 1..MaxSerial, complete : BOOLEAN]
        /\ c.stage = stage /\ c.draft = draft.id
    BY <1>1, <1>2 DEF Conversion
  <2> HIDE DEF c
  <2>2. \A a, b \in {c} : a = b
    OBVIOUS
  <2>3. \A a \in {c} : /\ a.draft = draft'.id
                       /\ a.stage = "begin" <=> draft'.history = <<>>
                       /\ a.stage = "begin" => a.token = draft'.id
    BY <1>1, <1>2, <2>1
  <2>4. {c} \in SUBSET [stage : {"begin", "inspect", "compose"}, token : {serial + 1},
                        draft : 1..MaxSerial, complete : BOOLEAN]
    BY <2>1
  <2> QED
    BY <1>1, <1>2, <1>3, <1>4, <2>2, <2>3, <2>4, AskedInv
<1> QED
  BY <1>1, <1>5 DEF Kept, Consented

LEMMA EditKept ==
  ASSUME EditInv, EditFields \/ EditRoute \/ EditBytes
  PROVE  Kept
<1>1. CASE EditFields
  BY <1>1, AskConversionKept DEF EditFields
<1>2. CASE EditRoute
  <2>1. (inputs = "all") \in BOOLEAN
    OBVIOUS
  <2>2. \A complete \in BOOLEAN : AskConversion("compose", complete) => Kept
    BY <1>2, AskConversionKept DEF EditRoute
  <2> QED
    BY <1>2, <2>1, <2>2, Zenon DEF EditRoute
<1>3. CASE EditBytes
  <2>1. CASE AskConversion("inspect", TRUE)
    BY <1>3, <2>1, AskConversionKept DEF EditBytes
  <2>2. CASE /\ Push([draft |-> draft.id, edit |-> 0, valid |-> FALSE])
             /\ UNCHANGED <<serial, conversions>>
    <3> DEFINE s == [draft |-> draft.id, edit |-> 0, valid |-> FALSE]
    <3>1. Sound(draft) /\ draft.history # <<>> /\ draft.id \in 1..MaxSerial
      BY <1>3, WithSnapshot DEF EditInv, EditBytes, HasSnapshot
    <3>2. s \in Snapshots /\ s.draft = draft.id /\ s.edit = 0 /\ draft.id # 0
      BY <3>1, DraftAssumption DEF Snapshots
    <3>3. Push(s) /\ UNCHANGED <<serial, conversions>>
      BY <2>2
    <3> HIDE DEF s
    <3>4. draft' = LET h == Append(SubSeq(draft.history, 1, draft.index), s)
                   IN  [draft EXCEPT !.history = h, !.index = Len(h), !.dirty = Len(h) > 1]
      BY <3>3 DEF Push, ShowDraft
    <3>5. ASSUME NEW n \in Nat, EditsUpTo(draft, n)
          PROVE  /\ Sound(draft') /\ EditsUpTo(draft', n) /\ draft'.id = draft.id
                 /\ draft'.history # <<>>
      <4>1. s.edit <= n
        BY <3>2
      <4>2. IF draft.history = <<>> THEN s.edit = draft.id /\ s.valid = TRUE
            ELSE s.edit = 0 \/ EditsUpTo(draft, s.edit - 1)
        BY <3>1, <3>2
      <4> QED
        BY <3>1, <3>2, <3>4, <3>5, <4>1, <4>2, PushSound
    <3>6. serial \in Nat /\ EditsUpTo(draft, serial)
      BY DraftAssumption DEF EditInv
    <3>7. /\ Sound(draft') /\ draft'.id = draft.id /\ draft'.history # <<>>
      BY <3>5, <3>6
    <3> QED
      BY <3>1, <3>3, <3>5, <3>7, EditedInv DEF Kept, Consented
  <2> QED
    BY <1>3, <2>1, <2>2 DEF EditBytes
<1> QED
  BY <1>1, <1>2, <1>3

LEMMA HistoryMoved ==
  ASSUME EditInv, NEW i \in 1..Len(draft.history), UNCHANGED <<serial, conversions>>,
         draft' = [draft EXCEPT !.index = i, !.dirty = i > 1]
  PROVE  Kept
<1>1. Sound(draft)
  BY DEF EditInv
<1>2. Sound(draft') /\ draft'.id = draft.id /\ draft'.history = draft.history
  BY <1>1, MoveSound
<1>3. \A n \in Nat : EditsUpTo(draft, n) => EditsUpTo(draft', n)
  BY <1>2 DEF EditsUpTo
<1> QED
  BY <1>2, <1>3, EditedInv DEF Kept, Consented

LEMMA MoveHistoryKept ==
  ASSUME EditInv, NEW delta \in {-1, 1}, MoveHistory(delta)
  PROVE  Kept
<1>1. draft' = [draft EXCEPT !.index = draft.index + delta, !.dirty = draft.index + delta > 1]
  BY DEF MoveHistory, Shown, ShowDraft
<1> QED
  BY <1>1, HistoryMoved DEF MoveHistory, Shown

LEMMA RevertKept ==
  ASSUME EditInv, RevertDraft
  PROVE  Kept
<1>1. 1 \in 1..Len(draft.history)
  BY SoundParts DEF EditInv, RevertDraft, HasSnapshot
<1>2. (1 > 1) = FALSE
  OBVIOUS
<1>3. draft' = [draft EXCEPT !.index = 1, !.dirty = FALSE]
  BY DEF RevertDraft, Shown, ShowDraft
<1>4. draft' = [draft EXCEPT !.index = 1, !.dirty = 1 > 1]
  BY <1>2, <1>3, Zenon
<1> QED
  BY <1>1, <1>4, HistoryMoved DEF RevertDraft, Shown

LEMMA DiscardKept ==
  ASSUME EditInv, DiscardDraft
  PROVE  Kept
<1>1. serial \in Nat /\ serial < MaxSerial /\ serial' = serial + 1 /\ draft' = NoDraft
      /\ conversions' = conversions \cup {}
  BY DraftAssumption DEF EditInv, DiscardDraft
<1>2. Sound(draft') /\ draft'.id <= serial + 1 /\ EditsUpTo(draft', serial)
  BY <1>1, NoDraftSound, NoDraftTyped
<1>3. EditInv'
  <2>1. {} \in SUBSET [stage : {"begin", "inspect", "compose"}, token : {serial + 1},
                       draft : 1..MaxSerial, complete : BOOLEAN]
    OBVIOUS
  <2>2. /\ \A a, b \in {} : a = b
        /\ \A a \in {} : /\ a.draft = draft'.id
                         /\ a.stage = "begin" <=> draft'.history = <<>>
                         /\ a.stage = "begin" => a.token = draft'.id
    OBVIOUS
  <2> QED
    BY <1>1, <1>2, <2>1, <2>2, AskedInv
<1>4. draft.index > 1 => consented'
  BY DEF EditInv, Sound, DiscardDraft
<1> QED
  BY <1>3, <1>4 DEF Kept, Consented

LEMMA BeginAnswersKept ==
  ASSUME EditInv, NEW c \in conversions, BeginAnswers(c)
  PROVE  Kept
<1>1. /\ c.stage = "begin" /\ ~Overtaken(c) /\ Answered(c) /\ UNCHANGED serial
  BY DEF BeginAnswers
<1>2. draft.index = 0
  BY <1>1, SoundParts DEF EditInv, ConversionInv
<1>3. CASE Push([draft |-> c.draft, edit |-> c.token, valid |-> TRUE])
  BY <1>1, <1>3, AnswerPushed DEF Kept, Consented
<1>4. CASE draft' = NoDraft
  <2>1. Sound(draft') /\ draft'.id <= serial /\ EditsUpTo(draft', serial)
    BY <1>4, NoDraftSound, NoDraftTyped, DraftAssumption DEF EditInv
  <2>2. EditInv'
    BY <1>1, <2>1, AnsweredInv
  <2> QED
    BY <1>2, <2>2 DEF Kept, Consented
<1> QED
  BY <1>3, <1>4 DEF BeginAnswers

LEMMA EditAnswersKept ==
  ASSUME EditInv, NEW c \in conversions, EditAnswers(c)
  PROVE  Kept
<1>1. PICK v \in BOOLEAN : Push([draft |-> c.draft, edit |-> c.token, valid |-> v])
  BY DEF EditAnswers
<1>2. /\ c.stage # "begin" /\ ~Overtaken(c) /\ Answered(c) /\ UNCHANGED serial
  BY DEF EditAnswers
<1> QED
  BY <1>1, <1>2, AnswerPushed DEF Kept, Consented

LEMMA InspectAnswersKept ==
  ASSUME EditInv, NEW c \in conversions, InspectAnswers(c)
  PROVE  Kept
<1> DEFINE e == [c EXCEPT !.stage = "compose"]
<1>1. /\ c.stage = "inspect" /\ c.token = serial
      /\ conversions' = (conversions \ {c}) \cup {e}
      /\ UNCHANGED <<draft, serial>>
  BY DEF InspectAnswers, Overtaken
<1>2. c \in ConversionTypes
  BY DEF EditInv, ConversionInv
<1>3. e \in ConversionTypes /\ e.stage = "compose" /\ e.token = c.token /\ e.draft = c.draft
  BY <1>2 DEF ConversionTypes
<1> HIDE DEF e
<1>4. \A a \in conversions \ {c} : a.token # serial
  BY <1>1 DEF EditInv, ConversionInv
<1>5. /\ c.draft = draft.id
      /\ draft.history # <<>>
      /\ EditsUpTo(draft, c.token - 1)
  BY <1>1 DEF EditInv, ConversionInv, Overtaken
<1>6. conversions' \subseteq ConversionTypes'
  <2>1. ConversionTypes' = ConversionTypes
    BY <1>1 DEF ConversionTypes
  <2> QED
    BY <1>1, <1>3, <2>1 DEF EditInv, ConversionInv
<1>7. \A a, b \in conversions' : a.token = b.token => a = b
  BY <1>1, <1>3, <1>4 DEF EditInv, ConversionInv
<1>8. ASSUME NEW a \in conversions', a.token = serial'
      PROVE  /\ a.draft = draft'.id
             /\ a.stage = "begin" <=> draft'.history = <<>>
             /\ a.stage = "begin" => a.token = draft'.id
             /\ EditsUpTo(draft', a.token - 1)
  <2>1. a = e
    BY <1>1, <1>4, <1>8
  <2> QED
    BY <1>1, <1>3, <1>5, <2>1
<1>9. ConversionInv'
  BY <1>6, <1>7, <1>8 DEF ConversionInv, Overtaken
<1>10. serial' \in 0..MaxSerial /\ Sound(draft') /\ draft'.id <= serial'
       /\ EditsUpTo(draft', serial')
  BY <1>1 DEF EditInv
<1> QED
  BY <1>1, <1>9, <1>10 DEF EditInv, Kept, Consented

LEMMA OvertakenAnswersKept ==
  ASSUME EditInv, NEW c \in conversions, OvertakenAnswers(c)
  PROVE  Kept
<1>1. draft' = draft /\ serial' = serial /\ Answered(c)
  BY DEF OvertakenAnswers
<1>2. Sound(draft') /\ draft'.id <= serial /\ EditsUpTo(draft', serial)
  BY <1>1 DEF EditInv
<1>3. EditInv'
  BY <1>1, <1>2, AnsweredInv
<1> QED
  BY <1>1, <1>3 DEF Kept, Consented

LEMMA ConversionAnswersKept ==
  ASSUME EditInv, NEW c \in conversions, ConversionAnswers(c)
  PROVE  Kept
  BY BeginAnswersKept, InspectAnswersKept, EditAnswersKept, OvertakenAnswersKept
     DEF ConversionAnswers

(* A transmission only changes the request identifier of the draft. *)
LEMMA RequestKept ==
  ASSUME EditInv, UNCHANGED <<serial, conversions>>, NEW request \in 0..MaxClicks,
         draft = NoDraft => request = NoRequest,
         draft' = [draft EXCEPT !.request = request]
  PROVE  Kept
<1>1. Sound(draft)
  BY DEF EditInv
<1>2. /\ Sound(draft') /\ draft'.id = draft.id /\ draft'.history = draft.history
  BY <1>1, RequestSound
<1>3. \A n \in Nat : EditsUpTo(draft, n) => EditsUpTo(draft', n)
  BY <1>2 DEF EditsUpTo
<1> QED
  BY <1>2, <1>3, EditedInv DEF Kept, Consented

LEMMA ClickKept ==
  ASSUME EditInv, PageInv, Click
  PROVE  Kept
<1>1. UNCHANGED <<serial, conversions>>
  BY DEF Click
<1>2. CASE ~HasDraft
  <2>1. draft' = draft
    BY <1>2 DEF Click
  <2>2. Sound(draft')
    BY <2>1 DEF EditInv
  <2> QED
    BY <1>1, <2>1, <2>2, EditedInv DEF Kept, Consented
<1>3. CASE HasDraft
  <2> DEFINE request == IF draft.request # NoRequest THEN draft.request ELSE used.clicks + 1
  <2>1. draft' = [draft EXCEPT !.request = request]
    BY <1>3 DEF Click
  <2>2. used.clicks + 1 \in 0..MaxClicks
    BY DraftAssumption DEF PageInv, Click
  <2>3. draft.request \in 0..MaxClicks
    BY DEF EditInv, Sound, Drafts
  <2>4. request \in 0..MaxClicks
    BY <2>2, <2>3
  <2> HIDE DEF request
  <2> QED
    BY <1>1, <1>3, <2>1, <2>4, RequestKept DEF HasDraft
<1> QED
  BY <1>2, <1>3

LEMMA TransmitAnswersKept ==
  ASSUME EditInv, NEW c \in calls, TransmitAnswers(c)
  PROVE  Kept
<1>1. UNCHANGED <<serial, conversions>>
  BY DEF TransmitAnswers
<1>2. CASE draft' = draft
  <2>1. Sound(draft')
    BY <1>2 DEF EditInv
  <2> QED
    BY <1>1, <1>2, <2>1, EditedInv DEF Kept, Consented
<1>3. CASE draft' = [draft EXCEPT !.request = NoRequest]
  <2>1. NoRequest \in 0..MaxClicks
    BY DraftAssumption DEF NoRequest
  <2> QED
    BY <1>1, <1>3, <2>1, RequestKept
<1> QED
  BY <1>2, <1>3 DEF TransmitAnswers

LEMMA NextKept ==
  ASSUME EditorInv, Next
  PROVE  Kept
<1> USE DEF EditorInv
<1>1. ASSUME NEW item \in Items, Open(item)  PROVE  Kept
  BY <1>1, SameDraft DEF Open
<1>2. ASSUME NEW o \in opening, OpenAnswers(o)  PROVE  Kept
  <2>1. o.item \in Items
    BY DEF PageInv
  <2> QED
    BY <1>2, <2>1, ShowItemKept, ShowInvalidKept, SameDraft DEF OpenAnswers
<1>3. CASE ModelRefresh
  BY <1>3, ShowItemKept, ShowInvalidKept, SameDraft DEF ModelRefresh
<1>4. CASE Tick
  BY <1>4, SameDraft DEF Tick
<1>5. ASSUME NEW c \in calls, ServerTransmits(c)  PROVE  Kept
  BY <1>5, SameDraft DEF ServerTransmits
<1>6. CASE EditFields \/ EditRoute \/ EditBytes
  BY <1>6, EditKept
<1>7. CASE MoveHistory(-1) \/ MoveHistory(1)
  BY <1>7, MoveHistoryKept
<1>8. CASE RevertDraft \/ DiscardDraft
  BY <1>8, RevertKept, DiscardKept
<1>9. CASE Click
  BY <1>9, ClickKept
<1> QED
  BY <1>1, <1>2, <1>3, <1>4, <1>5, <1>6, <1>7, <1>8, <1>9,
     ConversionAnswersKept, TransmitAnswersKept DEF Next, Gestures

-----------------------------------------------------------------------------
(* The page around the draft. *)

LEMMA AvailableIsBoolean ==
  ASSUME NEW d
  PROVE  Available(d) \in BOOLEAN /\ (IF Valid(d) THEN "all" ELSE "bytes") \in {"bytes", "all"}
  BY DEF Available

LEMMA ShowItemPage ==
  ASSUME PageInv, NEW item \in Items, ShowItem(item)
  PROVE  inputs' \in {"none", "bytes", "all"} /\ consented' \in BOOLEAN
  BY DEF PageInv, ShowItem, BeginDraft, editVars

LEMMA ShownPage ==
  ASSUME NEW d, ShowDraft(d)
  PROVE  inputs' \in {"none", "bytes", "all"} /\ enabled' \in BOOLEAN
  BY AvailableIsBoolean DEF ShowDraft

LEMMA NextPage ==
  ASSUME EditorInv, Next
  PROVE  PageInv'
<1> USE DEF PageInv
<1>0. PageInv
  BY DEF EditorInv
<1>1. ASSUME NEW item \in Items, Open(item)  PROVE  PageInv'
  <2>1. used' \in [opens : Nat, malformed : Nat, ticks : Nat, clicks : Nat]
    BY <1>0, <1>1 DEF Open
  <2>2. \A o \in opening' : o.item \in Items
    BY <1>0, <1>1 DEF Open
  <2> QED
    BY <1>0, <1>1, <2>1, <2>2 DEF Open, editVars, transmitVars
<1>2. ASSUME NEW o \in opening, OpenAnswers(o)  PROVE  PageInv'
  <2>1. inputs' \in {"none", "bytes", "all"} /\ consented' \in BOOLEAN
    BY <1>0, <1>2, ShowItemPage DEF OpenAnswers, ShowInvalid, editVars
  <2> QED
    BY <1>0, <1>2, <2>1 DEF OpenAnswers, transmitVars
<1>3. CASE ModelRefresh
  <2>1. inputs' \in {"none", "bytes", "all"} /\ consented' \in BOOLEAN
    BY <1>0, <1>3, ShowItemPage DEF ModelRefresh, ShowInvalid, editVars
  <2> QED
    BY <1>0, <1>3, <2>1, AvailableIsBoolean DEF ModelRefresh, transmitVars
<1>4. ASSUME NEW stage, NEW complete, AskConversion(stage, complete)  PROVE  PageInv'
  BY <1>0, <1>4 DEF AskConversion, transmitVars
<1>5. CASE EditBytes
  <2>1. ASSUME NEW s, Push(s), UNCHANGED <<opening, transmitVars>>, consented' = FALSE,
               used' = [used EXCEPT !.malformed = @ + 1]
        PROVE  PageInv'
    <3>1. used' \in [opens : Nat, malformed : Nat, ticks : Nat, clicks : Nat]
      BY <1>0, <2>1
    <3>2. inputs' \in {"none", "bytes", "all"} /\ enabled' \in BOOLEAN
      BY <2>1, ShownPage DEF Push
    <3> QED
      BY <1>0, <2>1, <3>1, <3>2 DEF transmitVars
  <2> QED
    BY <1>4, <1>5, <2>1 DEF EditBytes
<1>6. ASSUME NEW d, Shown(d)  PROVE  PageInv'
  BY <1>0, <1>6, ShownPage DEF Shown, transmitVars
<1>7. CASE DiscardDraft
  <2>1. draft.dirty \in BOOLEAN
    BY SoundParts DEF EditorInv, EditInv
  <2>2. consented' \in BOOLEAN
    BY <1>7, <2>1, Zenon DEF DiscardDraft
  <2> QED
    BY <1>0, <1>7, <2>2, AvailableIsBoolean DEF DiscardDraft, transmitVars
<1>8. ASSUME NEW c \in conversions, ConversionAnswers(c)  PROVE  PageInv'
  <2>1. inputs' \in {"none", "bytes", "all"} /\ enabled' \in BOOLEAN
    BY <1>0, <1>8, ShownPage
       DEF ConversionAnswers, BeginAnswers, InspectAnswers, EditAnswers, OvertakenAnswers, Push
  <2> QED
    BY <1>0, <1>8, <2>1 DEF ConversionAnswers, transmitVars
<1>9. CASE Tick
  <2>1. used' \in [opens : Nat, malformed : Nat, ticks : Nat, clicks : Nat]
    BY <1>0, <1>9 DEF Tick
  <2> QED
    BY <1>0, <1>9, <2>1 DEF Tick, editVars
<1>10. CASE Click
  <2>1. used' \in [opens : Nat, malformed : Nat, ticks : Nat, clicks : Nat]
    BY <1>0, <1>10 DEF Click
  <2>2. PICK request \in 0..MaxClicks, edit \in 0..MaxSerial :
          calls' = calls \cup {[number |-> used.clicks + 1, request |-> request,
                               draft |-> draft.id, edit |-> edit, outcome |-> "none"]}
    <3>1. used.clicks + 1 \in 0..MaxClicks /\ 0 \in 0..MaxClicks /\ 0 \in 0..MaxSerial
      BY <1>0, <1>10, DraftAssumption DEF Click
    <3>2. CASE ~HasDraft
      BY <1>10, <3>1, <3>2 DEF Click, NoRequest
    <3>3. CASE HasDraft
      <4>1. draft \in Drafts /\ draft.request \in 0..MaxClicks
        BY DEF EditorInv, EditInv, Sound, Drafts
      <4>2. draft.index \in 1..Len(draft.history)
        BY <1>10, <3>3, SoundParts DEF Click, Available, HasDraft, Valid, EditorInv, EditInv
      <4>3. Snapshot.edit \in 0..MaxSerial
        BY <4>2, SoundParts, SnapshotTyped DEF Snapshot, EditorInv, EditInv
      <4>4. CASE draft.request # NoRequest
        BY <1>10, <3>3, <4>1, <4>3, <4>4 DEF Click
      <4>5. CASE draft.request = NoRequest
        BY <1>10, <3>1, <3>3, <4>3, <4>5 DEF Click
      <4> QED
        BY <4>4, <4>5
    <3> QED
      BY <3>2, <3>3
  <2>3. used.clicks + 1 \in 1..MaxClicks /\ draft.id \in 0..MaxSerial
    BY <1>0, <1>10, SoundParts, DraftAssumption DEF Click, EditorInv, EditInv
  <2>4. calls' \subseteq CallTypes
    BY <1>0, <2>2, <2>3 DEF CallTypes
  <2> QED
    BY <1>0, <1>10, <2>1, <2>4 DEF Click
<1>11. ASSUME NEW c \in calls, ServerTransmits(c)  PROVE  PageInv'
  <2>1. ASSUME NEW outcome \in {"none", "sent", "unknown", "refused"}
        PROVE  [c EXCEPT !.outcome = outcome] \in CallTypes
    BY <1>0 DEF CallTypes
  <2>2. \A l \in ledger : l.outcome \in {"none", "sent", "unknown", "refused"}
    BY <1>0 DEF CallTypes
  <2>3. calls' \subseteq CallTypes
    BY <1>0, <1>11, <2>1, <2>2 DEF ServerTransmits
  <2>4. ledger' \subseteq CallTypes
    BY <1>0, <1>11, <2>1 DEF ServerTransmits
  <2> QED
    BY <1>0, <1>11, <2>3, <2>4 DEF ServerTransmits, editVars
<1>12. ASSUME NEW c \in calls, TransmitAnswers(c)  PROVE  PageInv'
  BY <1>0, <1>12, AvailableIsBoolean DEF TransmitAnswers
<1> QED
  BY <1>1, <1>2, <1>3, <1>4, <1>5, <1>6, <1>7, <1>8, <1>9, <1>10, <1>11, <1>12
     DEF Next, Gestures, EditFields, EditRoute, MoveHistory, RevertDraft

-----------------------------------------------------------------------------
(* The theorems. *)

(* One counter (draftRequestSerial of app.js) numbers drafts and           *)
(* conversions: in every state at most one conversion under way is current,*)
(* it is about the draft that is shown, and the history is that draft's.   *)
THEOREM EditorInvariant == Spec => []EditorInv
<1>1. ASSUME Init  PROVE  EditorInv
  <2>1. draft = NoDraft /\ serial = 0 /\ conversions = {}
    BY <1>1 DEF Init
  <2>2. 0 \in 0..MaxSerial /\ EditsUpTo(draft, serial) /\ Sound(draft) /\ draft.id <= serial
    BY <2>1, NoDraftSound, NoDraftTyped, DraftAssumption
  <2>3. ConversionInv
    BY <2>1 DEF ConversionInv
  <2>4. PageInv
    BY <1>1 DEF Init, PageInv
  <2> QED
    BY <2>1, <2>2, <2>3, <2>4 DEF EditorInv, EditInv
<1>2. ASSUME EditorInv, [Next]_vars  PROVE  EditorInv'
  <2>1. CASE Next
    BY <1>2, <2>1, NextKept, NextPage DEF EditorInv, Kept
  <2>2. CASE UNCHANGED vars
    <3>1. EditInv'
      BY <1>2, <2>2, SameDraft DEF vars, EditorInv, Kept
    <3>2. PageInv'
      BY <1>2, <2>2 DEF vars, editVars, transmitVars, EditorInv, PageInv
    <3> QED
      BY <3>1, <3>2 DEF EditorInv
  <2> QED
    BY <1>2, <2>1, <2>2
<1> QED
  BY <1>1, <1>2, PTL DEF Spec

(* Every variable keeps its type, and the index points into the history    *)
(* of the draft.                                                           *)
THEOREM EditorTypeCorrect == Spec => []TypeOK
<1>1. ASSUME EditorInv  PROVE  TypeOK
  <2>1. draft \in Drafts /\ draft.index \in 0..Len(draft.history)
    BY <1>1 DEF EditorInv, EditInv, Sound
  <2>2. \A c \in conversions : c.stage \in {"begin", "inspect", "compose"} /\ c.token \in 1..serial
    BY <1>1 DEF EditorInv, EditInv, ConversionInv, ConversionTypes
  <2>3. \A call \in calls : call.outcome \in {"none", "sent", "unknown", "refused"}
    BY <1>1 DEF EditorInv, PageInv, CallTypes
  <2> QED
    BY <1>1, <2>1, <2>2, <2>3 DEF TypeOK, EditorInv, EditInv, PageInv
<1> QED
  BY <1>1, EditorInvariant, PTL

(* However late and in whatever order the server answers, the history of a *)
(* draft begins with its own valid base and goes on with its own edits, in *)
(* the order they were asked for (draftRequestSerial in beginDraft and the *)
(* two edit functions of app.js).                                          *)
THEOREM HistoryIsOwn == Spec => []HistoryIsThisDraftsEdits
<1>1. ASSUME EditorInv  PROVE  HistoryIsThisDraftsEdits
  BY <1>1 DEF EditorInv, EditInv, Sound, OwnHistory, HistoryIsThisDraftsEdits
<1> QED
  BY <1>1, EditorInvariant, PTL

(* A draft that shows another frame than its base is given up for another  *)
(* only when the user agreed (mayReplaceDraft and discardDraft of app.js). *)
THEOREM ModifiedIsKept == Spec => ModifiedNeedsConsent
<1>1. ASSUME EditorInv, Next  PROVE  Consented
  BY <1>1, NextKept DEF Kept
<1>2. ASSUME UNCHANGED vars  PROVE  Consented
  BY <1>2 DEF vars, editVars, Consented
<1>3. EditorInv /\ [Next]_vars => [Consented]_vars
  BY <1>1, <1>2
<1>4. Spec => [][Consented]_vars
  BY <1>3, EditorInvariant, PTL DEF Spec
<1> QED
  BY <1>4 DEF Consented, ModifiedNeedsConsent

=============================================================================
