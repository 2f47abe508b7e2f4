----------------------------- MODULE DraftEditor -----------------------------
(***************************************************************************)
(* The draft editor of the workbench page (workbench_web/app.js): drafts   *)
(* forked from inspections, conversions by the server that answer at any   *)
(* time and in any order, the edit history, and the transmit button.       *)
(*                                                                         *)
(* A frame is known by where it comes from: the base of a draft by the     *)
(* serial number the draft began with, an edit by the serial number of the *)
(* conversion that made it.  The page's own steps between two awaits are   *)
(* one action.  The server's answers to a conversion, and whether a frame  *)
(* decodes, are choices; its transmit ledger is reduced to what the module *)
(* TransmitLedger shows of it: a known identifier is never sent again.     *)
(***************************************************************************)
EXTENDS Integers, Sequences, FiniteSets

CONSTANTS
  Items,        \* what can be shown: journal entries, fixtures, pasted frames
  MaxSerial,    \* bound: drafts begun and conversions asked for
  MaxOpens,     \* bound: frames opened
  MaxMalformed, \* bound: byte edits that are not two hexadecimal digits
  MaxTicks,     \* bound: times the confirmation is ticked
  MaxClicks     \* bound: transmit requests

ASSUME DraftAssumption ==
  /\ Items # {}
  /\ {MaxSerial, MaxOpens, MaxMalformed, MaxTicks, MaxClicks} \subseteq Nat

VARIABLES
  draft,        \* state.draft
  serial,       \* state.draftRequestSerial
  inputs,       \* which inputs of the draft are on the page
  conversions,  \* compose and draft inspections the page awaits
  opening,      \* frames asked for and not shown yet
  used,         \* how much of the bounds is used
  consented,    \* the dialog about discarding the draft was accepted just now
  ticked,       \* the one-shot confirmation
  enabled,      \* the transmit button
  calls,        \* transmit requests the page awaits
  ledger,       \* the server: identified requests that went to the radio
  sends         \* what went to the radio, in order

editVars == <<draft, serial, inputs, conversions>>
transmitVars == <<ticked, calls, ledger, sends>>
vars == <<editVars, opening, used, consented, enabled, transmitVars>>

-----------------------------------------------------------------------------
(* Drafts. *)

NoRequest == 0
NoItem == "none"

Snapshots == [draft : 1..MaxSerial, edit : 0..MaxSerial, valid : BOOLEAN]

(* index 0: the base is still being validated. *)
Drafts == [id : 0..MaxSerial, base : Items \cup {NoItem}, history : Seq(Snapshots),
           index : Nat, dirty : BOOLEAN, request : 0..MaxClicks]

NoDraft == [id |-> 0, base |-> NoItem, history |-> <<>>, index |-> 0,
            dirty |-> FALSE, request |-> NoRequest]

HasDraft == draft # NoDraft
HasSnapshot == draft.index > 0
Snapshot == draft.history[draft.index]
Valid(d) == d.index > 0 /\ d.history[d.index].valid

(* updateTransmitAvailability *)
Available(d) == d = NoDraft \/ Valid(d)

Conversion(stage, token, complete) ==
  [stage |-> stage, token |-> token, draft |-> draft.id, complete |-> complete]

(* The draft d is shown: an invalid one has byte inputs only. *)
ShowDraft(d) ==
  /\ draft' = d
  /\ inputs' = IF Valid(d) THEN "all" ELSE "bytes"
  /\ enabled' = Available(d)

(* Mutant: the index is that of JavaScript. *)
MutantPush(snapshot) ==
  LET h == Append(SubSeq(draft.history, 1, draft.index), snapshot)
  IN ShowDraft([draft EXCEPT !.history = h, !.index = @ - 1, !.dirty = Len(h) > 1])

(* pushDraftSnapshot: the redo history is cut off. *)
Push(snapshot) ==
  LET h == Append(SubSeq(draft.history, 1, draft.index), snapshot)
  IN ShowDraft([draft EXCEPT !.history = h, !.index = Len(h), !.dirty = Len(h) > 1])

Init ==
  /\ draft = NoDraft /\ serial = 0 /\ inputs = "none" /\ conversions = {}
  /\ opening = {} /\ consented = FALSE
  /\ used = [opens |-> 0, malformed |-> 0, ticks |-> 0, clicks |-> 0]
  /\ ticked = FALSE /\ enabled = TRUE
  /\ calls = {} /\ ledger = {} /\ sends = <<>>

-----------------------------------------------------------------------------
(* Frames shown on the page. *)

(* The user inspects a frame or opens a journal entry. *)
Open(item) ==
  /\ used.opens < MaxOpens
  /\ used' = [used EXCEPT !.opens = @ + 1]
  /\ opening' = opening \cup {[item |-> item, number |-> used.opens]}
  /\ consented' = FALSE
  /\ UNCHANGED <<editVars, enabled, transmitVars>>

(* beginDraft up to its await. *)
BeginDraft(item) ==
  /\ serial < MaxSerial
  /\ serial' = serial + 1
  /\ draft' = [NoDraft EXCEPT !.id = serial + 1, !.base = item]
  /\ conversions' = conversions \cup
       {[Conversion("begin", serial + 1, TRUE) EXCEPT !.draft = serial + 1]}
  /\ inputs' = "none"

(* mayReplaceDraft, before the user is asked. *)
Replaceable(item) == ~HasDraft \/ draft.base = item \/ ~draft.dirty

(* renderResult with a frame that is not the draft's. *)
ShowItem(item) ==
  \/ Replaceable(item) /\ consented' = FALSE /\ BeginDraft(item)
  \/ ~Replaceable(item) /\ consented' = TRUE /\ BeginDraft(item)
  \/ ~Replaceable(item) /\ consented' = FALSE /\ UNCHANGED editVars

(* A frame without a definition to edit it by, or none that decodes, is    *)
(* shown beside the draft: its inputs are gone.                            *)
ShowInvalid == inputs' = "none" /\ consented' = FALSE /\ UNCHANGED <<draft, serial, conversions>>

OpenAnswers(o) ==
  /\ opening' = opening \ {o}
  /\ \/ ShowItem(o.item)
     \/ ShowInvalid
     \/ consented' = FALSE /\ UNCHANGED editVars     \* refused or failed
  /\ UNCHANGED <<used, enabled, transmitVars>>

(* The live view (module LiveView) renders a new snapshot of the model.    *)
ModelRefresh ==
  /\ \/ ~HasDraft /\ \E item \in Items : ShowItem(item)
     \/ ~HasDraft /\ ShowInvalid
     \/ UNCHANGED editVars /\ consented' = FALSE
  /\ enabled' = Available(draft)
  /\ UNCHANGED <<opening, used, transmitVars>>

-----------------------------------------------------------------------------
(* Edits. *)

AskConversion(stage, complete) ==
  /\ serial < MaxSerial
  /\ serial' = serial + 1
  /\ conversions' = conversions \cup {Conversion(stage, serial + 1, complete)}
  /\ consented' = FALSE
  /\ UNCHANGED <<draft, inputs, opening, used, enabled, transmitVars>>

(* applySemanticDraftEdit: the values of the fields are read from the page;*)
(* the route controls stay there when the fields do not.                   *)
EditFields == HasSnapshot /\ inputs = "all" /\ AskConversion("compose", TRUE)
EditRoute ==
  /\ HasSnapshot /\ Snapshot.valid
  /\ AskConversion("compose", inputs = "all")

(* applyByteDraftEdit *)
EditBytes ==
  /\ HasSnapshot /\ inputs # "none"
  /\ \/ AskConversion("inspect", TRUE)
     \/ /\ used.malformed < MaxMalformed
        /\ used' = [used EXCEPT !.malformed = @ + 1]
        /\ Push([draft |-> draft.id, edit |-> 0, valid |-> FALSE])
        /\ consented' = FALSE
        /\ UNCHANGED <<serial, conversions, opening, transmitVars>>

Shown(d) ==
  /\ ShowDraft(d)
  /\ consented' = FALSE
  /\ UNCHANGED <<serial, conversions, opening, used, transmitVars>>

(* Mutant: after an undo the draft counts as unmodified. *)
MutantMoveHistory(delta) ==
  /\ HasDraft
  /\ draft.index + delta \in 1..Len(draft.history)
  /\ Shown([draft EXCEPT !.index = @ + delta, !.dirty = delta > 0])

(* moveDraftHistory, revertDraft *)
MoveHistory(delta) ==
  /\ HasDraft
  /\ draft.index + delta \in 1..Len(draft.history)
  /\ Shown([draft EXCEPT !.index = @ + delta, !.dirty = draft.index + delta > 1])

RevertDraft ==
  /\ HasSnapshot /\ draft.dirty
  /\ Shown([draft EXCEPT !.index = 1, !.dirty = FALSE])

DiscardDraft ==
  /\ HasDraft /\ serial < MaxSerial
  /\ draft' = NoDraft
  /\ serial' = serial + 1
  /\ enabled' = Available(NoDraft)
  /\ consented' = draft.dirty
  /\ UNCHANGED <<inputs, conversions, opening, used, transmitVars>>

-----------------------------------------------------------------------------
(* Answers of the server to conversions. *)

(* Mutant: only the draft is compared. *)
MutantOvertaken(c) == c.draft # draft.id

Overtaken(c) == c.token # serial

Answered(c) == conversions' = conversions \ {c}

(* Mutant: a refused base is reported and left. *)
MutantBeginAnswers(c) ==
  /\ c.stage = "begin" /\ ~Overtaken(c)
  /\ Answered(c)
  /\ \/ Push([draft |-> c.draft, edit |-> c.token, valid |-> TRUE])
     \/ UNCHANGED <<draft, inputs, enabled>>
  /\ UNCHANGED serial

(* The await of beginDraft ends. *)
BeginAnswers(c) ==
  /\ c.stage = "begin" /\ ~Overtaken(c)
  /\ Answered(c)
  /\ \/ Push([draft |-> c.draft, edit |-> c.token, valid |-> TRUE])
     \/ draft' = NoDraft /\ UNCHANGED <<inputs, enabled>>
  /\ UNCHANGED serial

(* A draft inspection succeeds and its fields are composed again. *)
InspectAnswers(c) ==
  /\ c.stage = "inspect" /\ ~Overtaken(c)
  /\ conversions' = (conversions \ {c}) \cup {[c EXCEPT !.stage = "compose"]}
  /\ UNCHANGED <<draft, serial, inputs, enabled>>

(* The frame is known, or one of the two requests was refused. *)
EditAnswers(c) ==
  /\ c.stage \in {"inspect", "compose"} /\ ~Overtaken(c)
  /\ Answered(c)
  /\ \E valid \in BOOLEAN :
       /\ valid => c.stage = "compose" /\ c.complete
       /\ Push([draft |-> c.draft, edit |-> c.token, valid |-> valid])
  /\ UNCHANGED serial

OvertakenAnswers(c) ==
  /\ Overtaken(c)
  /\ Answered(c)
  /\ UNCHANGED <<draft, serial, inputs, enabled>>

ConversionAnswers(c) ==
  /\ BeginAnswers(c) \/ InspectAnswers(c) \/ EditAnswers(c) \/ OvertakenAnswers(c)
  /\ consented' = FALSE
  /\ UNCHANGED <<opening, used, transmitVars>>

-----------------------------------------------------------------------------
(* Transmission (transmitFrame). *)

Tick ==
  /\ ~ticked /\ used.ticks < MaxTicks
  /\ ticked' = TRUE
  /\ used' = [used EXCEPT !.ticks = @ + 1]
  /\ consented' = FALSE
  /\ UNCHANGED <<editVars, opening, enabled, calls, ledger, sends>>

(* Without a draft there is no request identifier; a draft keeps its own   *)
(* until a result is known.                                                *)
Click ==
  /\ enabled /\ ticked /\ Available(draft)
  /\ used.clicks < MaxClicks
  /\ used' = [used EXCEPT !.clicks = @ + 1]
  /\ LET fresh == used.clicks + 1
         request == IF ~HasDraft THEN NoRequest
                    ELSE IF draft.request # NoRequest THEN draft.request ELSE fresh
     IN /\ draft' = IF HasDraft THEN [draft EXCEPT !.request = request] ELSE draft
        /\ calls' = calls \cup
             {[number |-> fresh, request |-> request, draft |-> draft.id,
               edit |-> IF HasDraft THEN Snapshot.edit ELSE 0, outcome |-> "none"]}
  /\ enabled' = FALSE
  /\ consented' = FALSE
  /\ UNCHANGED <<serial, inputs, conversions, opening, ticked, ledger, sends>>

(* The server (external to the page; module TransmitLedger): a result that *)
(* is kept is repeated for the same frame and refused for another one; the *)
(* radio may end without a known outcome.                                  *)
ServerTransmits(c) ==
  LET kept == {l \in ledger : l.request = c.request /\ c.request # NoRequest}
      ends(outcome) == calls' = (calls \ {c}) \cup {[c EXCEPT !.outcome = outcome]}
  IN
  /\ c.outcome = "none"
  /\ \/ /\ kept # {}
        /\ \E l \in kept :
             ends(IF l.draft = c.draft /\ l.edit = c.edit THEN l.outcome ELSE "refused")
        /\ UNCHANGED <<ledger, sends>>
     \/ /\ kept = {}
        /\ ends("refused")
        /\ UNCHANGED <<ledger, sends>>
     \/ /\ kept = {}
        /\ \E outcome \in {"sent", "unknown"} :
             /\ ends(outcome)
             /\ sends' = Append(sends, [c EXCEPT !.outcome = outcome])
             /\ ledger' = IF c.request = NoRequest THEN ledger
                          ELSE ledger \cup {[c EXCEPT !.outcome = outcome]}
  /\ consented' = FALSE
  /\ UNCHANGED <<editVars, opening, used, enabled, ticked>>

(* The answer arrives, or the connection fails (then nothing was learnt).  *)
TransmitAnswers(c) ==
  /\ c.outcome # "none"
  /\ calls' = calls \ {c}
  /\ \/ /\ c.outcome = "sent"
        /\ ticked' = FALSE
        /\ draft' = [draft EXCEPT !.request = NoRequest]
        /\ inputs' = "none"
     \/ /\ c.outcome = "unknown"
        /\ ticked' = FALSE
        /\ UNCHANGED <<draft, inputs>>
     \/ UNCHANGED <<ticked, draft, inputs>>
  /\ enabled' = Available(draft')
  /\ consented' = FALSE
  /\ UNCHANGED <<serial, conversions, opening, used, ledger, sends>>

-----------------------------------------------------------------------------
Gestures ==
  \/ \E item \in Items : Open(item)
  \/ EditFields \/ EditRoute \/ EditBytes
  \/ MoveHistory(-1) \/ MoveHistory(1) \/ RevertDraft \/ DiscardDraft
  \/ Tick \/ Click

Next ==
  \/ Gestures
  \/ \E o \in opening : OpenAnswers(o)
  \/ ModelRefresh
  \/ \E c \in conversions : ConversionAnswers(c)
  \/ \E c \in calls : ServerTransmits(c) \/ TransmitAnswers(c)

Spec == Init /\ [][Next]_vars

(* The server answers, or the browser gives up a request.                  *)
FairSpec == Spec /\ WF_vars(\E c \in conversions : ConversionAnswers(c))

-----------------------------------------------------------------------------
(* Properties. *)

(* Every variable keeps its type, and the index points into the history.   *)
TypeOK ==
  /\ draft \in Drafts /\ draft.index \in 0..Len(draft.history)
  /\ serial \in 0..MaxSerial
  /\ inputs \in {"none", "bytes", "all"}
  /\ \A c \in conversions : c.stage \in {"begin", "inspect", "compose"} /\ c.token \in 1..serial
  /\ {consented, ticked, enabled} \subseteq BOOLEAN
  /\ \A call \in calls : call.outcome \in {"none", "sent", "unknown", "refused"}

(* However late and in whatever order the server answers, the history of a *)
(* draft is that of its own edits: it begins with its own valid base, and  *)
(* goes on with edits of this draft, in the order in which they were asked *)
(* for, also after undo and redo (draftRequestSerial).                     *)
HistoryIsThisDraftsEdits ==
  LET h == draft.history IN
  h # <<>> =>
    /\ h[1] = [draft |-> draft.id, edit |-> draft.id, valid |-> TRUE]
    /\ \A i \in DOMAIN h : h[i].draft = draft.id
    /\ \A i, j \in DOMAIN h : i < j /\ h[j].edit # 0 => h[i].edit < h[j].edit

(* A draft that shows another frame than its base is not given up for      *)
(* another one, or dropped, unless the user agreed; only the very frame it *)
(* was made from may be opened anew without asking (mayReplaceDraft).      *)
ModifiedNeedsConsent ==
  [][draft.index > 1 /\ draft'.id # draft.id => consented' \/ draft'.base = draft.base]_vars

(* A draft does not stay "Validating base frame": no edit and no other     *)
(* draft overtakes the request that validates it without replacing it.     *)
DraftIsValidated == HasDraft /\ ~HasSnapshot ~> HasSnapshot \/ ~HasDraft

(* What the documents say of the confirmation: it is one-shot, so there is *)
(* no more than one transmission for each time it was ticked.              *)
OneSendPerConfirmation == Len(sends) <= used.ticks

=============================================================================
