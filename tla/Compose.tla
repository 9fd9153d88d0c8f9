------------------------------- MODULE Compose ------------------------------
(***************************************************************************)
(* The form in which a message of NDY Space is written: opened empty (or   *)
(* as a reply, which is prefilled with text only), from a draft, or as a   *)
(* forward, sent or saved as a draft, and closed at any time.  Of what is  *)
(* written only the attachments matter here; that text is lost with the    *)
(* form is told by its closing.                                            *)
(*                                                                         *)
(* The form is one component, mounted anew whenever it is opened.  A call  *)
(* it started goes on when it is closed, and when it succeeds closes       *)
(* whichever form the page then shows.  What the API does in several steps *)
(* is in Mail, and is one step here.                                       *)
(***************************************************************************)
EXTENDS Naturals

CONSTANTS
    Drafts,     \* rows of the folder DRAFTS (a bound)
    Own,        \* files in the Drive of the user
    Foreign,    \* files of others, attached to messages the user received
    Calls,      \* calls of the page in flight at once (a bound)
    None        \* null

\* What is assumed of the constants.
FilesAreSomeones == Own \cap Foreign = {} /\ None \notin Drafts

VARIABLES
    draft,      \* the attachments of each draft, null where there is none
    form,       \* the form that is open, null when none is
    call,       \* call[c]: what was submitted, and how far it has come
    picked,     \* history: files the user attached to the open form by hand
    taken,      \* history: how often the API took the open form
    unsure,     \* history: it took it and the answer was lost
    abandoned,  \* history: a form was closed while its call was in flight
    robbed      \* history: a form was closed by the call of another

vars == <<draft, form, call, picked, taken, unsure, abandoned, robbed>>

Files == Own \cup Foreign

\* want: the attachments prefilled, which seed brings in; offers: the files
\* of the picker; had: those of the draft when it was opened (history).
Form == [draft : Drafts \cup {None}, want : SUBSET Files, files : SUBSET Own,
         seed : {"none", "pending", "done"},
         offers : (SUBSET Own) \cup {None}, busy : BOOLEAN,
         touched : BOOLEAN, had : SUBSET Own]

NoneIsNoForm == None \notin Form

\* mine: the form it was submitted from is open; bare: it comes from a
\* draft, untouched, and lacks attachments that had (history).
Call == [pc : {"idle", "asked", "done", "failed"}, save : BOOLEAN,
         draft : Drafts \cup {None}, files : SUBSET Own,
         mine : BOOLEAN, bare : BOOLEAN]

Idle == [pc |-> "idle", save |-> FALSE, draft |-> None, files |-> {},
         mine |-> FALSE, bare |-> FALSE]

TypeOK ==
    /\ draft \in [Drafts -> (SUBSET Own) \cup {None}]
    /\ form \in Form \cup {None}
    /\ call \in [Calls -> Call]
    /\ picked \subseteq Own /\ taken \in 0..2
    /\ unsure \in BOOLEAN /\ abandoned \in BOOLEAN /\ robbed \in BOOLEAN

Init ==
    /\ draft = [d \in Drafts |-> None] /\ form = None
    /\ call = [c \in Calls |-> Idle]
    /\ picked = {} /\ taken = 0
    /\ unsure = FALSE /\ abandoned = FALSE /\ robbed = FALSE

Blank == [draft |-> None, want |-> {}, files |-> {}, seed |-> "none",
          offers |-> None, busy |-> FALSE, touched |-> FALSE, had |-> {}]

Open(f) ==
    /\ form = None /\ form' = f
    /\ picked' = {} /\ taken' = 0 /\ unsure' = FALSE
    /\ UNCHANGED <<draft, call, abandoned, robbed>>

OpenEmpty == Open(Blank)

\* What is prefilled of a draft does not include its attachments.
OpenDraft(d) ==
    /\ draft[d] # None
    /\ Open([Blank EXCEPT !.draft = d, !.had = draft[d]])

\* The message forwarded has the attachments fs.
OpenForward(fs) ==
    Open([Blank EXCEPT !.want = fs,
                       !.seed = IF fs = {} THEN "none" ELSE "pending"])

\* A mutant of Seeded: what was chosen by then is all that is kept.
SeededWithChosen(f) == [f EXCEPT !.seed = "done"]

\* A mutant of Seeded: all of them are.
SeededWithAll(f) == [f EXCEPT !.files = f.want, !.seed = "done"]

\* Of the attachments prefilled, those in the user's own Drive become the
\* attachments of the form, in place of any chosen by then.
Seeded(f) == [f EXCEPT !.files = f.want \cap Own, !.seed = "done"]

SeedLands ==
    /\ form # None /\ form.seed = "pending"
    /\ form' = Seeded(form)
    /\ UNCHANGED <<draft, call, picked, taken, unsure, abandoned, robbed>>

\* A failure is not reported, nor tried again.
SeedFails ==
    /\ form # None /\ form.seed = "pending"
    /\ form' = [form EXCEPT !.seed = "none", !.want = {}]
    /\ UNCHANGED <<draft, call, picked, taken, unsure, abandoned, robbed>>

\* The picker reads the Drive once; if that fails it is empty from then on.
OpenPicker ==
    /\ form # None /\ form.offers = None
    /\ \E fs \in {Own, {}} : form' = [form EXCEPT !.offers = fs]
    /\ UNCHANGED <<draft, call, picked, taken, unsure, abandoned, robbed>>

ToggleAttachment(f) ==
    /\ form # None
    /\ \/ f \in form.files
       \/ form.offers # None /\ f \in form.offers
    /\ LET off == f \in form.files IN
       /\ form' = [form EXCEPT !.touched = TRUE,
                     !.files = IF off THEN @ \ {f} ELSE @ \cup {f}]
       /\ picked' = IF off \/ form.seed = "pending" THEN picked \ {f}
                    ELSE picked \cup {f}
    /\ UNCHANGED <<draft, call, taken, unsure, abandoned, robbed>>

\* A mutant of MaySubmit: the buttons stay enabled during a call.
MaySubmitAgain == form # None

MaySubmit == form # None /\ ~form.busy

\* Sending, or saving as a draft.
Submit(c, save) ==
    /\ MaySubmit /\ call[c] = Idle
    /\ call' = [call EXCEPT ![c] =
                  [pc |-> "asked", save |-> save, draft |-> form.draft,
                   files |-> form.files, mine |-> TRUE,
                   bare |-> ~form.touched /\ form.files # form.had
                              /\ form.draft # None]]
    /\ form' = [form EXCEPT !.busy = TRUE]
    /\ UNCHANGED <<draft, picked, taken, unsure, abandoned, robbed>>

\* The API takes what call c submitted: a draft is rewritten, a new one is
\* created, a message is sent and the draft it was goes.
Take(c) ==
    LET d == call[c].draft IN
    /\ d # None => draft[d] # None
    /\ \/ ~call[c].save /\ d = None /\ draft' = draft
       \/ ~call[c].save /\ d # None /\ draft' = [draft EXCEPT ![d] = None]
       \/ /\ call[c].save
          /\ \E e \in Drafts :
                /\ IF d = None THEN draft[e] = None ELSE e = d
                /\ draft' = [draft EXCEPT ![e] = call[c].files]

End(c, pc) ==
    call' = [call EXCEPT ![c] = [Idle EXCEPT !.pc = pc, !.mine = call[c].mine]]

\* The answer may be lost, and fails for the page.
Taken(c) ==
    /\ call[c].pc = "asked" /\ Take(c)
    /\ \E pc \in {"done", "failed"} :
          /\ End(c, pc)
          /\ unsure' = (unsure \/ (call[c].mine /\ pc = "failed"))
    /\ taken' = IF call[c].mine /\ taken < 2 THEN taken + 1 ELSE taken
    /\ UNCHANGED <<form, picked, abandoned, robbed>>

\* There is no such draft any more, or the call fails on its way.
Refused(c) ==
    /\ call[c].pc = "asked" /\ End(c, "failed")
    /\ UNCHANGED <<draft, form, picked, taken, unsure, abandoned, robbed>>

\* The page's onClose: it shows no form.
Succeeded(c) ==
    /\ call[c].pc = "done"
    /\ form' = None
    /\ call' = [k \in Calls |-> IF k = c THEN Idle
                                ELSE [call[k] EXCEPT !.mine = FALSE]]
    /\ robbed' = (robbed \/ (form # None /\ ~call[c].mine))
    /\ picked' = {} /\ taken' = 0 /\ unsure' = FALSE
    /\ UNCHANGED <<draft, abandoned>>

\* Its own form, if it is still there, shows the error.
Failed(c) ==
    /\ call[c].pc = "failed"
    /\ call' = [call EXCEPT ![c] = Idle]
    /\ form' = IF call[c].mine THEN [form EXCEPT !.busy = FALSE] ELSE form
    /\ UNCHANGED <<draft, picked, taken, unsure, abandoned, robbed>>

\* Its buttons and the page behind it close the form, busy or not.
Close ==
    /\ form # None /\ form' = None
    /\ abandoned' = (abandoned \/ form.busy)
    /\ call' = [c \in Calls |-> [call[c] EXCEPT !.mine = FALSE]]
    /\ picked' = {} /\ taken' = 0 /\ unsure' = FALSE
    /\ UNCHANGED <<draft, robbed>>

Next ==
    \/ OpenEmpty \/ SeedLands \/ SeedFails \/ OpenPicker \/ Close
    \/ \E d \in Drafts : OpenDraft(d)
    \/ \E fs \in SUBSET Files : OpenForward(fs)
    \/ \E f \in Own : ToggleAttachment(f)
    \/ \E c \in Calls :
          \/ \E save \in BOOLEAN : Submit(c, save)
          \/ Taken(c) \/ Refused(c) \/ Succeeded(c) \/ Failed(c)

Spec == Init /\ [][Next]_vars

-----------------------------------------------------------------------------
(* Properties.                                                             *)

(* A form is closed by the call of another only after one was closed while *)
(* its call was in flight; and the API takes one form twice only when the  *)
(* answer to the first was lost.                                           *)
FormsAreTheirOwn ==
    /\ robbed => abandoned
    /\ taken > 1 => unsure

(* A file the user attached once the form was filled in stays attached     *)
(* until it is taken off; and a forward nobody touched carries those of    *)
(* the message's attachments that are the user's own, unless reading the   *)
(* Drive failed or was not awaited.                                        *)
AttachmentsStay ==
    form # None =>
        /\ picked \subseteq form.files
        /\ form.seed = "done" /\ ~form.touched =>
             form.files = form.want \cap Own

(* What the release notes say of a draft: it is saved, and one comes back  *)
(* to finish it.  A draft that is sent or saved again with its attachments *)
(* left alone has those it had.                                            *)
(* The code does not keep this: what is prefilled of a draft lacks them.   *)
DraftsComeBackWhole == \A c \in Calls : ~call[c].bare
-----------------------------------------------------------------------------
(* The inductive invariant: the open form has one call at most and is busy *)
(* during it, a call whose form is gone tells that one was closed while    *)
(* busy, a form was taken without doubt only if its answer is about to     *)
(* close it, and nothing counts as picked before the form is filled in.    *)

OneCallEach ==
    \A c \in Calls :
        /\ call[c].pc = "idle" => call[c] = Idle
        /\ call[c].mine => form # None /\ form.busy
        /\ call[c].pc # "idle" /\ ~call[c].mine => abandoned
        /\ \A k \in Calls : call[c].mine /\ call[k].mine => c = k

TakenIsAnswered ==
    taken > 0 /\ ~unsure => \E c \in Calls : call[c].mine /\ call[c].pc = "done"

PickedWhenFilled == form # None /\ form.seed = "pending" => picked = {}

Inv ==
    /\ TypeOK
    /\ OneCallEach
    /\ TakenIsAnswered
    /\ PickedWhenFilled
    /\ FormsAreTheirOwn
    /\ AttachmentsStay
=============================================================================
