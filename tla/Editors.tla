------------------------------- MODULE Editors ------------------------------
(***************************************************************************)
(* The dialogs in which a row is created or changed: notes, contacts and   *)
(* tasks of NDY Space, QR codes, and the profile.  A dialog is filled in   *)
(* from the row as the page has it, keeps what it was filled in with       *)
(* whatever the page hears later, and sends every field back; the API      *)
(* changes what it is sent.  Like the form of Compose it can be closed     *)
(* while its call goes on, whose success closes the dialog then shown.     *)
(*                                                                         *)
(* An editor is the kinds of field that it has, whether it creates or      *)
(* changes rows, and whether it stays when it has saved.  What happens to  *)
(* a field depends on no other: one editor is explored at a time, and one  *)
(* of its fields.  Other tabs, agents and the API change rows too.         *)
(***************************************************************************)
EXTENDS Naturals

CONSTANTS
    Rows,       \* rows edited or created (a bound)
    Calls,      \* calls of the page in flight at once (a bound)
    None        \* null

\* Kinds of field: one that is sent as it stands, one that is left out when
\* it is empty, and a date without its time of day.
Kinds == {"sent", "spared", "day"}

\* What a field holds; of a date "late" is the day "a" with a time of day.
Values == {"", "a", "b", "late"}
Blank(k) == IF k = "sent" THEN "a" ELSE ""

Holds(k) == CASE k = "sent" -> {"a", "b"} [] k = "spared" -> {"", "a"}
              [] OTHER -> {"", "a", "late"}

Editor(fields, creates, stays) ==
    [fields |-> fields, creates |-> creates, stays |-> stays]

NewNote == Editor({"sent"}, TRUE, FALSE)
EditNote == Editor({"sent"}, FALSE, FALSE)
NewContact == Editor({"sent", "spared"}, TRUE, FALSE)
EditContact == Editor({"sent", "spared"}, FALSE, FALSE)
NewTask == Editor({"spared", "day"}, TRUE, FALSE)
EditTask == Editor({"spared", "day"}, FALSE, FALSE)
UploadFile == NewNote
NewQrCode == NewContact
EditQrCode == EditNote
ProfileForm == Editor({"sent", "spared"}, FALSE, TRUE)

Editors == {NewNote, EditNote, NewContact, EditContact, NewTask, EditTask,
            UploadFile, NewQrCode, EditQrCode, ProfileForm}

VARIABLES
    editor,     \* the editor, one of Editors
    kind,       \* the kind of the field explored
    stored,     \* what that field holds in each row, null where there is none
    copy,       \* the same as the page has it
    form,       \* the dialog that is open, null when none is
    call,       \* call[c]: what was submitted, and how far it has come
    bent,       \* history: a save changed the field, though no one had typed
                \* in it or changed it since the page read it
    taken,      \* history: how often the API took the open dialog's row
    unsure,     \* history: it took it and the answer was lost
    abandoned,  \* history: a dialog was closed while its call was in flight
    robbed      \* history: a dialog was closed by the call of another

vars == <<editor, kind, stored, copy, form, call, bent, taken, unsure,
          abandoned, robbed>>

Omitted == "omitted"

\* base: what the field held as the page had it (history).
Form == [row : Rows \cup {None}, shown : Values, base : Values,
         typed : BOOLEAN, busy : BOOLEAN]

Call == [pc : {"idle", "asked", "done", "failed"}, row : Rows \cup {None},
         sent : Values \cup {Omitted}, base : Values, typed : BOOLEAN,
         mine : BOOLEAN]

NoneIsNoForm == None \notin Form

Idle == [pc |-> "idle", row |-> None, sent |-> Omitted, base |-> "",
         typed |-> FALSE, mine |-> FALSE]

TypeOK ==
    /\ editor \in Editors /\ kind \in editor.fields
    /\ stored \in [Rows -> Values \cup {None}]
    /\ copy \in [Rows -> Values \cup {None}]
    /\ form \in Form \cup {None} /\ call \in [Calls -> Call]
    /\ bent \in BOOLEAN /\ taken \in 0..2 /\ unsure \in BOOLEAN
    /\ abandoned \in BOOLEAN /\ robbed \in BOOLEAN

\* The page has just read its rows: one to change, or none.
Init ==
    /\ editor \in Editors /\ kind \in editor.fields
    /\ IF editor.creates THEN stored = [r \in Rows |-> None]
       ELSE \E one \in Rows, x \in Holds(kind) :
               stored = [r \in Rows |-> IF r = one THEN x ELSE None]
    /\ copy = stored
    /\ form = None /\ call = [c \in Calls |-> Idle] /\ bent = FALSE
    /\ taken = 0 /\ unsure = FALSE /\ abandoned = FALSE /\ robbed = FALSE

\* A mutant of Filled: the field is not filled in.
LeftBlank(x) == Blank(kind)

\* The field as the dialog is filled in with x.
Filled(x) == IF x = "late" THEN "a" ELSE x

Open ==
    /\ form = None
    /\ \E r \in IF editor.creates THEN {None}
              ELSE {s \in Rows : copy[s] # None} :
          LET x == IF r = None THEN Blank(kind) ELSE copy[r] IN
          form' = [row |-> r, shown |-> Filled(x), base |-> x, typed |-> FALSE,
                   busy |-> FALSE]
    /\ taken' = 0 /\ unsure' = FALSE
    /\ UNCHANGED <<editor, kind, stored, copy, call, bent, abandoned, robbed>>

\* A date is typed without its time of day.
Type(v) ==
    /\ form # None /\ v \in Holds(kind) \ {"late", form.shown}
    /\ form' = [form EXCEPT !.shown = v, !.typed = TRUE]
    /\ UNCHANGED <<editor, kind, stored, copy, call, bent, taken, unsure,
                   abandoned, robbed>>

\* A mutant of MaySubmit: the button stays enabled during a call.
MaySubmitAgain == form # None

MaySubmit == form # None /\ ~form.busy

\* What the page sends of the field.
Sent(v) == IF kind # "sent" /\ v = "" THEN Omitted ELSE v

Submit(c) ==
    /\ MaySubmit /\ call[c] = Idle
    /\ call' = [call EXCEPT ![c] =
          [pc |-> "asked", row |-> form.row, sent |-> Sent(form.shown),
           base |-> form.base, typed |-> form.typed, mine |-> TRUE]]
    /\ form' = [form EXCEPT !.busy = TRUE]
    /\ UNCHANGED <<editor, kind, stored, copy, bent, taken, unsure, abandoned,
                   robbed>>

\* What a field that holds x holds after v was sent.
Changed(x, v) == IF v = Omitted THEN x ELSE v

\* The API creates or changes the row.  The answer may be lost, and fails
\* for the page.
Taken(c) ==
    /\ call[c].pc = "asked"
    /\ \E r \in Rows, pc \in {"done", "failed"} :
          LET old == IF editor.creates THEN Blank(kind) ELSE stored[r]
              new == Changed(old, call[c].sent)
          IN
          /\ IF editor.creates THEN stored[r] = None
             ELSE r = call[c].row /\ stored[r] # None
          /\ stored' = [stored EXCEPT ![r] = new]
          /\ bent' = (bent \/ (/\ ~call[c].typed /\ new # old
                              /\ old = call[c].base))
          /\ call' = [call EXCEPT ![c] = [Idle EXCEPT !.pc = pc,
                                            !.mine = call[c].mine]]
          /\ unsure' = (unsure \/ (call[c].mine /\ pc = "failed"))
    /\ taken' = IF call[c].mine /\ editor.creates /\ taken < 2
                THEN taken + 1 ELSE taken
    /\ UNCHANGED <<editor, kind, copy, form, abandoned, robbed>>

\* There is no such row any more, or the call fails on its way.
Refused(c) ==
    /\ call[c].pc = "asked"
    /\ call' = [call EXCEPT ![c] = [Idle EXCEPT !.pc = "failed",
                                      !.mine = call[c].mine]]
    /\ UNCHANGED <<editor, kind, stored, copy, form, bent, taken, unsure,
                   abandoned, robbed>>

\* onUpdated and onClose, those of the page: it shows no dialog, unless the
\* editor stays, which then counts as filled in with what it shows.
Succeeded(c) ==
    /\ call[c].pc = "done"
    /\ IF editor.stays
       THEN /\ form' = [form EXCEPT !.busy = FALSE]
            /\ call' = [call EXCEPT ![c] = Idle]
            /\ UNCHANGED <<robbed, taken, unsure>>
       ELSE /\ form' = None
            /\ call' = [k \in Calls |-> IF k = c THEN Idle
                                        ELSE [call[k] EXCEPT !.mine = FALSE]]
            /\ robbed' = (robbed \/ (form # None /\ ~call[c].mine))
            /\ taken' = 0 /\ unsure' = FALSE
    /\ UNCHANGED <<editor, kind, stored, copy, bent, abandoned>>

\* Its own dialog, if it is still there, shows the error.
Failed(c) ==
    /\ call[c].pc = "failed"
    /\ call' = [call EXCEPT ![c] = Idle]
    /\ form' = IF call[c].mine THEN [form EXCEPT !.busy = FALSE] ELSE form
    /\ UNCHANGED <<editor, kind, stored, copy, bent, taken, unsure, abandoned,
                   robbed>>

\* The button and the page behind it close the dialog, busy or not.
Close ==
    /\ form # None /\ ~editor.stays /\ form' = None
    /\ abandoned' = (abandoned \/ form.busy)
    /\ call' = [c \in Calls |-> [call[c] EXCEPT !.mine = FALSE]]
    /\ taken' = 0 /\ unsure' = FALSE
    /\ UNCHANGED <<editor, kind, stored, copy, bent, robbed>>

\* Another tab, an agent or the API changes a row, or removes it.
OtherWrites(r) ==
    /\ stored[r] # None /\ ~editor.creates
    /\ \E x \in Holds(kind) \cup {None} : stored' = [stored EXCEPT ![r] = x]
    /\ UNCHANGED <<editor, kind, copy, form, call, bent, taken, unsure,
                   abandoned, robbed>>

\* The page hears of the rows as they are now; an open dialog does not.
Reread ==
    /\ copy # stored /\ copy' = stored
    /\ UNCHANGED <<editor, kind, stored, form, call, bent, taken, unsure,
                   abandoned, robbed>>

Next ==
    \/ Open \/ Close \/ Reread
    \/ \E v \in Values : Type(v)
    \/ \E r \in Rows : OtherWrites(r)
    \/ \E c \in Calls : Submit(c) \/ Taken(c) \/ Refused(c) \/ Succeeded(c)
                          \/ Failed(c)

Spec == Init /\ [][Next]_vars

-----------------------------------------------------------------------------
(* Properties.                                                             *)

(* A dialog is closed by the call of another only after one was closed     *)
(* while its call was in flight; and one dialog creates two rows only when *)
(* the answer to the first was lost.                                       *)
DialogsAreTheirOwn ==
    /\ robbed => abandoned
    /\ taken > 1 => unsure

(* Saving a dialog changes nothing the user did not type in and no one     *)
(* else changed since the page read the row, but for the time of day of a  *)
(* date, which is lost whenever it is saved.                               *)
OnlyTypedIsChanged == bent => kind = "day"
-----------------------------------------------------------------------------
(* The inductive invariant.  The open dialog has at most one call, whose   *)
(* answer it waits for, and until a dialog was closed during its call      *)
(* there is no other; a dialog that creates rows was taken once at most    *)
(* while it waits for that answer; and a field no one typed in is sent as  *)
(* the page had it.                                                        *)

CallsAreItsOwn ==
    /\ \A c \in Calls :
          /\ call[c].mine => call[c].pc # "idle" /\ form # None /\ form.busy
          /\ ~abandoned /\ call[c].pc # "idle" => call[c].mine
    /\ \A c, d \in Calls : call[c].mine /\ call[d].mine => c = d
    /\ abandoned => ~editor.stays

TakenOnce ==
    /\ taken > 0 => editor.creates
    /\ taken > 0 /\ ~unsure =>
          \E c \in Calls : call[c].mine /\ call[c].pc = "done"

FieldsHold ==
    /\ \A r \in Rows : /\ stored[r] \in Holds(kind) \cup {None}
                       /\ copy[r] \in Holds(kind) \cup {None}
    /\ form # None =>
          /\ form.shown \in Holds(kind) \ {"late"} /\ form.base \in Holds(kind)
          /\ ~form.typed => form.shown = Filled(form.base)
    /\ \A c \in Calls : call[c].pc = "asked" =>
          /\ call[c].sent \in Holds(kind) \cup {Omitted}
          /\ call[c].base \in Holds(kind)
          /\ ~call[c].typed => call[c].sent = Sent(Filled(call[c].base))

Inv ==
    /\ TypeOK /\ CallsAreItsOwn /\ TakenOnce /\ FieldsHold
    /\ DialogsAreTheirOwn /\ OnlyTypedIsChanged
=============================================================================
