--------------------------- MODULE MCPagesProofs ----------------------------
(***************************************************************************)
(* Proofs about the pages of the browser, as MCPages explores them one at  *)
(* a time, for every value of the constants.                               *)
(*                                                                         *)
(* First the form in which messages are written, whose names MCPages takes *)
(* as they are; then the components whose modules it instances, in the     *)
(* names they have there: x1, x2, ... are the variables in the order in    *)
(* which the module declares them.  M is MailPage, L Lists, E Editors, S   *)
(* SettingsPage, P Photo, T EventTimes, F SignInForm, Q NdyQr.  Each       *)
(* module states its inductive invariant, Inv; here is that it holds at    *)
(* the start, that each action keeps it and that the properties follow.    *)
(* At the end what holds of all parts.                                     *)
(***************************************************************************)
EXTENDS MCPages, FiniteSetTheorems, TLAPS

-----------------------------------------------------------------------------
(* The form in which messages are written.                                 *)

\* The fields of the calls that end, and of those whose form is closed.
LEMMA Ended ==
  ASSUME NEW pc \in {"done", "failed"}, NEW mine \in BOOLEAN
  PROVE  /\ [Idle EXCEPT !.pc = pc, !.mine = mine] \in Call
         /\ [Idle EXCEPT !.pc = pc, !.mine = mine].pc = pc
         /\ [Idle EXCEPT !.pc = pc, !.mine = mine].mine = mine
<1>1. PICK a : a = [Idle EXCEPT !.pc = pc]
  OBVIOUS
<1>2. a = [pc |-> pc, save |-> FALSE, draft |-> None, files |-> {},
           mine |-> FALSE, bare |-> FALSE]
  BY <1>1 DEF Idle
<1>3. PICK b : b = [a EXCEPT !.mine = mine]
  OBVIOUS
<1>4. b = [pc |-> pc, save |-> FALSE, draft |-> None, files |-> {},
           mine |-> mine, bare |-> FALSE]
  BY <1>2, <1>3
<1>5. b = [Idle EXCEPT !.pc = pc, !.mine = mine]
  BY <1>1, <1>3
<1>6. b \in Call /\ b.pc = pc /\ b.mine = mine
  BY <1>4 DEF Call
<1> QED
  BY <1>5, <1>6

LEMMA AtRest == Idle \in Call /\ Idle.pc = "idle" /\ Idle.mine = FALSE
BY DEF Call, Idle

LEMMA Orphaned ==
  ASSUME NEW x \in Call
  PROVE  /\ [x EXCEPT !.mine = FALSE] \in Call
         /\ [x EXCEPT !.mine = FALSE].pc = x.pc
         /\ [x EXCEPT !.mine = FALSE].mine = FALSE
         /\ x = Idle => [x EXCEPT !.mine = FALSE] = Idle
<1>1. PICK y : y = [x EXCEPT !.mine = FALSE]
  OBVIOUS
<1>2. y = [pc |-> x.pc, save |-> x.save, draft |-> x.draft, files |-> x.files,
           mine |-> FALSE, bare |-> x.bare]
  BY <1>1 DEF Call
<1>3. y \in Call /\ y.pc = x.pc /\ y.mine = FALSE
  BY <1>2 DEF Call
<1>4. x = Idle => y = Idle
  BY <1>2 DEF Idle
<1> QED
  BY <1>1, <1>3, <1>4

\* No form is open at the start.
LEMMA InitInv == ASSUME Init PROVE Inv
<1>1. /\ draft = [d \in Drafts |-> None] /\ form = None
      /\ call = [c \in Calls |-> Idle] /\ picked = {} /\ taken = 0
      /\ unsure = FALSE /\ abandoned = FALSE /\ robbed = FALSE
  BY DEF Init
<1>2. TypeOK
  <2>1. taken \in 0..2
    BY <1>1
  <2> QED
    BY <1>1, <2>1, AtRest DEF TypeOK
<1>3. OneCallEach
  BY <1>1, AtRest DEF OneCallEach
<1> QED
  BY <1>1, <1>2, <1>3
  DEF Inv, TakenIsAnswered, PickedWhenFilled, FormsAreTheirOwn,
      AttachmentsStay

\* A form that is opened has no call.
LEMMA OpenInv ==
  ASSUME Inv, NEW f \in Form, Open(f), f.seed # "done" PROVE Inv'
<1>1. /\ form = None /\ form' = f /\ picked' = {} /\ taken' = 0 /\ unsure' = FALSE
      /\ UNCHANGED <<draft, call, abandoned, robbed>>
  BY DEF Open
<1>2. TypeOK'
  <2>1. taken' \in 0..2
    BY <1>1
  <2> QED
    BY <1>1, <2>1 DEF Inv, TypeOK
<1>3. OneCallEach'
  BY <1>1 DEF Inv, OneCallEach
<1> QED
  BY <1>1, <1>2, <1>3
  DEF Inv, TakenIsAnswered, PickedWhenFilled, FormsAreTheirOwn,
      AttachmentsStay

LEMMA OpenEmptyInv == ASSUME Inv, OpenEmpty PROVE Inv'
<1>1. Blank \in Form /\ Blank.seed # "done"
  BY DEF Blank, Form
<1> QED
  BY <1>1, OpenInv DEF OpenEmpty

LEMMA OpenDraftInv == ASSUME Inv, NEW d \in Drafts, OpenDraft(d) PROVE Inv'
<1>1. draft[d] \in SUBSET Own
  BY DEF OpenDraft, Inv, TypeOK
<1>2. PICK f : f = [Blank EXCEPT !.draft = d, !.had = draft[d]]
  OBVIOUS
<1>3. f = [draft |-> d, want |-> {}, files |-> {}, seed |-> "none",
           offers |-> None, busy |-> FALSE, touched |-> FALSE, had |-> draft[d]]
  BY <1>2 DEF Blank
<1>4. f \in Form /\ f.seed # "done"
  BY <1>1, <1>3 DEF Form
<1> QED
  BY <1>2, <1>4, OpenInv DEF OpenDraft

LEMMA OpenForwardInv == ASSUME Inv, NEW fs \in SUBSET Files, OpenForward(fs) PROVE Inv'
<1>1. PICK s : s = IF fs = {} THEN "none" ELSE "pending"
  OBVIOUS
<1>2. PICK f : f = [Blank EXCEPT !.want = fs, !.seed = s]
  OBVIOUS
<1>3. f = [draft |-> None, want |-> fs, files |-> {}, seed |-> s,
           offers |-> None, busy |-> FALSE, touched |-> FALSE, had |-> {}]
  BY <1>2 DEF Blank
<1>4. f \in Form /\ f.seed # "done"
  BY <1>1, <1>3 DEF Form
<1> QED
  BY <1>1, <1>2, <1>4, OpenInv DEF OpenForward

\* A step of the open form f that leaves its calls alone.
LEMMA FormStep ==
  ASSUME Inv, form # None, form' \in Form, form'.busy = form.busy,
         UNCHANGED <<draft, call, taken, unsure, abandoned, robbed>>,
         picked' \subseteq form'.files,
         form'.seed = "pending" => picked' = {},
         form'.seed = "done" /\ ~form'.touched => form'.files = form'.want \cap Own
  PROVE  Inv'
<1>1. form' # None /\ picked' \subseteq Own
  BY ConstantsAreSound DEF NoneIsNoForm, Form
<1>2. TypeOK'
  BY <1>1 DEF Inv, TypeOK
<1>3. OneCallEach'
  BY <1>1 DEF Inv, OneCallEach
<1> QED
  BY <1>2, <1>3
  DEF Inv, TakenIsAnswered, PickedWhenFilled, FormsAreTheirOwn,
      AttachmentsStay

\* What is prefilled lands when nothing was picked, or never.
LEMMA SeedLandsInv == ASSUME Inv, SeedLands PROVE Inv'
<1>1. form \in Form /\ form # None
  BY DEF SeedLands, Inv, TypeOK
<1>2. PICK g : g = [form EXCEPT !.files = form.want \cap Own, !.seed = "done"]
  OBVIOUS
<1>3. g = [draft |-> form.draft, want |-> form.want, files |-> form.want \cap Own,
           seed |-> "done", offers |-> form.offers, busy |-> form.busy,
           touched |-> form.touched, had |-> form.had]
  BY <1>1, <1>2 DEF Form
<1>4. form' = g /\ g \in Form
  <2>1. form' = g
    BY <1>2 DEF SeedLands, Seeded
  <2>2. g \in Form
    BY <1>1, <1>3 DEF Form
  <2> QED
    BY <2>1, <2>2
<1>5. /\ g.files = g.want \cap Own /\ g.seed = "done" /\ g.busy = form.busy
  BY <1>3
<1>6. picked' = {} /\ UNCHANGED <<draft, call, taken, unsure, abandoned, robbed>>
  BY DEF SeedLands, Inv, PickedWhenFilled
<1>7. picked' \subseteq g.files
  BY <1>6
<1> QED
  BY <1>1, <1>4, <1>5, <1>6, <1>7, FormStep

LEMMA SeedFailsInv == ASSUME Inv, SeedFails PROVE Inv'
<1>1. form \in Form /\ form # None
  BY DEF SeedFails, Inv, TypeOK
<1>2. PICK g : g = [form EXCEPT !.seed = "none", !.want = {}]
  OBVIOUS
<1>3. g = [draft |-> form.draft, want |-> {}, files |-> form.files,
           seed |-> "none", offers |-> form.offers, busy |-> form.busy,
           touched |-> form.touched, had |-> form.had]
  BY <1>1, <1>2 DEF Form
<1>4. form' = g /\ g \in Form /\ g.seed = "none" /\ g.busy = form.busy
  <2>1. form' = g
    BY <1>2 DEF SeedFails
  <2>2. g \in Form
    BY <1>1, <1>3 DEF Form
  <2> QED
    BY <1>3, <2>1, <2>2
<1>5. picked' = {} /\ UNCHANGED <<draft, call, taken, unsure, abandoned, robbed>>
  BY DEF SeedFails, Inv, PickedWhenFilled
<1> QED
  BY <1>1, <1>4, <1>5, FormStep

LEMMA OpenPickerInv == ASSUME Inv, OpenPicker PROVE Inv'
<1>1. form \in Form /\ form # None
  BY DEF OpenPicker, Inv, TypeOK
<1>2. PICK fs \in {Own, {}} : form' = [form EXCEPT !.offers = fs]
  BY DEF OpenPicker
<1>3. PICK g : g = [form EXCEPT !.offers = fs]
  OBVIOUS
<1>4. /\ g \in Form /\ g.busy = form.busy /\ g.files = form.files /\ g.seed = form.seed
      /\ g.touched = form.touched /\ g.want = form.want
  BY <1>1, <1>2, <1>3 DEF Form
<1>5. UNCHANGED <<draft, call, picked, taken, unsure, abandoned, robbed>> /\ form' = g
  BY <1>2, <1>3 DEF OpenPicker
<1>6. /\ picked \subseteq form.files
      /\ form.seed = "pending" => picked = {}
      /\ form.seed = "done" /\ ~form.touched => form.files = form.want \cap Own
  BY <1>1 DEF Inv, AttachmentsStay, PickedWhenFilled
<1> QED
  BY <1>1, <1>4, <1>5, <1>6, FormStep

\* What is picked is attached, and what is taken off is not picked.
LEMMA ToggleAttachmentInv ==
  ASSUME Inv, NEW f \in Own, ToggleAttachment(f) PROVE Inv'
<1>1. form \in Form /\ form # None
  BY DEF ToggleAttachment, Inv, TypeOK
<1>2. PICK fs : fs = IF f \in form.files THEN form.files \ {f} ELSE form.files \cup {f}
  OBVIOUS
<1>3. PICK g : g = [form EXCEPT !.touched = TRUE, !.files = fs]
  OBVIOUS
<1>4. g = [draft |-> form.draft, want |-> form.want, files |-> fs,
           seed |-> form.seed, offers |-> form.offers, busy |-> form.busy,
           touched |-> TRUE, had |-> form.had]
  BY <1>1, <1>3 DEF Form
<1>5. form' = g
  BY <1>2, <1>3 DEF ToggleAttachment
<1>6. g \in Form /\ g.busy = form.busy /\ g.files = fs /\ g.seed = form.seed /\ g.touched
  <2>1. fs \in SUBSET Own
    BY <1>1, <1>2 DEF Form
  <2>2. g \in Form
    BY <1>1, <1>4, <2>1 DEF Form
  <2> QED
    BY <1>4, <2>2
<1>7. /\ UNCHANGED <<draft, call, taken, unsure, abandoned, robbed>>
      /\ picked' = IF f \in form.files \/ form.seed = "pending" THEN picked \ {f}
                   ELSE picked \cup {f}
  BY DEF ToggleAttachment
<1>8. picked \subseteq form.files /\ (form.seed = "pending" => picked = {})
  BY <1>1 DEF Inv, AttachmentsStay, PickedWhenFilled
<1>9. picked' \subseteq fs /\ (form.seed = "pending" => picked' = {})
  BY <1>2, <1>7, <1>8
<1> QED
  BY <1>1, <1>5, <1>6, <1>7, <1>9, FormStep

\* A form is submitted when none of its calls is in flight.
LEMMA SubmitInv ==
  ASSUME Inv, NEW c \in Calls, NEW save \in BOOLEAN, Submit(c, save)
  PROVE  Inv'
<1>1. form \in Form /\ form # None /\ ~form.busy /\ call[c] = Idle
  BY DEF Submit, MaySubmit, Inv, TypeOK
<1>2. PICK g : g = [form EXCEPT !.busy = TRUE]
  OBVIOUS
<1>3. /\ g \in Form /\ g.busy /\ g.files = form.files /\ g.seed = form.seed
      /\ g.touched = form.touched /\ g.want = form.want /\ g # None
  BY <1>1, <1>2, ConstantsAreSound DEF Form, NoneIsNoForm
<1>4. PICK n : n = [pc |-> "asked", save |-> save, draft |-> form.draft,
                    files |-> form.files, mine |-> TRUE,
                    bare |-> ~form.touched /\ form.files # form.had
                               /\ form.draft # None]
  OBVIOUS
<1>5. n \in Call /\ n.pc = "asked" /\ n.mine
  BY <1>1, <1>4 DEF Call, Form
<1>6. /\ form' = g /\ call' = [call EXCEPT ![c] = n]
      /\ UNCHANGED <<draft, picked, taken, unsure, abandoned, robbed>>
  BY <1>2, <1>4 DEF Submit
<1>7. /\ call' \in [Calls -> Call] /\ call'[c] = n
      /\ \A k \in Calls : k # c => call'[k] = call[k]
  BY <1>5, <1>6 DEF Inv, TypeOK
<1>8. \A k \in Calls : ~call[k].mine
  BY <1>1 DEF Inv, OneCallEach
<1>9. TypeOK'
  BY <1>3, <1>6, <1>7 DEF Inv, TypeOK
<1>10. OneCallEach'
  BY <1>3, <1>5, <1>6, <1>7, <1>8 DEF Inv, OneCallEach
<1>11. TakenIsAnswered'
  BY <1>6, <1>8 DEF Inv, TakenIsAnswered
<1>12. PickedWhenFilled' /\ AttachmentsStay' /\ FormsAreTheirOwn'
  BY <1>1, <1>3, <1>6
  DEF Inv, PickedWhenFilled, AttachmentsStay, FormsAreTheirOwn
<1> QED
  BY <1>9, <1>10, <1>11, <1>12 DEF Inv

\* What the API takes leaves the drafts in their type.
LEMMA TakeTypes == ASSUME Inv, NEW c \in Calls, Take(c)
                   PROVE  draft' \in [Drafts -> (SUBSET Own) \cup {None}]
<1>1. call[c].files \in SUBSET Own /\ draft \in [Drafts -> (SUBSET Own) \cup {None}]
  BY DEF Inv, TypeOK, Call
<1>2. CASE draft' = draft
  BY <1>1, <1>2
<1>3. CASE draft' = [draft EXCEPT ![call[c].draft] = None]
  BY <1>1, <1>3
<1>4. ASSUME NEW e \in Drafts, draft' = [draft EXCEPT ![e] = call[c].files]
      PROVE  draft' \in [Drafts -> (SUBSET Own) \cup {None}]
  BY <1>1, <1>4
<1> QED
  BY <1>2, <1>3, <1>4 DEF Take

\* Only the one call of the open form is counted.
LEMMA TakenInv == ASSUME Inv, NEW c \in Calls, Taken(c) PROVE Inv'
<1>1. PICK pc \in {"done", "failed"} :
         /\ End(c, pc) /\ unsure' = (unsure \/ (call[c].mine /\ pc = "failed"))
  BY DEF Taken
<1>2. /\ call[c] \in Call /\ call[c].mine \in BOOLEAN /\ call[c].pc = "asked"
      /\ UNCHANGED <<form, picked, abandoned, robbed>>
      /\ taken' = IF call[c].mine /\ taken < 2 THEN taken + 1 ELSE taken
  BY DEF Taken, Inv, TypeOK, Call
<1>3. PICK n : n = [Idle EXCEPT !.pc = pc, !.mine = call[c].mine]
  OBVIOUS
<1>4. n \in Call /\ n.pc = pc /\ n.mine = call[c].mine
  BY <1>2, <1>3, Ended
<1>5. /\ call' \in [Calls -> Call] /\ call'[c] = n
      /\ \A k \in Calls : k # c => call'[k] = call[k]
  BY <1>1, <1>3, <1>4 DEF End, Inv, TypeOK
<1>6. TypeOK'
  BY <1>1, <1>2, <1>5, TakeTypes DEF Taken, Inv, TypeOK
<1>7. OneCallEach'
  BY <1>2, <1>4, <1>5 DEF Inv, OneCallEach
<1>8. call[c].mine => taken = 0 \/ unsure
  BY <1>2 DEF Inv, OneCallEach, TakenIsAnswered, TypeOK
<1>9. TakenIsAnswered' /\ FormsAreTheirOwn'
  <2>1. CASE call[c].mine
    <3>1. (taken' > 1 => taken # 0) /\ taken \in 0..2
      BY <2>1, <1>2 DEF Inv, TypeOK
    <3>2. unsure => unsure'
      BY <1>1
    <3>3. taken' > 1 => unsure'
      BY <2>1, <1>8, <3>1, <3>2
    <3>4. ~unsure' => pc = "done"
      BY <2>1, <1>1
    <3>5. TakenIsAnswered'
      BY <2>1, <1>4, <1>5, <3>4 DEF TakenIsAnswered
    <3> QED
      BY <1>2, <3>3, <3>5 DEF Inv, FormsAreTheirOwn
  <2>2. CASE ~call[c].mine
    BY <2>2, <1>1, <1>2, <1>5 DEF Inv, TakenIsAnswered, FormsAreTheirOwn
  <2> QED
    BY <2>1, <2>2
<1>10. PickedWhenFilled' /\ AttachmentsStay'
  BY <1>2 DEF Inv, PickedWhenFilled, AttachmentsStay
<1> QED
  BY <1>6, <1>7, <1>9, <1>10 DEF Inv

LEMMA RefusedInv == ASSUME Inv, NEW c \in Calls, Refused(c) PROVE Inv'
<1>2. /\ call[c] \in Call /\ call[c].mine \in BOOLEAN /\ call[c].pc = "asked"
      /\ UNCHANGED <<draft, form, picked, taken, unsure, abandoned, robbed>>
  BY DEF Refused, Inv, TypeOK, Call
<1>3. PICK n : n = [Idle EXCEPT !.pc = "failed", !.mine = call[c].mine]
  OBVIOUS
<1>4. n \in Call /\ n.pc = "failed" /\ n.mine = call[c].mine
  BY <1>2, <1>3, Ended
<1>5. /\ call' \in [Calls -> Call] /\ call'[c] = n
      /\ \A k \in Calls : k # c => call'[k] = call[k]
  BY <1>3, <1>4 DEF Refused, End, Inv, TypeOK
<1>6. TypeOK'
  BY <1>2, <1>5 DEF Inv, TypeOK
<1>7. OneCallEach'
  BY <1>2, <1>4, <1>5 DEF Inv, OneCallEach
<1>8. TakenIsAnswered'
  BY <1>2, <1>5 DEF Inv, TakenIsAnswered
<1> QED
  BY <1>2, <1>6, <1>7, <1>8
  DEF Inv, PickedWhenFilled, AttachmentsStay, FormsAreTheirOwn

\* The form is closed by its own call, or one was closed while busy.
LEMMA SucceededInv == ASSUME Inv, NEW c \in Calls, Succeeded(c) PROVE Inv'
<1>1. /\ call[c].pc = "done" /\ form' = None
      /\ picked' = {} /\ taken' = 0 /\ unsure' = FALSE
      /\ robbed' = (robbed \/ (form # None /\ ~call[c].mine))
      /\ call' = [k \in Calls |-> IF k = c THEN Idle ELSE [call[k] EXCEPT !.mine = FALSE]]
      /\ UNCHANGED <<draft, abandoned>>
  BY DEF Succeeded
<1>2. \A k \in Calls : call[k] \in Call
  BY DEF Inv, TypeOK
<1>3. /\ call' \in [Calls -> Call] /\ call'[c] = Idle
      /\ \A k \in Calls : k # c =>
            /\ call'[k].pc = call[k].pc /\ call'[k].mine = FALSE
            /\ call[k] = Idle => call'[k] = Idle
  BY <1>1, <1>2, Orphaned, AtRest
<1>4. Idle.pc = "idle" /\ Idle.mine = FALSE
  BY DEF Idle
<1>5. TypeOK'
  <2>1. taken' \in 0..2 /\ robbed' \in BOOLEAN
    BY <1>1 DEF Inv, TypeOK
  <2> QED
    BY <1>1, <1>3, <2>1 DEF Inv, TypeOK
<1>6. ASSUME NEW k \in Calls, k # c, call[k].pc # "idle" PROVE abandoned
  BY <1>1, <1>2, <1>6 DEF Inv, OneCallEach, Call
<1>7. OneCallEach'
  BY <1>1, <1>3, <1>4, <1>6 DEF Inv, OneCallEach
<1>8. FormsAreTheirOwn'
  <2>1. ~(taken' > 1)
    BY <1>1
  <2>2. /\ form # None /\ ~call[c].mine => abandoned
        /\ robbed => abandoned
    BY <1>1 DEF Inv, OneCallEach, FormsAreTheirOwn
  <2>3. robbed' => robbed \/ (form # None /\ ~call[c].mine)
    BY <1>1
  <2> QED
    BY <1>1, <2>1, <2>2, <2>3 DEF FormsAreTheirOwn
<1> QED
  BY <1>1, <1>5, <1>7, <1>8
  DEF Inv, TakenIsAnswered, PickedWhenFilled, AttachmentsStay

LEMMA FailedInv == ASSUME Inv, NEW c \in Calls, Failed(c) PROVE Inv'
<1>1. /\ call[c].pc = "failed" /\ call[c].mine \in BOOLEAN
      /\ call' = [call EXCEPT ![c] = Idle]
      /\ form' = IF call[c].mine THEN [form EXCEPT !.busy = FALSE] ELSE form
      /\ UNCHANGED <<draft, picked, taken, unsure, abandoned, robbed>>
  BY DEF Failed, Inv, TypeOK, Call
<1>2. /\ call' \in [Calls -> Call] /\ call'[c] = Idle
      /\ \A k \in Calls : k # c => call'[k] = call[k]
      /\ Idle.pc = "idle" /\ Idle.mine = FALSE
  BY <1>1, AtRest DEF Inv, TypeOK
<1>3. CASE call[c].mine
  <2>1. form \in Form /\ form # None
    BY <1>3 DEF Inv, OneCallEach, TypeOK
  <2>2. PICK g : g = [form EXCEPT !.busy = FALSE]
    OBVIOUS
  <2>3. /\ g \in Form /\ g.files = form.files /\ g.seed = form.seed
        /\ g.touched = form.touched /\ g.want = form.want /\ g # None
    BY <2>1, <2>2, ConstantsAreSound DEF Form, NoneIsNoForm
  <2>4. form' = g
    BY <1>1, <1>3, <2>2
  <2>5. TypeOK'
    BY <1>1, <1>2, <2>3, <2>4 DEF Inv, TypeOK
  <2>6. OneCallEach'
    BY <1>1, <1>2, <1>3 DEF Inv, OneCallEach
  <2>7. TakenIsAnswered'
    BY <1>1, <1>2, <1>3 DEF Inv, OneCallEach, TakenIsAnswered
  <2>8. PickedWhenFilled' /\ AttachmentsStay' /\ FormsAreTheirOwn'
    BY <1>1, <2>1, <2>3, <2>4
    DEF Inv, PickedWhenFilled, AttachmentsStay, FormsAreTheirOwn
  <2> QED
    BY <2>5, <2>6, <2>7, <2>8 DEF Inv
<1>4. CASE ~call[c].mine
  <2>1. TypeOK'
    BY <1>1, <1>2, <1>4 DEF Inv, TypeOK
  <2>2. OneCallEach' /\ TakenIsAnswered'
    BY <1>1, <1>2, <1>4 DEF Inv, OneCallEach, TakenIsAnswered
  <2> QED
    BY <1>1, <1>4, <2>1, <2>2
    DEF Inv, PickedWhenFilled, AttachmentsStay, FormsAreTheirOwn
<1> QED
  BY <1>3, <1>4

\* A call whose form is closed is one of a form that was busy.
LEMMA CloseInv == ASSUME Inv, Close PROVE Inv'
<1>1. /\ form # None /\ form' = None /\ abandoned' = (abandoned \/ form.busy)
      /\ call' = [c \in Calls |-> [call[c] EXCEPT !.mine = FALSE]]
      /\ picked' = {} /\ taken' = 0 /\ unsure' = FALSE
      /\ UNCHANGED <<draft, robbed>>
  BY DEF Close
<1>2. \A k \in Calls : call[k] \in Call
  BY DEF Inv, TypeOK
<1>3. /\ call' \in [Calls -> Call]
      /\ \A k \in Calls : /\ call'[k].pc = call[k].pc /\ call'[k].mine = FALSE
                          /\ call[k] = Idle => call'[k] = Idle
  BY <1>1, <1>2, Orphaned
<1>4. TypeOK'
  <2>1. taken' \in 0..2 /\ abandoned' \in BOOLEAN
    BY <1>1 DEF Inv, TypeOK
  <2> QED
    BY <1>1, <1>3, <2>1 DEF Inv, TypeOK
<1>5. OneCallEach'
  BY <1>1, <1>2, <1>3 DEF Inv, OneCallEach, Call
<1>6. FormsAreTheirOwn'
  <2>1. ~(taken' > 1)
    BY <1>1
  <2>2. robbed' => abandoned'
    BY <1>1 DEF Inv, FormsAreTheirOwn
  <2> QED
    BY <2>1, <2>2 DEF FormsAreTheirOwn
<1> QED
  BY <1>1, <1>4, <1>5, <1>6
  DEF Inv, TakenIsAnswered, PickedWhenFilled, AttachmentsStay

\* A step keeps the invariant.
LEMMA NextInv == ASSUME Inv, Next PROVE Inv'
<1>1. CASE OpenEmpty \/ SeedLands \/ SeedFails \/ OpenPicker \/ Close
  BY <1>1, OpenEmptyInv, SeedLandsInv, SeedFailsInv, OpenPickerInv, CloseInv
<1>2. ASSUME NEW d \in Drafts, OpenDraft(d) PROVE Inv'
  BY <1>2, OpenDraftInv
<1>3. ASSUME NEW fs \in SUBSET Files, OpenForward(fs) PROVE Inv'
  BY <1>3, OpenForwardInv
<1>4. ASSUME NEW f \in Own, ToggleAttachment(f) PROVE Inv'
  BY <1>4, ToggleAttachmentInv
<1>5. ASSUME NEW c \in Calls, NEW save \in BOOLEAN, Submit(c, save) PROVE Inv'
  BY <1>5, SubmitInv
<1>6. ASSUME NEW c \in Calls, Taken(c) \/ Refused(c) \/ Succeeded(c) \/ Failed(c)
      PROVE  Inv'
  BY <1>6, TakenInv, RefusedInv, SucceededInv, FailedInv
<1> QED
  BY <1>1, <1>2, <1>3, <1>4, <1>5, <1>6 DEF Next

\* So does no step.
LEMMA StutterInv == ASSUME Inv, UNCHANGED vars PROVE Inv'
BY
DEF Inv, vars, TypeOK, OneCallEach, TakenIsAnswered, PickedWhenFilled,
    FormsAreTheirOwn, AttachmentsStay

-----------------------------------------------------------------------------
(* Finite sets.                                                            *)

\* Finite sets and their sizes are in the part that counts what they are here.
LEMMA SameSets ==
  ASSUME NEW Y
  PROVE  Q!IsFiniteSet(Y) = IsFiniteSet(Y) /\ Q!Cardinality(Y) = Cardinality(Y)
<1>1. Q!IsFiniteSet(Y) = IsFiniteSet(Y)
  BY DEF Q!IsFiniteSet, IsFiniteSet
<1>2. Q!Cardinality(Y) = Cardinality(Y)
  BY DEF Q!Cardinality, Cardinality
<1> QED
  BY <1>1, <1>2

-----------------------------------------------------------------------------
(* The mailbox.                                                            *)

LEMMA MailboxAtRest ==
  /\ M!Idle \in M!Call /\ M!Idle.kind = "idle" /\ M!Idle.pc = "asked" /\ M!Idle.at = None
  /\ M!Idle.msg = None /\ M!Idle.got = {}
BY DEF M!Idle, M!Call

\* A call that loads a tab.
LEMMA MailboxLoadOf ==
  ASSUME NEW f \in Tabs
  PROVE  LET n == [M!Idle EXCEPT !.kind = "load", !.at = f] IN
         /\ n \in M!Call /\ n.kind = "load" /\ n.pc = "asked" /\ n.at = f
         /\ n.msg = None /\ n.got = {}
<1>1. PICK a : a = [M!Idle EXCEPT !.kind = "load"]
  OBVIOUS
<1>2. a = [kind |-> "load", pc |-> "asked", at |-> None, msg |-> None, got |-> {}]
  BY <1>1 DEF M!Idle
<1>3. PICK b : b = [a EXCEPT !.at = f]
  OBVIOUS
<1>4. b = [kind |-> "load", pc |-> "asked", at |-> f, msg |-> None, got |-> {}]
  BY <1>2, <1>3
<1>5. b = [M!Idle EXCEPT !.kind = "load", !.at = f]
  BY <1>1, <1>3
<1>6. b \in M!Call /\ b.kind = "load" /\ b.pc = "asked" /\ b.at = f /\ b.msg = None /\ b.got = {}
  BY <1>4 DEF M!Call
<1> QED
  BY <1>5, <1>6

\* What becomes of the calls when one becomes n.
LEMMA MailboxGoing ==
  ASSUME M!TypeOK, NEW c \in Calls, NEW n \in M!Call, x7' = [x7 EXCEPT ![c] = n]
  PROVE  /\ x7' \in [Calls -> M!Call] /\ x7'[c] = n
         /\ \A k \in Calls : k # c => x7'[k] = x7[k]
         /\ M!Loading' = IF n.kind = "load" THEN M!Loading \cup {c} ELSE M!Loading \ {c}
         /\ M!Asked' = IF n.kind \in {"idle", "load"} THEN M!Asked \ {c} ELSE M!Asked \cup {c}
<1>1. /\ x7' \in [Calls -> M!Call] /\ x7'[c] = n
      /\ \A k \in Calls : k # c => x7'[k] = x7[k]
  BY DEF M!TypeOK
<1> QED
  BY <1>1 DEF M!Loading, M!Asked

\* A message is in the trash after a step, is deleted, or was restored.
TrashedNext(m) == x1'[m] \in {"TRASH", None} \/ m \in x10'

\* A message stays where it was seen, or was restored.
LEMMA MailboxTrashedStays ==
  ASSUME x10 \subseteq x10',
         \A m \in Own : x1'[m] \in {x1[m], "TRASH", None} \/ m \in x10',
         \A m \in Own : x1[m] = None => x1'[m] = None
  PROVE  \A m \in Own : M!Trashed(m) => TrashedNext(m)
BY DEF M!Trashed, TrashedNext

\* What is to be shown of TrashIsKnown after a step.
LEMMA MailboxTrashKnown ==
  ASSUME \A k \in Calls :
            /\ x7'[k].kind = "erase" => TrashedNext(x7'[k].msg)
            /\ x7'[k].kind \in {"open", "move"} /\ x7'[k].pc = "answered"
                  /\ x7'[k].at = "TRASH" => TrashedNext(x7'[k].msg)
            /\ x7'[k].kind = "load" /\ x7'[k].at = "TRASH" =>
                  \A m \in x7'[k].got : TrashedNext(m),
         x5' # None /\ x5'.at = "TRASH" => TrashedNext(x5'.msg),
         x2' = "TRASH" /\ x3' # None /\ ~x8' =>
            \A m \in x3' : TrashedNext(m)
  PROVE  M!TrashIsKnown'
BY DEF M!TrashIsKnown, M!Trashed, TrashedNext

\* The page starts with the load of its first tab.
LEMMA MailboxInitInv == ASSUME M!Init PROVE M!Inv
<1>1. PICK c \in Calls : x7 = [k \in Calls |-> IF k # c THEN M!Idle
                              ELSE [M!Idle EXCEPT !.kind = "load", !.at = "INBOX"]]
  BY DEF M!Init
<1>2. PICK n : n = [M!Idle EXCEPT !.kind = "load", !.at = "INBOX"]
  OBVIOUS
<1>3. /\ n \in M!Call /\ n.kind = "load" /\ n.pc = "asked" /\ n.at = "INBOX"
      /\ n.msg = None /\ n.got = {}
  BY <1>2, MailboxLoadOf, ConstantsAreSound DEF M!TabsAreFolders
<1>4. \A k \in Calls : x7[k] = IF k = c THEN n ELSE M!Idle
  BY <1>1, <1>2
<1>5. /\ x1 \in [Own -> Tabs] /\ x2 = "INBOX" /\ x3 = None
      /\ x4 = {} /\ x5 = None /\ x6 = FALSE
      /\ x8 = FALSE /\ x9 = FALSE /\ x10 = {} /\ x11 = {} /\ x12 = None
  BY DEF M!Init
<1>6. M!TypeOK
  BY <1>1, <1>2, <1>3, <1>5, MailboxAtRest, ConstantsAreSound
  DEF M!TypeOK, M!TabsAreFolders
<1>7. "INBOX" # None
  BY ConstantsAreSound DEF M!TabsAreFolders
<1>8. M!Shapes
  BY <1>3, <1>4, <1>7, MailboxAtRest DEF M!Shapes
<1>9. M!TrashIsKnown
  BY <1>3, <1>4, <1>5, MailboxAtRest DEF M!TrashIsKnown
<1>10. M!Loading = {c}
  BY <1>3, <1>4, MailboxAtRest DEF M!Loading
<1>11. M!LoadsAreFresh
  BY <1>3, <1>4, <1>10 DEF M!LoadsAreFresh
<1>12. M!ListIsCurrent
  BY <1>3, <1>4, <1>5, MailboxAtRest DEF M!ListIsCurrent, M!Leaving
<1> QED
  BY <1>5, <1>6, <1>8, <1>9, <1>11, <1>12
  DEF M!Inv, M!ReaderIsCurrent, M!ErasedFromTrash

\* A call r is made, of a message the reader shows or of none while it is
\* closed, and nothing else changes but what is known to be restored.
LEMMA MailboxAskInv ==
  ASSUME M!Inv, NEW c \in Calls, NEW r \in M!Call, M!Ask(c, r), r.pc = "asked",
         r.kind \in {"open", "move", "erase", "empty", "trash"},
         r.msg # None <=> r.kind \in {"open", "move", "erase"},
         r.kind \in {"move", "empty", "trash"} => r.at # None,
         r.kind # "trash" => r.got = {},
         UNCHANGED <<x1, x2, x3, x4, x5, x8, x9, x11>>,
         x6' \in BOOLEAN, x10 \subseteq x10', x10' \subseteq Own,
         r.kind = "erase" => M!Trashed(r.msg) \/ r.msg \in x10',
         r.kind \in {"open", "empty", "trash"} => x5 = None,
         x5 # None => r.msg = x5.msg
  PROVE  M!Inv'
<1>1. /\ x7[c] = M!Idle /\ x7' = [x7 EXCEPT ![c] = r]
      /\ x12' = IF \E k \in Calls : x7[k].kind \notin {"idle", "load"}
                    THEN None ELSE IF r.kind = "open" THEN r.msg ELSE x12
  BY DEF M!Ask
<1>2. /\ x7' \in [Calls -> M!Call] /\ x7'[c] = r
      /\ \A k \in Calls : k # c => x7'[k] = x7[k]
      /\ M!Loading' = M!Loading \ {c} /\ M!Asked' = M!Asked \cup {c}
  BY <1>1, MailboxGoing DEF M!Inv
<1>3. c \notin M!Loading /\ c \notin M!Asked /\ M!Loading' = M!Loading
  BY <1>1, <1>2, MailboxAtRest DEF M!Loading, M!Asked
<1>4. r.msg \in Own \cup {None} /\ x12' \in Own \cup {None}
  BY <1>1 DEF M!Call, M!Inv, M!TypeOK
<1>5. M!TypeOK'
  BY <1>2, <1>4 DEF M!Inv, M!TypeOK
<1>6. M!Shapes'
  BY <1>2 DEF M!Inv, M!Shapes
<1>7. \A m \in Own : M!Trashed(m) => TrashedNext(m)
  BY MailboxTrashedStays
<1>8. M!TrashIsKnown'
  <2>1. ASSUME NEW k \in Calls
        PROVE  /\ x7'[k].kind = "erase" => TrashedNext(x7'[k].msg)
               /\ x7'[k].kind \in {"open", "move"} /\ x7'[k].pc = "answered"
                     /\ x7'[k].at = "TRASH" => TrashedNext(x7'[k].msg)
               /\ x7'[k].kind = "load" /\ x7'[k].at = "TRASH" =>
                     \A m \in x7'[k].got : TrashedNext(m)
    <3>1. CASE k = c
      <4>1. r.kind = "erase" => TrashedNext(r.msg)
        BY <1>4, <1>7 DEF TrashedNext
      <4> QED
        BY <3>1, <1>2, <4>1
    <3>2. CASE k # c
      <4>1. x7[k] \in M!Call
        BY DEF M!Inv, M!TypeOK
      <4> QED
        BY <3>2, <1>2, <1>7, <4>1 DEF M!Inv, M!TrashIsKnown, M!Shapes, M!Call
    <3> QED
      BY <3>1, <3>2
  <2>2. x5' # None /\ x5'.at = "TRASH" => TrashedNext(x5'.msg)
    BY <1>7 DEF M!Inv, M!TrashIsKnown, M!TypeOK
  <2>3. x2' = "TRASH" /\ x3' # None /\ ~x8' =>
           \A m \in x3' : TrashedNext(m)
    BY <1>7 DEF M!Inv, M!TrashIsKnown, M!TypeOK
  <2> QED
    BY <2>1, <2>2, <2>3, MailboxTrashKnown
<1>9. M!LoadsAreFresh'
  <2>1. \A k \in M!Loading : x7'[k] = x7[k]
    BY <1>2, <1>3 DEF M!Loading
  <2> QED
    BY <1>3, <2>1 DEF M!Inv, M!LoadsAreFresh, M!In
<1>10. M!Leaving' = M!Leaving
  BY <1>1, <1>2, MailboxAtRest DEF M!Leaving
<1>11. M!ListIsCurrent'
  <2>1. M!In(x2)' = M!In(x2)
    BY DEF M!In
  <2>2. (\A k \in Calls : x7'[k].kind \in {"empty", "trash"} => x7'[k].pc = "asked") =>
           \A k \in Calls : x7[k].kind \in {"empty", "trash"} => x7[k].pc = "asked"
    BY <1>1, <1>2, MailboxAtRest
  <2> QED
    BY <1>3, <1>10, <2>1, <2>2 DEF M!Inv, M!ListIsCurrent
<1>12. M!ReaderIsCurrent'
  <2> SUFFICES ASSUME x12' # None PROVE M!ReaderIsCurrent'
    BY DEF M!ReaderIsCurrent
  <2>1. M!Asked = {} /\ M!Asked' = {c}
    BY <1>1, <1>2 DEF M!Asked
  <2>2. x12' = IF r.kind = "open" THEN r.msg ELSE x12
    BY <1>1, <2>1 DEF M!Asked
  <2>3. x5 # None => x12' = x12 /\ x12 # None
    BY <2>2
  <2>4. x5 # None => /\ x5.msg = x12 /\ x1[x12] \in {x5.at, None}
                     /\ r.kind \in {"move", "erase"}
    BY <2>1, <2>3 DEF M!Inv, M!ReaderIsCurrent
  <2> QED
    BY <1>2, <2>1, <2>2, <2>3, <2>4 DEF M!ReaderIsCurrent
<1>13. M!ErasedFromTrash'
  BY DEF M!Inv, M!ErasedFromTrash
<1> QED
  BY <1>5, <1>6, <1>8, <1>9, <1>11, <1>12, <1>13 DEF M!Inv

\* Nothing but ticks and the reader's closing changes.
LEMMA MailboxStillInv ==
  ASSUME M!Inv, M!TypeOK', x5' \in {x5, None},
         UNCHANGED <<x1, x2, x3, x7, x8, x9, x10, x11, x12>>
  PROVE  M!Inv'
<1>1. M!Loading' = M!Loading /\ M!Asked' = M!Asked /\ M!Leaving' = M!Leaving /\ M!In(x2)' = M!In(x2)
  BY DEF M!Loading, M!Asked, M!Leaving, M!In
<1>2. M!Shapes' /\ M!LoadsAreFresh' /\ M!ListIsCurrent' /\ M!ErasedFromTrash'
  BY <1>1
  DEF M!Inv, M!Shapes, M!LoadsAreFresh, M!ListIsCurrent, M!ErasedFromTrash,
      M!In
<1>3. M!TrashIsKnown'
  BY DEF M!Inv, M!TrashIsKnown, M!Trashed
<1>4. M!ReaderIsCurrent'
  BY <1>1 DEF M!Inv, M!ReaderIsCurrent
<1> QED
  BY <1>2, <1>3, <1>4 DEF M!Inv

LEMMA MailboxTickInv == ASSUME M!Inv, NEW m \in Own, M!Tick(m) PROVE M!Inv'
<1>1. M!TypeOK'
  BY DEF M!Inv, M!TypeOK, M!Tick
<1> QED
  BY <1>1, MailboxStillInv DEF M!Tick

LEMMA MailboxCloseReaderInv == ASSUME M!Inv, M!CloseReader PROVE M!Inv'
<1>1. M!TypeOK'
  BY DEF M!Inv, M!TypeOK, M!CloseReader
<1> QED
  BY <1>1, MailboxStillInv DEF M!CloseReader

\* A load that starts under a list tells whether the list may be another's.
LEMMA MailboxStartLoadInv ==
  ASSUME M!Inv, NEW c \in Calls, NEW f \in Tabs, M!StartLoad(c, f),
         x7[c].kind \in {"idle", "empty", "trash"},
         UNCHANGED <<x1, x5, x10, x11, x12>>,
         x4' \subseteq Own, x6' \in BOOLEAN, x2' \in Tabs,
         x3' = None \/ (x3' = x3 /\ x2' = x2)
  PROVE  M!Inv'
<1>1. PICK n : n = [M!Idle EXCEPT !.kind = "load", !.at = f]
  OBVIOUS
<1>2. /\ n \in M!Call /\ n.kind = "load" /\ n.pc = "asked" /\ n.at = f
      /\ n.msg = None /\ n.got = {}
  BY <1>1, MailboxLoadOf
<1>3. /\ x7' = [x7 EXCEPT ![c] = n]
      /\ ~x8' => (~x8 \/ x3' = None) /\ M!Loading \ {c} = {}
      /\ x8' \in BOOLEAN /\ x9' \in BOOLEAN
      /\ ~x9' => M!Loading \ {c} = {}
  BY <1>1 DEF M!StartLoad
<1>4. /\ x7' \in [Calls -> M!Call] /\ x7'[c] = n
      /\ \A k \in Calls : k # c => x7'[k] = x7[k]
      /\ M!Loading' = M!Loading \cup {c} /\ M!Asked' = M!Asked \ {c}
  BY <1>2, <1>3, MailboxGoing DEF M!Inv
<1>5. c \notin M!Loading
  BY DEF M!Loading
<1>6. M!TypeOK'
  BY <1>3, <1>4 DEF M!Inv, M!TypeOK
<1>7. f # None
  BY ConstantsAreSound DEF M!TabsAreFolders
<1>8. M!Shapes'
  BY <1>2, <1>4, <1>7 DEF M!Inv, M!Shapes
<1>9. \A m \in Own : M!Trashed(m) => TrashedNext(m)
  BY MailboxTrashedStays
<1>10. M!TrashIsKnown'
  <2>1. ASSUME NEW k \in Calls
        PROVE  /\ x7'[k].kind = "erase" => TrashedNext(x7'[k].msg)
               /\ x7'[k].kind \in {"open", "move"} /\ x7'[k].pc = "answered"
                     /\ x7'[k].at = "TRASH" => TrashedNext(x7'[k].msg)
               /\ x7'[k].kind = "load" /\ x7'[k].at = "TRASH" =>
                     \A m \in x7'[k].got : TrashedNext(m)
    <3>1. CASE k = c
      BY <3>1, <1>2, <1>4
    <3>2. CASE k # c
      <4>1. x7[k] \in M!Call
        BY DEF M!Inv, M!TypeOK
      <4> QED
        BY <3>2, <1>4, <1>9, <4>1 DEF M!Inv, M!TrashIsKnown, M!Shapes, M!Call
    <3> QED
      BY <3>1, <3>2
  <2>2. x5' # None /\ x5'.at = "TRASH" => TrashedNext(x5'.msg)
    BY <1>9 DEF M!Inv, M!TrashIsKnown, M!TypeOK
  <2>3. x2' = "TRASH" /\ x3' # None /\ ~x8' =>
           \A m \in x3' : TrashedNext(m)
    BY <1>3, <1>9 DEF M!Inv, M!TrashIsKnown, M!TypeOK
  <2> QED
    BY <2>1, <2>2, <2>3, MailboxTrashKnown
<1>11. M!LoadsAreFresh'
  BY <1>2, <1>3, <1>4 DEF M!LoadsAreFresh
<1>12. M!ListIsCurrent'
  <2>1. M!Leaving' = M!Leaving
    BY <1>2, <1>4 DEF M!Leaving
  <2> QED
    BY <1>4, <2>1 DEF M!Inv, M!ListIsCurrent
<1>13. M!ReaderIsCurrent'
  <2>1. \A k \in M!Asked' : k \in M!Asked /\ x7'[k] = x7[k]
    BY <1>4 DEF M!Asked
  <2>2. (\A k \in M!Asked' : x7'[k].kind = "move" => x7'[k].pc = "asked") =>
           \A k \in M!Asked : x7[k].kind = "move" => x7[k].pc = "asked"
    BY <1>4, <2>1 DEF M!Asked
  <2> QED
    BY <2>1, <2>2 DEF M!Inv, M!ReaderIsCurrent
<1> QED
  BY <1>6, <1>8, <1>10, <1>11, <1>12, <1>13 DEF M!Inv, M!ErasedFromTrash

LEMMA MailboxSelectTabInv ==
  ASSUME M!Inv, NEW c \in Calls, NEW f \in Tabs, M!SelectTab(c, f) PROVE M!Inv'
<1>1. /\ M!StartLoad(c, f) /\ x7[c] = M!Idle /\ x3' = None /\ x4' = {} /\ x2' = f
      /\ UNCHANGED <<x1, x5, x6, x10, x11, x12>>
  BY DEF M!SelectTab, M!Blanked
<1>2. x7[c].kind = "idle" /\ x6' \in BOOLEAN
  BY <1>1, MailboxAtRest DEF M!Inv, M!TypeOK
<1> QED
  BY <1>1, <1>2, MailboxStartLoadInv

LEMMA MailboxActedOnSeveralInv ==
  ASSUME M!Inv, NEW c \in Calls, M!ActedOnSeveral(c) PROVE M!Inv'
<1>1. /\ M!StartLoad(c, x7[c].at) /\ x7[c].kind \in {"empty", "trash"}
      /\ x6' = FALSE
      /\ x4' = IF x7[c].kind = "trash" THEN {} ELSE x4
      /\ UNCHANGED <<x2, x3, x1, x5, x10, x11, x12>>
  BY DEF M!ActedOnSeveral, M!Answered
<1>2. x7[c].at \in Tabs /\ x2 \in Tabs /\ x4' \subseteq Own
  BY <1>1 DEF M!Inv, M!TypeOK, M!Shapes, M!Call
<1> QED
  BY <1>1, <1>2, MailboxStartLoadInv

\* What a call moves is what it names.
LEMMA MailboxMovedFacts ==
  ASSUME M!Inv, NEW ms \in SUBSET Own, NEW f \in Tabs \cup {None}, M!Moved(ms, f)
  PROVE  /\ x1' \in [Own -> Tabs \cup {None}]
         /\ \A m \in Own : x1'[m] = IF m \in ms /\ x1[m] # None THEN f ELSE x1[m]
BY DEF M!Moved, M!Inv, M!TypeOK

\* The API serves a call: what it sees in the trash is there.
LEMMA MailboxServeInv == ASSUME M!Inv, NEW c \in Calls, M!Serve(c) PROVE M!Inv'
<1>1. PICK r : r = x7[c]
  OBVIOUS
<1>2. r \in M!Call /\ r.kind # "idle" /\ r.pc = "asked"
  BY <1>1 DEF M!Serve, M!Inv, M!TypeOK
<1>3. /\ r.msg # None <=> r.kind \in {"open", "move", "erase"}
      /\ r.kind \in {"load", "move", "empty", "trash"} => r.at # None
      /\ r.kind # "trash" => r.got = {}
  BY <1>1, <1>2 DEF M!Inv, M!Shapes
<1>4. /\ r.msg # None => x1[r.msg] # None
      /\ \/ r.kind = "move" /\ M!Moved({r.msg}, r.at)
         \/ r.kind = "trash" /\ M!Moved(r.got, "TRASH")
         \/ r.kind = "erase" /\ M!Moved({r.msg}, None)
         \/ r.kind = "empty" /\ M!Moved(M!In("TRASH"), None)
         \/ r.kind \in {"load", "open"} /\ x1' = x1
      /\ x10' = IF r.kind = "move" /\ r.at # "TRASH"
                     THEN x10 \cup {r.msg} ELSE x10
      /\ x11' = IF r.kind = "erase" /\ x1[r.msg] # "TRASH"
                    THEN x11 \cup {r.msg} ELSE x11
      /\ UNCHANGED <<x2, x3, x4, x5, x6, x8, x12>>
  BY <1>1, <1>2 DEF M!Serve, M!Call
<1>5. /\ x9' \in BOOLEAN
      /\ ~x9' => /\ ~x9 /\ r.kind # "move"
                 /\ r.kind \in {"load", "open"} \/ M!Loading = {}
  BY <1>1 DEF M!Serve
<1>6. /\ r.kind \in {"open", "move", "erase"} => r.msg \in Own
      /\ r.kind \in {"load", "move", "empty", "trash"} => r.at \in Tabs
      /\ r.got \subseteq Own /\ M!In(r.at) \subseteq Own
      /\ r.at \in Tabs \cup {None} /\ r.msg \in Own \cup {None}
  BY <1>2, <1>3 DEF M!Call, M!In
<1>7. /\ x1' \in [Own -> Tabs \cup {None}]
      /\ \A m \in Own : x1[m] = None => x1'[m] = None
      /\ \A m \in Own : x1'[m] \in {x1[m], "TRASH", None} \/ m \in x10'
      /\ r.kind = "erase" =>
            \A m \in Own : x1'[m] = IF m = r.msg THEN None ELSE x1[m]
      /\ r.kind = "move" =>
            \A m \in Own : x1'[m] = IF m = r.msg THEN r.at ELSE x1[m]
  <2>1. CASE r.kind = "move"
    <3>1. {r.msg} \in SUBSET Own /\ M!Moved({r.msg}, r.at)
      BY <2>1, <1>4, <1>6
    <3>2. /\ x1' \in [Own -> Tabs \cup {None}]
          /\ \A m \in Own :
                x1'[m] = IF m \in {r.msg} /\ x1[m] # None THEN r.at ELSE x1[m]
      BY <2>1, <3>1, <1>3, <1>6, MailboxMovedFacts
    <3> QED
      BY <2>1, <3>2, <1>3, <1>4, <1>6
  <2>2. CASE r.kind = "trash"
    <3>1. M!Moved(r.got, "TRASH") /\ "TRASH" \in Tabs
      BY <2>2, <1>4, ConstantsAreSound DEF M!TabsAreFolders
    <3>2. /\ x1' \in [Own -> Tabs \cup {None}]
          /\ \A m \in Own :
                x1'[m] = IF m \in r.got /\ x1[m] # None THEN "TRASH" ELSE x1[m]
      BY <2>2, <3>1, <1>3, <1>6, MailboxMovedFacts
    <3> QED
      BY <2>2, <3>2, <1>4, <1>6
  <2>3. CASE r.kind = "erase"
    <3>1. {r.msg} \in SUBSET Own /\ M!Moved({r.msg}, None)
      BY <2>3, <1>4, <1>6
    <3>2. /\ x1' \in [Own -> Tabs \cup {None}]
          /\ \A m \in Own :
                x1'[m] = IF m \in {r.msg} /\ x1[m] # None THEN None ELSE x1[m]
      BY <2>3, <3>1, <1>3, <1>6, MailboxMovedFacts
    <3> QED
      BY <2>3, <3>2, <1>4, <1>6
  <2>4. CASE r.kind = "empty"
    <3>1. M!Moved(M!In("TRASH"), None) /\ M!In("TRASH") \in SUBSET Own
      BY <2>4, <1>4 DEF M!In
    <3>2. /\ x1' \in [Own -> Tabs \cup {None}]
          /\ \A m \in Own :
                x1'[m] = IF m \in M!In("TRASH") /\ x1[m] # None THEN None ELSE x1[m]
      BY <2>4, <3>1, <1>3, <1>6, MailboxMovedFacts
    <3> QED
      BY <2>4, <3>2, <1>4, <1>6
  <2>5. CASE r.kind \in {"load", "open"}
    BY <2>5, <1>4 DEF M!Inv, M!TypeOK
  <2> QED
    BY <1>4, <2>1, <2>2, <2>3, <2>4, <2>5
<1>8. r.kind \in {"load", "open"} => x1' = x1
  BY <1>4
<1>9. PICK n : n = [kind |-> r.kind, pc |-> "answered",
                    at |-> IF r.kind = "open" THEN x1[r.msg] ELSE r.at,
                    msg |-> r.msg, got |-> IF r.kind = "load" THEN M!In(r.at) ELSE {}]
  OBVIOUS
<1>10. /\ n.kind = r.kind /\ n.pc = "answered" /\ n.msg = r.msg
       /\ n.at = IF r.kind = "open" THEN x1[r.msg] ELSE r.at
       /\ n.got = IF r.kind = "load" THEN M!In(r.at) ELSE {}
  BY <1>9
<1>11. r.kind = "open" => x1[r.msg] \in Tabs
  BY <1>3, <1>4, <1>6 DEF M!Inv, M!TypeOK
<1>12. n \in M!Call /\ x7' = [x7 EXCEPT ![c] = n]
  <2>1. n.at \in Tabs \cup {None} /\ n.got \in SUBSET Own
    BY <1>6, <1>10, <1>11
  <2>2. n = [kind |-> r.kind, pc |-> "answered", at |-> n.at, msg |-> r.msg, got |-> n.got]
    BY <1>9, <1>10
  <2>3. n \in M!Call
    BY <1>2, <2>1, <2>2 DEF M!Call
  <2>4. x7' = [x7 EXCEPT ![c].pc = "answered", ![c].got = n.got, ![c].at = n.at]
    BY <1>1, <1>10 DEF M!Serve
  <2>5. PICK a : a = [r EXCEPT !.pc = "answered"]
    OBVIOUS
  <2>6. a = [kind |-> r.kind, pc |-> "answered", at |-> r.at, msg |-> r.msg, got |-> r.got]
    BY <1>2, <2>5 DEF M!Call
  <2>7. PICK b : b = [a EXCEPT !.got = n.got]
    OBVIOUS
  <2>8. b = [kind |-> r.kind, pc |-> "answered", at |-> r.at, msg |-> r.msg, got |-> n.got]
    BY <2>6, <2>7
  <2>9. [b EXCEPT !.at = n.at] = n
    BY <2>2, <2>8
  <2>10. x7' = [x7 EXCEPT ![c] = [[[x7[c] EXCEPT !.pc = "answered"]
                                EXCEPT !.got = n.got] EXCEPT !.at = n.at]]
    BY <2>4 DEF M!Inv, M!TypeOK
  <2> QED
    BY <1>1, <2>3, <2>5, <2>7, <2>9, <2>10
<1>13. /\ x7' \in [Calls -> M!Call] /\ x7'[c] = n
       /\ \A k \in Calls : k # c => x7'[k] = x7[k]
       /\ M!Loading' = M!Loading /\ M!Asked' = M!Asked
  <2>1. /\ x7' \in [Calls -> M!Call] /\ x7'[c] = n
        /\ \A k \in Calls : k # c => x7'[k] = x7[k]
    BY <1>12, MailboxGoing DEF M!Inv
  <2> QED
    BY <2>1, <1>1, <1>10 DEF M!Loading, M!Asked
<1>14. M!TypeOK'
  BY <1>4, <1>5, <1>6, <1>7, <1>13 DEF M!Inv, M!TypeOK
<1>15. M!Shapes'
  <2>1. n.kind = "open" => n.at # None
    BY <1>10, <1>11, ConstantsAreSound DEF M!TabsAreFolders
  <2> QED
    BY <1>2, <1>3, <1>10, <1>13, <2>1 DEF M!Inv, M!Shapes
<1>16. \A m \in Own : M!Trashed(m) => TrashedNext(m)
  BY <1>4, <1>7, MailboxTrashedStays
<1>17. M!TrashIsKnown'
  <2>1. ASSUME NEW k \in Calls
        PROVE  /\ x7'[k].kind = "erase" => TrashedNext(x7'[k].msg)
               /\ x7'[k].kind \in {"open", "move"} /\ x7'[k].pc = "answered"
                     /\ x7'[k].at = "TRASH" => TrashedNext(x7'[k].msg)
               /\ x7'[k].kind = "load" /\ x7'[k].at = "TRASH" =>
                     \A m \in x7'[k].got : TrashedNext(m)
    <3>1. CASE k = c
      <4>1. r.kind = "erase" => TrashedNext(r.msg)
        BY <1>1, <1>6, <1>16 DEF M!Inv, M!TrashIsKnown
      <4>2. r.kind = "open" /\ x1[r.msg] = "TRASH" => TrashedNext(r.msg)
        BY <1>8 DEF TrashedNext
      <4>3. r.kind = "move" /\ r.at = "TRASH" => TrashedNext(r.msg)
        BY <1>6, <1>7 DEF TrashedNext
      <4>4. r.kind = "load" /\ r.at = "TRASH" => \A m \in M!In(r.at) : TrashedNext(m)
        BY <1>8 DEF TrashedNext, M!In
      <4> QED
        BY <3>1, <1>10, <1>13, <4>1, <4>2, <4>3, <4>4
    <3>2. CASE k # c
      <4>1. x7[k] \in M!Call
        BY DEF M!Inv, M!TypeOK
      <4> QED
        BY <3>2, <1>13, <1>16, <4>1 DEF M!Inv, M!TrashIsKnown, M!Shapes, M!Call
    <3> QED
      BY <3>1, <3>2
  <2>2. x5' # None /\ x5'.at = "TRASH" => TrashedNext(x5'.msg)
    BY <1>4, <1>16 DEF M!Inv, M!TrashIsKnown, M!TypeOK
  <2>3. x2' = "TRASH" /\ x3' # None /\ ~x8' =>
           \A m \in x3' : TrashedNext(m)
    BY <1>4, <1>16 DEF M!Inv, M!TrashIsKnown, M!TypeOK
  <2> QED
    BY <2>1, <2>2, <2>3, MailboxTrashKnown
<1>18. M!LoadsAreFresh'
  <2> SUFFICES ASSUME ~x9', NEW k \in M!Loading
               PROVE  /\ M!Loading = {k}
                      /\ x7'[k].pc = "answered" =>
                            x7'[k].got = {m \in Own : x1'[m] = x7'[k].at}
    BY <1>13 DEF M!LoadsAreFresh, M!In
  <2>1. ~x9 /\ r.kind \in {"load", "open"} /\ x1' = x1
    BY <1>5, <1>8
  <2>2. /\ M!Loading = {k} /\ k \in Calls
        /\ x7[k].pc = "answered" => x7[k].got = M!In(x7[k].at)
    BY <2>1 DEF M!Inv, M!LoadsAreFresh, M!Loading
  <2>3. CASE k = c
    <3>1. r.kind = "load"
      BY <1>1, <2>3 DEF M!Loading
    <3>2. x7'[k].at = r.at /\ x7'[k].got = M!In(r.at)
      BY <2>3, <3>1, <1>10, <1>13
    <3> QED
      BY <2>1, <2>2, <3>2 DEF M!In
  <2>4. CASE k # c
    BY <2>1, <2>2, <2>4, <1>13 DEF M!In
  <2> QED
    BY <2>3, <2>4
<1>19. M!ListIsCurrent'
  <2>1. M!Leaving' = IF r.kind = "erase" THEN M!Leaving \cup {r.msg} ELSE M!Leaving
    BY <1>1, <1>2, <1>6, <1>10, <1>13 DEF M!Leaving
  <2>2. \A m \in M!Leaving' : x1'[m] = None
    BY <1>7, <2>1 DEF M!Inv, M!ListIsCurrent, M!Leaving
  <2>3. ASSUME x3' # None, ~x8', ~x9', M!Loading' = {},
               \A k \in Calls : x7'[k].kind \in {"empty", "trash"} => x7'[k].pc = "asked"
        PROVE  x3' \ M!Leaving' = M!In(x2)'
    <3>1. r.kind \in {"open", "erase"}
      <4>1. r.kind \notin {"empty", "trash"}
        BY <2>3, <1>10, <1>13
      <4>2. r.kind # "load"
        BY <2>3, <1>1, <1>13 DEF M!Loading
      <4> QED
        BY <4>1, <4>2, <2>3, <1>2, <1>5 DEF M!Call
    <3>2. \A k \in Calls : x7[k].kind \in {"empty", "trash"} => x7[k].pc = "asked"
      BY <2>3, <3>1, <1>1, <1>2, <1>13
    <3>3. x3 \ M!Leaving = M!In(x2)
      BY <2>3, <3>2, <1>4, <1>5, <1>13 DEF M!Inv, M!ListIsCurrent
    <3>4. x2 \in Tabs /\ x2 # None
      BY ConstantsAreSound DEF M!Inv, M!TypeOK, M!TabsAreFolders
    <3>5. CASE r.kind = "open"
      BY <3>5, <3>3, <2>1, <1>4, <1>8 DEF M!In
    <3>6. CASE r.kind = "erase"
      <4>1. M!In(x2)' = M!In(x2) \ {r.msg}
        BY <3>6, <3>4, <1>4, <1>7 DEF M!In
      <4> QED
        BY <3>6, <4>1, <3>3, <2>1, <1>4
    <3> QED
      BY <3>1, <3>5, <3>6
  <2> QED
    BY <2>2, <2>3 DEF M!ListIsCurrent
<1>20. M!ReaderIsCurrent'
  <2> SUFFICES ASSUME x12 # None PROVE M!ReaderIsCurrent'
    BY <1>4 DEF M!ReaderIsCurrent
  <2>1. CASE r.kind = "load"
    <3>1. c \notin M!Asked /\ \A k \in M!Asked : k # c /\ x7'[k] = x7[k]
      BY <2>1, <1>1, <1>13 DEF M!Asked
    <3> QED
      BY <2>1, <3>1, <1>4, <1>8, <1>13 DEF M!Inv, M!ReaderIsCurrent
  <2>2. CASE r.kind # "load"
    <3>1. c \in M!Asked
      BY <2>2, <1>1, <1>2 DEF M!Asked
    <3>2. M!Asked = {c}
      BY <3>1 DEF M!Inv, M!ReaderIsCurrent
    <3>3. /\ x5 # None => /\ x5.msg = x12 /\ r.kind \in {"move", "erase"}
                          /\ r.msg = x12
          /\ r.kind = "open" => r.msg = x12
      BY <1>1, <3>1 DEF M!Inv, M!ReaderIsCurrent
    <3>4. n.kind \in {"open", "move"} => x1'[n.msg] \in {n.at, None}
      BY <1>6, <1>7, <1>8, <1>10
    <3>5. x5 # None /\ r.kind = "erase" => x1'[x12] = None
      BY <3>3, <1>6, <1>7
    <3> QED
      BY <1>4, <1>10, <1>13, <3>2, <3>3, <3>4, <3>5 DEF M!ReaderIsCurrent
  <2> QED
    BY <2>1, <2>2
<1>21. M!ErasedFromTrash'
  <2>1. r.kind = "erase" /\ x1[r.msg] # "TRASH" => r.msg \in x10
    BY <1>1, <1>3, <1>4 DEF M!Inv, M!TrashIsKnown, M!Trashed
  <2> QED
    BY <1>4, <2>1 DEF M!Inv, M!ErasedFromTrash
<1> QED
  BY <1>14, <1>15, <1>17, <1>18, <1>19, <1>20, <1>21 DEF M!Inv

\* A call ends: what it answered leaves Loading, Asked and Leaving with it.
LEMMA MailboxEnding ==
  ASSUME M!Inv, NEW c \in Calls, x7' = [x7 EXCEPT ![c] = M!Idle], x7[c].kind # "idle"
  PROVE  /\ x7' \in [Calls -> M!Call] /\ x7'[c] = M!Idle
         /\ \A k \in Calls : k # c => x7'[k] = x7[k]
         /\ M!Loading' = M!Loading \ {c} /\ M!Asked' = M!Asked \ {c}
         /\ M!Shapes'
         /\ M!Leaving' \subseteq M!Leaving
         /\ M!Leaving \subseteq M!Leaving' \cup {x7[c].msg}
         /\ x7[c].kind # "erase" \/ x7[c].pc = "asked" => M!Leaving' = M!Leaving
<1>1. M!Idle \in M!Call /\ M!Idle.kind = "idle"
  BY MailboxAtRest
<1>2. /\ x7' \in [Calls -> M!Call] /\ x7'[c] = M!Idle
      /\ \A k \in Calls : k # c => x7'[k] = x7[k]
      /\ M!Loading' = M!Loading \ {c} /\ M!Asked' = M!Asked \ {c}
  BY <1>1, MailboxGoing DEF M!Inv
<1>3. M!Shapes'
  BY <1>2, MailboxAtRest DEF M!Inv, M!Shapes
<1>4. M!Leaving' \subseteq M!Leaving /\ M!Leaving \subseteq M!Leaving' \cup {x7[c].msg}
  BY <1>1, <1>2 DEF M!Leaving
<1>5. x7[c].kind # "erase" \/ x7[c].pc = "asked" => M!Leaving' = M!Leaving
  BY <1>1, <1>2 DEF M!Leaving
<1> QED
  BY <1>2, <1>3, <1>4, <1>5

\* What the calls that go on know of the trash is still so.
LEMMA MailboxEndingTrash ==
  ASSUME M!Inv, NEW c \in Calls, x7'[c] = M!Idle,
         \A k \in Calls : k # c => x7'[k] = x7[k],
         \A m \in Own : M!Trashed(m) => TrashedNext(m),
         x5' # None /\ x5'.at = "TRASH" => TrashedNext(x5'.msg),
         x2' = "TRASH" /\ x3' # None /\ ~x8' =>
            \A m \in x3' : TrashedNext(m)
  PROVE  M!TrashIsKnown'
<1>1. ASSUME NEW k \in Calls
      PROVE  /\ x7'[k].kind = "erase" => TrashedNext(x7'[k].msg)
             /\ x7'[k].kind \in {"open", "move"} /\ x7'[k].pc = "answered"
                   /\ x7'[k].at = "TRASH" => TrashedNext(x7'[k].msg)
             /\ x7'[k].kind = "load" /\ x7'[k].at = "TRASH" =>
                   \A m \in x7'[k].got : TrashedNext(m)
  <2>1. CASE k = c
    BY <2>1, MailboxAtRest
  <2>2. CASE k # c
    <3>1. x7[k] \in M!Call
      BY DEF M!Inv, M!TypeOK
    <3> QED
      BY <2>2, <3>1 DEF M!Inv, M!TrashIsKnown, M!Shapes, M!Call
  <2> QED
    BY <2>1, <2>2
<1> QED
  BY <1>1, MailboxTrashKnown

\* A call that fails may have moved some messages to the trash.
LEMMA MailboxFailInv == ASSUME M!Inv, NEW c \in Calls, M!Fail(c) PROVE M!Inv'
<1>1. /\ x7[c].kind # "idle" /\ x7[c].pc = "asked" /\ x7' = [x7 EXCEPT ![c] = M!Idle]
      /\ x9' = TRUE
      /\ UNCHANGED <<x2, x3, x4, x5, x8, x10, x11, x12>>
  BY DEF M!Fail
<1>2. x6' \in BOOLEAN
  BY DEF M!Fail
<1>3. PICK ms \in SUBSET x7[c].got : M!Moved(ms, "TRASH")
  BY DEF M!Fail
<1>4. ms \in SUBSET Own /\ x7[c] \in M!Call
  BY DEF M!Inv, M!TypeOK, M!Call
<1>5. /\ x1' \in [Own -> Tabs \cup {None}]
      /\ \A m \in Own : x1'[m] = IF m \in ms /\ x1[m] # None THEN "TRASH" ELSE x1[m]
  BY <1>3, <1>4, MailboxMovedFacts, ConstantsAreSound DEF M!TabsAreFolders
<1>6. /\ x7' \in [Calls -> M!Call] /\ x7'[c] = M!Idle
      /\ \A k \in Calls : k # c => x7'[k] = x7[k]
      /\ M!Loading' = M!Loading \ {c} /\ M!Asked' = M!Asked \ {c}
      /\ M!Shapes'
      /\ M!Leaving' = M!Leaving
  BY <1>1, MailboxEnding
<1>7. M!TypeOK'
  BY <1>1, <1>2, <1>5, <1>6 DEF M!Inv, M!TypeOK
<1>8. \A m \in Own : M!Trashed(m) => TrashedNext(m)
  BY <1>1, <1>5, MailboxTrashedStays
<1>9. M!TrashIsKnown'
  <2>1. x5' # None /\ x5'.at = "TRASH" => TrashedNext(x5'.msg)
    BY <1>1, <1>8 DEF M!Inv, M!TrashIsKnown, M!TypeOK
  <2>2. x2' = "TRASH" /\ x3' # None /\ ~x8' =>
           \A m \in x3' : TrashedNext(m)
    BY <1>1, <1>8 DEF M!Inv, M!TrashIsKnown, M!TypeOK
  <2> QED
    BY <1>6, <1>8, <2>1, <2>2, MailboxEndingTrash
<1>10. M!LoadsAreFresh' /\ M!ErasedFromTrash'
  BY <1>1 DEF M!Inv, M!LoadsAreFresh, M!ErasedFromTrash
<1>11. M!ListIsCurrent'
  <2>1. \A m \in M!Leaving : m \in Own /\ x1'[m] = None
    BY <1>5 DEF M!Inv, M!ListIsCurrent, M!Leaving
  <2> QED
    BY <1>1, <1>6, <2>1 DEF M!ListIsCurrent
<1>12. M!ReaderIsCurrent'
  <2> SUFFICES ASSUME x12 # None PROVE M!ReaderIsCurrent'
    BY <1>1 DEF M!ReaderIsCurrent
  <2>1. CASE x7[c].kind = "trash"
    <3>1. M!Asked = {c} /\ x5 = None
      BY <2>1 DEF M!Inv, M!ReaderIsCurrent, M!Asked
    <3> QED
      BY <3>1, <1>1, <1>6 DEF M!ReaderIsCurrent
  <2>2. CASE x7[c].kind # "trash"
    <3>1. ms = {}
      BY <2>2, <1>1, <1>3 DEF M!Inv, M!Shapes
    <3>2. x1' = x1
      BY <3>1, <1>5 DEF M!Inv, M!TypeOK
    <3>3. \A k \in M!Asked' : k \in M!Asked /\ x7'[k] = x7[k]
      BY <1>6 DEF M!Asked
    <3>4. (\A k \in M!Asked' : x7'[k].kind = "move" => x7'[k].pc = "asked") =>
             \A k \in M!Asked : x7[k].kind = "move" => x7[k].pc = "asked"
      BY <1>1, <1>6, <3>3 DEF M!Asked
    <3> QED
      BY <1>1, <3>2, <3>3, <3>4 DEF M!Inv, M!ReaderIsCurrent
  <2> QED
    BY <2>1, <2>2
<1> QED
  BY <1>6, <1>7, <1>9, <1>10, <1>11, <1>12 DEF M!Inv

\* The list is what the load saw.
LEMMA MailboxLoadedInv == ASSUME M!Inv, NEW c \in Calls, M!Loaded(c) PROVE M!Inv'
<1>1. /\ x7[c].kind = "load" /\ x7[c].pc = "answered" /\ x3' = x7[c].got
      /\ x7' = [x7 EXCEPT ![c] = M!Idle]
      /\ x8' = (M!Loading \ {c} # {} \/ x7[c].at # x2)
      /\ UNCHANGED <<x1, x2, x4, x5, x6, x9, x10,
                     x11, x12>>
  BY DEF M!Loaded, M!Answered
<1>2. x7[c] \in M!Call /\ c \in M!Loading /\ c \notin M!Asked
  BY <1>1 DEF M!Inv, M!TypeOK, M!Loading, M!Asked
<1>3. /\ x7' \in [Calls -> M!Call] /\ x7'[c] = M!Idle
      /\ \A k \in Calls : k # c => x7'[k] = x7[k]
      /\ M!Loading' = M!Loading \ {c} /\ M!Asked' = M!Asked
      /\ M!Shapes'
      /\ M!Leaving' = M!Leaving
  <2>1. /\ x7' \in [Calls -> M!Call] /\ x7'[c] = M!Idle
        /\ \A k \in Calls : k # c => x7'[k] = x7[k]
        /\ M!Loading' = M!Loading \ {c} /\ M!Asked' = M!Asked \ {c}
        /\ M!Shapes'
        /\ M!Leaving' = M!Leaving
    BY <1>1, MailboxEnding
  <2> QED
    BY <1>2, <2>1
<1>4. M!TypeOK'
  BY <1>1, <1>2, <1>3 DEF M!Inv, M!TypeOK, M!Call
<1>5. \A m \in Own : M!Trashed(m) => TrashedNext(m)
  BY <1>1, MailboxTrashedStays
<1>6. M!TrashIsKnown'
  <2>1. x5' # None /\ x5'.at = "TRASH" => TrashedNext(x5'.msg)
    BY <1>1, <1>5 DEF M!Inv, M!TrashIsKnown, M!TypeOK
  <2>2. x2' = "TRASH" /\ x3' # None /\ ~x8' =>
           \A m \in x3' : TrashedNext(m)
    BY <1>1, <1>2, <1>5 DEF M!Inv, M!TrashIsKnown, M!Call
  <2> QED
    BY <1>3, <1>5, <2>1, <2>2, MailboxEndingTrash
<1>7. M!LoadsAreFresh'
  BY <1>1, <1>2, <1>3 DEF M!Inv, M!LoadsAreFresh
<1>8. M!ListIsCurrent'
  <2>1. ~x8' /\ ~x9' => x3' = M!In(x2)
    BY <1>1, <1>2 DEF M!Inv, M!LoadsAreFresh
  <2>2. M!In(x2) \cap M!Leaving = {}
    BY ConstantsAreSound
    DEF M!In, M!Inv, M!ListIsCurrent, M!TypeOK, M!TabsAreFolders
  <2>3. M!In(x2)' = M!In(x2)
    BY <1>1 DEF M!In
  <2>4. \A m \in M!Leaving' : x1'[m] = None
    BY <1>1, <1>3 DEF M!Inv, M!ListIsCurrent
  <2>5. ~x8' /\ ~x9' => x3' \ M!Leaving' = M!In(x2)'
    BY <1>3, <2>1, <2>2, <2>3
  <2> QED
    BY <2>4, <2>5 DEF M!ListIsCurrent
<1>9. M!ReaderIsCurrent'
  <2>1. \A k \in M!Asked : x7'[k] = x7[k]
    BY <1>2, <1>3 DEF M!Asked
  <2> QED
    BY <1>1, <1>3, <2>1 DEF M!Inv, M!ReaderIsCurrent
<1> QED
  BY <1>1, <1>3, <1>4, <1>6, <1>7, <1>8, <1>9 DEF M!Inv, M!ErasedFromTrash

\* What a call about one message brings: the list is what it was, but for one
\* that was deleted, and the reader shows what was clicked.
LEMMA MailboxAnsweredInv ==
  ASSUME M!Inv, NEW c \in Calls, x7[c].pc = "answered",
         x7[c].kind \in {"open", "move", "erase"},
         x7' = [x7 EXCEPT ![c] = M!Idle],
         UNCHANGED <<x1, x2, x4, x6, x8, x9, x10,
                     x11, x12>>,
         x3' = IF x7[c].kind # "erase" \/ x3 = None THEN x3
                   ELSE x3 \ {x7[c].msg},
         M!TypeOK',
         x5' # None =>
            \/ x5' = x5 /\ (x12 # None => x7[c].kind = "open")
            \/ x5'.msg = x7[c].msg /\ x5'.at = x7[c].at
               /\ x7[c].kind # "erase" /\ (x7[c].kind = "move" => x5 # None),
         x7[c].kind = "open" /\ x5' # None => x5' # x5 \/ x12 = None
                          \/ (x5'.msg = x7[c].msg /\ x5'.at = x7[c].at)
  PROVE  M!Inv'
<1>1. x7[c] \in M!Call /\ x7[c].msg \in Own /\ c \in M!Asked /\ c \notin M!Loading
  BY DEF M!Inv, M!TypeOK, M!Shapes, M!Call, M!Asked, M!Loading
<1>2. /\ x7' \in [Calls -> M!Call] /\ x7'[c] = M!Idle
      /\ \A k \in Calls : k # c => x7'[k] = x7[k]
      /\ M!Loading' = M!Loading /\ M!Asked' = M!Asked \ {c}
      /\ M!Shapes'
      /\ M!Leaving' \subseteq M!Leaving
      /\ M!Leaving \subseteq M!Leaving' \cup {x7[c].msg}
      /\ x7[c].kind # "erase" => M!Leaving' = M!Leaving
  <2>1. /\ x7' \in [Calls -> M!Call] /\ x7'[c] = M!Idle
        /\ \A k \in Calls : k # c => x7'[k] = x7[k]
        /\ M!Loading' = M!Loading \ {c} /\ M!Asked' = M!Asked \ {c}
        /\ M!Shapes'
        /\ M!Leaving' \subseteq M!Leaving
        /\ M!Leaving \subseteq M!Leaving' \cup {x7[c].msg}
        /\ x7[c].kind # "erase" => M!Leaving' = M!Leaving
    BY <1>1, MailboxEnding
  <2> QED
    BY <1>1, <2>1
<1>3. \A m \in Own : M!Trashed(m) => TrashedNext(m)
  BY MailboxTrashedStays
<1>4. M!TrashIsKnown'
  <2>1. x5' # None /\ x5'.at = "TRASH" => TrashedNext(x5'.msg)
    BY <1>1, <1>3 DEF M!Inv, M!TrashIsKnown, M!TypeOK
  <2>2. x2' = "TRASH" /\ x3' # None /\ ~x8' =>
           \A m \in x3' : TrashedNext(m)
    BY <1>3 DEF M!Inv, M!TrashIsKnown, M!TypeOK
  <2> QED
    BY <1>2, <1>3, <2>1, <2>2, MailboxEndingTrash
<1>5. M!LoadsAreFresh'
  BY <1>1, <1>2 DEF M!Inv, M!LoadsAreFresh, M!In, M!Loading
<1>6. M!ListIsCurrent'
  <2>1. M!In(x2)' = M!In(x2)
    BY DEF M!In
  <2>2. \A m \in M!Leaving' : x1'[m] = None
    BY <1>2 DEF M!Inv, M!ListIsCurrent
  <2>3. (\A k \in Calls : x7'[k].kind \in {"empty", "trash"} => x7'[k].pc = "asked") =>
           \A k \in Calls : x7[k].kind \in {"empty", "trash"} => x7[k].pc = "asked"
    BY <1>2
  <2>4. x3' # None => x3 # None
    OBVIOUS
  <2>5. x7[c].kind = "erase" => x7[c].msg \in M!Leaving
    BY <1>1 DEF M!Leaving
  <2>6. x3 # None => x3' \ M!Leaving' = x3 \ M!Leaving
    BY <1>2, <2>5
  <2> QED
    BY <1>2, <2>1, <2>2, <2>3, <2>4, <2>6 DEF M!Inv, M!ListIsCurrent
<1>7. M!ReaderIsCurrent'
  <2> SUFFICES ASSUME x12 # None PROVE M!ReaderIsCurrent'
    BY DEF M!ReaderIsCurrent
  <2>1. M!Asked = {c} /\ M!Asked' = {}
    BY <1>1, <1>2 DEF M!Inv, M!ReaderIsCurrent
  <2>2. ASSUME x5' # None
        PROVE  x5'.msg = x12 /\ x1[x12] \in {x5'.at, None}
    <3>1. /\ x7[c].kind = "open" => /\ x5 = None /\ x7[c].msg = x12
                                    /\ x1[x12] \in {x7[c].at, None}
          /\ x5 # None => x7[c].msg = x12
          /\ x7[c].kind = "move" => x1[x7[c].msg] \in {x7[c].at, None}
      BY <1>1, <2>1 DEF M!Inv, M!ReaderIsCurrent
    <3> QED
      BY <2>2, <3>1
  <2> QED
    BY <2>1, <2>2 DEF M!ReaderIsCurrent
<1> QED
  BY <1>2, <1>4, <1>5, <1>6, <1>7 DEF M!Inv, M!ErasedFromTrash

LEMMA MailboxOpenMessageInv ==
  ASSUME M!Inv, NEW c \in Calls, NEW m \in Own, M!OpenMessage(c, m) PROVE M!Inv'
<1>1. PICK r : r = [M!Idle EXCEPT !.kind = "open", !.msg = m]
  OBVIOUS
<1>2. r = [kind |-> "open", pc |-> "asked", at |-> None, msg |-> m, got |-> {}]
  <2>1. PICK a : a = [M!Idle EXCEPT !.kind = "open"]
    OBVIOUS
  <2>2. a = [kind |-> "open", pc |-> "asked", at |-> None, msg |-> None, got |-> {}]
    BY <2>1 DEF M!Idle
  <2>3. r = [a EXCEPT !.msg = m]
    BY <1>1, <2>1
  <2> QED
    BY <2>2, <2>3
<1>3. /\ r \in M!Call /\ r.kind = "open" /\ r.pc = "asked" /\ r.msg = m /\ r.msg # None
      /\ r.got = {}
  BY <1>2, ConstantsAreSound DEF M!Call, M!NoneIsNoMessage
<1>4. /\ M!Ask(c, r) /\ x5 = None
      /\ UNCHANGED <<x1, x2, x3, x4, x5, x6, x8, x9,
                     x10, x11>>
  BY <1>1 DEF M!OpenMessage
<1>5. x6' \in BOOLEAN /\ x10' \subseteq Own
  BY <1>4 DEF M!Inv, M!TypeOK
<1> QED
  BY <1>3, <1>4, <1>5, MailboxAskInv

LEMMA MailboxMoveToFolderInv ==
  ASSUME M!Inv, NEW c \in Calls, NEW m \in Own, M!MoveToFolder(c, m) PROVE M!Inv'
<1>1. PICK at \in {"TRASH", "INBOX"} :
         /\ IF at = "TRASH" THEN M!NotInTrash(m) ELSE M!InTrash(m)
         /\ M!Ask(c, [M!Idle EXCEPT !.kind = "move", !.at = at, !.msg = m])
  BY DEF M!MoveToFolder
<1>2. PICK r : r = [M!Idle EXCEPT !.kind = "move", !.at = at, !.msg = m]
  OBVIOUS
<1>3. r = [kind |-> "move", pc |-> "asked", at |-> at, msg |-> m, got |-> {}]
  <2>1. PICK a : a = [M!Idle EXCEPT !.kind = "move"]
    OBVIOUS
  <2>2. a = [kind |-> "move", pc |-> "asked", at |-> None, msg |-> None, got |-> {}]
    BY <2>1 DEF M!Idle
  <2>3. PICK b : b = [a EXCEPT !.at = at]
    OBVIOUS
  <2>4. b = [kind |-> "move", pc |-> "asked", at |-> at, msg |-> None, got |-> {}]
    BY <2>2, <2>3
  <2>5. r = [b EXCEPT !.msg = m]
    BY <1>2, <2>1, <2>3
  <2> QED
    BY <2>4, <2>5
<1>4. at \in Tabs /\ at # None
  BY ConstantsAreSound DEF M!TabsAreFolders
<1>5. /\ r \in M!Call /\ r.kind = "move" /\ r.pc = "asked" /\ r.msg = m /\ r.msg # None
      /\ r.at # None /\ r.got = {}
  BY <1>3, <1>4, ConstantsAreSound DEF M!Call, M!NoneIsNoMessage
<1>6. /\ M!Ask(c, r)
      /\ x5 # None => m = x5.msg
      /\ UNCHANGED <<x1, x2, x3, x4, x5, x6, x8, x9,
                     x10, x11>>
  BY <1>1, <1>2 DEF M!MoveToFolder, M!NotInTrash, M!InTrash
<1>7. x6' \in BOOLEAN /\ x10' \subseteq Own
  BY <1>6 DEF M!Inv, M!TypeOK
<1> QED
  BY <1>5, <1>6, <1>7, MailboxAskInv

LEMMA MailboxPermanentlyDeleteInv ==
  ASSUME M!Inv, NEW c \in Calls, NEW m \in Own, M!PermanentlyDelete(c, m)
  PROVE  M!Inv'
<1>1. PICK r : r = [M!Idle EXCEPT !.kind = "erase", !.msg = m]
  OBVIOUS
<1>2. r = [kind |-> "erase", pc |-> "asked", at |-> None, msg |-> m, got |-> {}]
  <2>1. PICK a : a = [M!Idle EXCEPT !.kind = "erase"]
    OBVIOUS
  <2>2. a = [kind |-> "erase", pc |-> "asked", at |-> None, msg |-> None, got |-> {}]
    BY <2>1 DEF M!Idle
  <2>3. r = [a EXCEPT !.msg = m]
    BY <1>1, <2>1
  <2> QED
    BY <2>2, <2>3
<1>3. /\ r \in M!Call /\ r.kind = "erase" /\ r.pc = "asked" /\ r.msg = m /\ r.msg # None
      /\ r.got = {}
  BY <1>2, ConstantsAreSound DEF M!Call, M!NoneIsNoMessage
<1>4. /\ M!InTrash(m) /\ M!Ask(c, r)
      /\ x10' = IF x8 /\ x5 = None THEN x10 \cup {m} ELSE x10
      /\ UNCHANGED <<x1, x2, x3, x4, x5, x6, x8, x9, x11>>
  BY <1>1 DEF M!PermanentlyDelete
<1>5. x6' \in BOOLEAN /\ x10' \subseteq Own /\ x10 \subseteq x10'
  BY <1>4 DEF M!Inv, M!TypeOK
<1>6. x5 # None => m = x5.msg
  BY <1>4 DEF M!InTrash
<1>7. M!Trashed(m) \/ m \in x10'
  BY <1>4 DEF M!InTrash, M!Inv, M!TrashIsKnown
<1> QED
  BY <1>3, <1>4, <1>5, <1>6, <1>7, MailboxAskInv

LEMMA MailboxEmptyTrashInv ==
  ASSUME M!Inv, NEW c \in Calls, M!EmptyTrash(c) PROVE M!Inv'
<1>1. PICK r : r = [M!Idle EXCEPT !.kind = "empty", !.at = x2]
  OBVIOUS
<1>2. r = [kind |-> "empty", pc |-> "asked", at |-> x2, msg |-> None, got |-> {}]
  <2>1. PICK a : a = [M!Idle EXCEPT !.kind = "empty"]
    OBVIOUS
  <2>2. a = [kind |-> "empty", pc |-> "asked", at |-> None, msg |-> None, got |-> {}]
    BY <2>1 DEF M!Idle
  <2>3. r = [a EXCEPT !.at = x2]
    BY <1>1, <2>1
  <2> QED
    BY <2>2, <2>3
<1>3. x2 \in Tabs /\ x2 # None
  BY ConstantsAreSound DEF M!Inv, M!TypeOK, M!TabsAreFolders
<1>4. /\ r \in M!Call /\ r.kind = "empty" /\ r.pc = "asked" /\ r.msg = None /\ r.at # None
      /\ r.got = {}
  BY <1>2, <1>3 DEF M!Call
<1>5. /\ M!Ask(c, r) /\ x5 = None /\ x6' = TRUE
      /\ UNCHANGED <<x1, x2, x3, x4, x5, x8, x9, x10, x11>>
  BY <1>1 DEF M!EmptyTrash
<1>6. x10' \subseteq Own /\ x10 \subseteq x10'
  BY <1>5 DEF M!Inv, M!TypeOK
<1> QED
  BY <1>4, <1>5, <1>6, MailboxAskInv

LEMMA MailboxBulkTrashInv ==
  ASSUME M!Inv, NEW c \in Calls, M!BulkTrash(c) PROVE M!Inv'
<1>1. PICK r : r = [M!Idle EXCEPT !.kind = "trash", !.at = x2, !.got = x4]
  OBVIOUS
<1>2. r = [kind |-> "trash", pc |-> "asked", at |-> x2, msg |-> None, got |-> x4]
  <2>1. PICK a : a = [M!Idle EXCEPT !.kind = "trash"]
    OBVIOUS
  <2>2. a = [kind |-> "trash", pc |-> "asked", at |-> None, msg |-> None, got |-> {}]
    BY <2>1 DEF M!Idle
  <2>3. PICK b : b = [a EXCEPT !.at = x2]
    OBVIOUS
  <2>4. b = [kind |-> "trash", pc |-> "asked", at |-> x2, msg |-> None, got |-> {}]
    BY <2>2, <2>3
  <2>5. r = [b EXCEPT !.got = x4]
    BY <1>1, <2>1, <2>3
  <2> QED
    BY <2>4, <2>5
<1>3. x2 \in Tabs /\ x2 # None /\ x4 \in SUBSET Own
  BY ConstantsAreSound DEF M!Inv, M!TypeOK, M!TabsAreFolders
<1>4. /\ r \in M!Call /\ r.kind = "trash" /\ r.pc = "asked" /\ r.msg = None /\ r.at # None
  BY <1>2, <1>3 DEF M!Call
<1>5. /\ M!Ask(c, r) /\ x5 = None /\ x6' = TRUE
      /\ UNCHANGED <<x1, x2, x3, x4, x5, x8, x9, x10, x11>>
  BY <1>1 DEF M!BulkTrash
<1>6. x10' \subseteq Own /\ x10 \subseteq x10'
  BY <1>5 DEF M!Inv, M!TypeOK
<1> QED
  BY <1>4, <1>5, <1>6, MailboxAskInv

LEMMA MailboxOpenedInv == ASSUME M!Inv, NEW c \in Calls, M!Opened(c) PROVE M!Inv'
<1>1. /\ x7[c].kind = "open" /\ x7[c].pc = "answered"
      /\ x5' = [msg |-> x7[c].msg, at |-> x7[c].at]
      /\ x7' = [x7 EXCEPT ![c] = M!Idle]
      /\ UNCHANGED <<x1, x2, x3, x4, x6, x8, x9, x10,
                     x11, x12>>
  BY DEF M!Opened, M!Answered
<1>2. x7[c] \in M!Call /\ x7[c].msg \in Own /\ x7[c].at \in Tabs
  BY <1>1 DEF M!Inv, M!TypeOK, M!Shapes, M!Call
<1>3. M!TypeOK'
  BY <1>1, <1>2, MailboxAtRest DEF M!Inv, M!TypeOK
<1>4. x5'.msg = x7[c].msg /\ x5'.at = x7[c].at
  BY <1>1
<1> QED
  BY <1>1, <1>3, <1>4, MailboxAnsweredInv

LEMMA MailboxMovedOneInv == ASSUME M!Inv, NEW c \in Calls, M!MovedOne(c) PROVE M!Inv'
<1>1. /\ x7[c].kind = "move" /\ x7[c].pc = "answered"
      /\ x5' = IF x5 # None /\ x5.msg = x7[c].msg
                   THEN [x5 EXCEPT !.at = x7[c].at] ELSE x5
      /\ x7' = [x7 EXCEPT ![c] = M!Idle]
      /\ UNCHANGED <<x1, x2, x3, x4, x6, x8, x9, x10,
                     x11, x12>>
  BY DEF M!MovedOne, M!MovedIn, M!Answered
<1>2. x7[c] \in M!Call /\ x7[c].msg \in Own /\ x7[c].at \in Tabs
  BY <1>1 DEF M!Inv, M!TypeOK, M!Shapes, M!Call
<1>3. x5 \in [msg : Own, at : Tabs] \cup {None}
  BY DEF M!Inv, M!TypeOK
<1>4. M!TypeOK'
  BY <1>1, <1>2, <1>3, MailboxAtRest DEF M!Inv, M!TypeOK
<1>5. x5 # None /\ x12 # None => x5.msg = x7[c].msg
  BY <1>1 DEF M!Inv, M!ReaderIsCurrent, M!Asked
<1>6. x5' # None =>
         \/ x5' = x5 /\ x12 = None
         \/ x5'.msg = x7[c].msg /\ x5'.at = x7[c].at /\ x5 # None
  BY <1>1, <1>3, <1>5
<1> QED
  BY <1>1, <1>4, <1>6, MailboxAnsweredInv

LEMMA MailboxErasedInv == ASSUME M!Inv, NEW c \in Calls, M!Erased(c) PROVE M!Inv'
<1>1. /\ x7[c].kind = "erase" /\ x7[c].pc = "answered"
      /\ x3' = IF x3 = None THEN None ELSE x3 \ {x7[c].msg}
      /\ x5' = IF x5 # None /\ x5.msg = x7[c].msg THEN None ELSE x5
      /\ x7' = [x7 EXCEPT ![c] = M!Idle]
      /\ UNCHANGED <<x1, x2, x4, x6, x8, x9, x10,
                     x11, x12>>
  BY DEF M!Erased, M!Answered
<1>2. M!TypeOK'
  BY <1>1, MailboxAtRest DEF M!Inv, M!TypeOK
<1>3. x5 # None /\ x12 # None => x5.msg = x7[c].msg
  BY <1>1 DEF M!Inv, M!ReaderIsCurrent, M!Asked
<1>4. x5' # None => x5' = x5 /\ x12 = None
  BY <1>1, <1>3
<1> QED
  BY <1>1, <1>2, <1>4, MailboxAnsweredInv

LEMMA MailboxNextInv == ASSUME M!Inv, M!Next PROVE M!Inv'
<1>1. CASE M!CloseReader
  BY <1>1, MailboxCloseReaderInv
<1>2. CASE \E m \in Own : M!Tick(m)
  BY <1>2, MailboxTickInv
<1>3. ASSUME NEW c \in Calls,
             \/ \E f \in Tabs : M!SelectTab(c, f)
             \/ \E m \in Own : M!OpenMessage(c, m) \/ M!MoveToFolder(c, m)
                                       \/ M!PermanentlyDelete(c, m)
             \/ M!EmptyTrash(c) \/ M!BulkTrash(c) \/ M!Serve(c) \/ M!Fail(c)
             \/ M!Loaded(c) \/ M!Opened(c) \/ M!MovedOne(c) \/ M!Erased(c)
             \/ M!ActedOnSeveral(c)
      PROVE  M!Inv'
  <2>1. CASE \E f \in Tabs : M!SelectTab(c, f)
    BY <2>1, MailboxSelectTabInv
  <2>2. CASE \E m \in Own : M!OpenMessage(c, m) \/ M!MoveToFolder(c, m)
                                    \/ M!PermanentlyDelete(c, m)
    BY <2>2, MailboxOpenMessageInv, MailboxMoveToFolderInv,
       MailboxPermanentlyDeleteInv
  <2>3. CASE M!EmptyTrash(c) \/ M!BulkTrash(c) \/ M!Serve(c) \/ M!Fail(c)
    BY <2>3, MailboxEmptyTrashInv, MailboxBulkTrashInv, MailboxServeInv,
       MailboxFailInv
  <2>4. CASE \/ M!Loaded(c) \/ M!Opened(c) \/ M!MovedOne(c) \/ M!Erased(c)
             \/ M!ActedOnSeveral(c)
    BY <2>4, MailboxLoadedInv, MailboxOpenedInv, MailboxMovedOneInv,
       MailboxErasedInv, MailboxActedOnSeveralInv
  <2> QED
    BY <1>3, <2>1, <2>2, <2>3, <2>4
<1> QED
  BY <1>1, <1>2, <1>3 DEF M!Next

LEMMA MailboxStutterInv == ASSUME M!Inv, UNCHANGED M!vars PROVE M!Inv'
<1>1. /\ UNCHANGED <<x1, x2, x3, x4, x5, x6, x7, x8>>
      /\ UNCHANGED <<x9, x10, x11, x12>>
  BY DEF M!vars
<1>2. M!TypeOK'
  BY <1>1 DEF M!Inv, M!TypeOK
<1> QED
  BY <1>1, <1>2, MailboxStillInv

LEMMA MailboxInvImplies ==
  ASSUME M!Inv PROVE M!TypeOK /\ M!PageSettles /\ M!ErasedFromTrash
<1> SUFFICES ASSUME M!Quiet PROVE M!PageSettles
  BY DEF M!Inv, M!PageSettles
<1>1. M!Loading = {} /\ M!Asked = {} /\ M!Leaving = {}
  BY MailboxAtRest DEF M!Quiet, M!Loading, M!Asked, M!Leaving
<1>2. \A c \in Calls : x7[c].kind \notin {"empty", "trash"}
  BY MailboxAtRest DEF M!Quiet
<1>3. x3 # None /\ ~x8 /\ ~x9 => x3 = M!In(x2)
  BY <1>1, <1>2 DEF M!Inv, M!ListIsCurrent
<1>4. x5 # None /\ x12 # None =>
         x5.msg = x12 /\ x1[x12] \in {x5.at, None}
  BY <1>1 DEF M!Inv, M!ReaderIsCurrent
<1> QED
  BY <1>3, <1>4 DEF M!PageSettles

-----------------------------------------------------------------------------
(* Lists and their actions.                                                *)

\* What every page is: one that patches has one list, which is not blanked.
PageIsSound(p) ==
  /\ p \in L!Page
  /\ p.after = "patch" =>
        /\ p.views = {"all"} /\ p.blank = {} /\ ~p.newest /\ "keep" \notin p.does

LEMMA ListPageFacts == ASSUME NEW p \in L!Pages PROVE PageIsSound(p)
<1>1. PageIsSound(L!QrCodes)
  BY DEF L!QrCodes, L!Patching, PageIsSound, L!Page
<1>2. PageIsSound(L!Signatures)
  BY DEF L!Signatures, L!Patching, PageIsSound, L!Page
<1>3. PageIsSound(L!Memory)
  BY DEF L!Memory, L!Patching, PageIsSound, L!Page
<1>4. PageIsSound(L!AiAgents)
  BY DEF L!AiAgents, L!Patching, PageIsSound, L!Page
<1>5. PageIsSound(L!Support)
  BY DEF L!Support, L!Patching, PageIsSound, L!Page
<1>6. PageIsSound(L!Passkeys)
  BY DEF L!Passkeys, L!Patching, PageIsSound, L!Page
<1>7. PageIsSound(L!ConnectedAccounts)
  BY DEF L!ConnectedAccounts, L!Patching, PageIsSound, L!Page
<1>8. PageIsSound(L!NotificationBell)
  BY DEF L!NotificationBell, L!Patching, PageIsSound, L!Page
<1>9. PageIsSound(L!Security)
  BY DEF L!Security, L!Reloading, L!Patching, PageIsSound, L!Page
<1>10. PageIsSound(L!BusinessRequests)
  BY DEF L!BusinessRequests, L!Reloading, L!Patching, PageIsSound, L!Page
<1>11. PageIsSound(L!Team)
  BY DEF L!Team, L!Reloading, L!Patching, PageIsSound, L!Page
<1>12. PageIsSound(L!OAuthClients)
  BY DEF L!OAuthClients, L!Reloading, L!Patching, PageIsSound, L!Page
<1>13. PageIsSound(L!SupportTickets)
  BY DEF L!SupportTickets, L!Reloading, L!Patching, PageIsSound, L!Page
<1>14. PageIsSound(L!UserManagement)
  BY DEF L!UserManagement, L!Reloading, L!Patching, PageIsSound, L!Page
<1>15. PageIsSound(L!RoleRequests)
  BY DEF L!RoleRequests, L!Reloading, L!Patching, PageIsSound, L!Page
<1>16. PageIsSound(L!IdentityReviews)
  BY
  DEF L!IdentityReviews, L!RoleRequests, L!Reloading, L!Patching, PageIsSound,
      L!Page
<1>17. PageIsSound(L!ManageMembership)
  BY DEF L!ManageMembership, L!Reloading, L!Patching, PageIsSound, L!Page
<1>18. PageIsSound(L!Tasks)
  BY DEF L!Tasks, L!Reloading, L!Patching, PageIsSound, L!Page
<1>19. PageIsSound(L!Calendar)
  BY DEF L!Calendar, L!Tasks, L!Reloading, L!Patching, PageIsSound, L!Page
<1>20. PageIsSound(L!DriveFiles)
  BY DEF L!DriveFiles, L!Tasks, L!Reloading, L!Patching, PageIsSound, L!Page
<1>21. PageIsSound(L!Bookmarks)
  BY DEF L!Bookmarks, L!Reloading, L!Patching, PageIsSound, L!Page
<1>22. PageIsSound(L!Contacts)
  BY DEF L!Contacts, L!Reloading, L!Patching, PageIsSound, L!Page
<1>23. PageIsSound(L!Notes)
  BY DEF L!Notes, L!Contacts, L!Reloading, L!Patching, PageIsSound, L!Page
<1>24. PageIsSound(L!SpaceNotifications)
  BY DEF L!SpaceNotifications, L!Reloading, L!Patching, PageIsSound, L!Page
<1> QED
  BY <1>1, <1>2, <1>3, <1>4, <1>5, <1>6, <1>7, <1>8, <1>9, <1>10, <1>11,
     <1>12, <1>13, <1>14, <1>15, <1>16, <1>17, <1>18, <1>19, <1>20, <1>21,
     <1>22, <1>23, <1>24
  DEF L!Pages

LEMMA ListAtRest ==
  /\ L!Idle \in L!Call /\ L!Idle.op = "idle" /\ L!Idle.row = None /\ L!Idle.to = None
  /\ L!Idle.view = "all" /\ ~L!Idle.ok /\ L!NoRows \in L!Rowset
BY DEF L!Idle, L!Call, L!NoRows, L!Rowset, L!Views

LEMMA ListLoadFacts ==
  ASSUME NEW v \in L!Views, NEW n, n = L!Load(v)
  PROVE  /\ n \in L!Call /\ n.op = "load" /\ n.row = None /\ n.to = None
         /\ n.view = v /\ ~n.ok
<1>1. PICK a : a = [L!Idle EXCEPT !.op = "load"]
  OBVIOUS
<1>2. n = [a EXCEPT !.view = v]
  BY <1>1 DEF L!Load
<1>3. a \in L!Call /\ a.op = "load" /\ a.row = None /\ a.to = None /\ ~a.ok
  BY <1>1, ListAtRest DEF L!Call
<1> QED
  BY <1>2, <1>3 DEF L!Call

\* What an action or a creation asks for.
AskedOf(o, r, t, v) == [L!Idle EXCEPT !.op = o, !.row = r, !.view = v, !.to = t]

Deeds == {"set", "settle", "mark", "delete", "keep", "create"}

LEMMA ListAskFacts ==
  ASSUME NEW o, o \in Deeds, NEW r, r \in Own, NEW t, t \in L!States \cup {None},
         NEW v, v \in L!Views, NEW n, n = AskedOf(o, r, t, v)
  PROVE  n \in L!Call /\ n.op = o /\ n.row = r /\ n.to = t /\ n.view = v /\ ~n.ok
<1>1. PICK a : a = [L!Idle EXCEPT !.op = o]
  OBVIOUS
<1>2. PICK b : b = [a EXCEPT !.row = r]
  OBVIOUS
<1>3. PICK d : d = [b EXCEPT !.view = v]
  OBVIOUS
<1>4. n = [d EXCEPT !.to = t]
  BY <1>1, <1>2, <1>3 DEF AskedOf
<1>5. a \in L!Call /\ a.op = o /\ ~a.ok
  BY <1>1, ListAtRest DEF L!Call, Deeds
<1>6. b \in L!Call /\ b.op = o /\ b.row = r /\ ~b.ok
  BY <1>2, <1>5 DEF L!Call
<1>7. d \in L!Call /\ d.op = o /\ d.row = r /\ d.view = v /\ ~d.ok
  BY <1>3, <1>6 DEF L!Call
<1> QED
  BY <1>4, <1>7 DEF L!Call

LEMMA ListedIsRows ==
  ASSUME NEW v \in L!Views, NEW rows \in L!Rowset
  PROVE  L!Listed(v, rows) \in L!Rowset /\ (v = "all" => L!Listed(v, rows) = rows)
BY DEF L!Listed, L!Rowset

LEMMA ListLastFacts ==
  ASSUME L!TypeOK, NEW c \in Calls, x9' = L!AnsweredLast(c)
  PROVE  /\ x9' \subseteq Calls \X Calls
         /\ \A k \in Calls : L!Answered(k)' <=> L!Answered(k) \/ k = c
         /\ \A j, k \in Calls :
               <<j, k>> \in x9' <=>
                  \/ <<j, k>> \in x9
                  \/ ~L!Answered(c) /\ k = c /\ (j = c \/ L!Answered(j))
<1>1. CASE L!Answered(c)
  BY <1>1 DEF L!AnsweredLast, L!Answered, L!TypeOK
<1>2. CASE ~L!Answered(c)
  <2>1. x9' = x9 \cup {<<k, c>> : k \in {j \in Calls : L!Answered(j)} \cup {c}}
    BY <1>2 DEF L!AnsweredLast
  <2>2. x9' \subseteq Calls \X Calls
    BY <2>1 DEF L!TypeOK
  <2>3. ASSUME NEW j \in Calls, NEW k \in Calls
        PROVE  <<j, k>> \in x9' <=>
                  <<j, k>> \in x9 \/ (k = c /\ (j = c \/ L!Answered(j)))
    BY <2>1
  <2> QED
    BY <1>2, <2>2, <2>3 DEF L!Answered
<1> QED
  BY <1>1, <1>2

LEMMA ListDeliveredFacts ==
  ASSUME L!TypeOK, NEW c \in Calls, L!Delivered(c)
  PROVE  /\ x9' \subseteq Calls \X Calls /\ L!Answered(c)
         /\ \A k \in Calls : L!Answered(k)' <=> L!Answered(k) /\ k # c
         /\ \A j, k \in Calls :
               <<j, k>> \in x9' <=> <<j, k>> \in x9 /\ j # c /\ k # c
<1>1. x9' = x9 \cap ((Calls \ {c}) \X (Calls \ {c})) /\ L!Answered(c)
  BY DEF L!Delivered
<1>2. ASSUME NEW j \in Calls, NEW k \in Calls
      PROVE  <<j, k>> \in x9' <=> <<j, k>> \in x9 /\ j # c /\ k # c
  BY <1>1
<1> QED
  BY <1>1, <1>2 DEF L!TypeOK, L!Answered

LEMMA ListInitInv == ASSUME L!Init PROVE L!Inv
<1>1. /\ x1 \in L!Pages /\ x2 \in L!Rowset /\ x3 = L!NoRows
      /\ x4 = x1.hides /\ x6 = {} /\ x7 = FALSE
      /\ x5 \in x1.views \cap {"all", "on"}
      /\ x9 = {} /\ x10 = {} /\ x13 = {}
      /\ x12 = FALSE /\ x14 = FALSE
  BY DEF L!Init
<1>2. PICK c \in Calls :
        x8 = [k \in Calls |-> IF k = c THEN L!Load(x5) ELSE L!Idle] /\ x11 = c
  BY DEF L!Init
<1>3. PageIsSound(x1) /\ x5 \in L!Views
  BY <1>1, ListPageFacts DEF L!Views
<1>4. PICK n : n = L!Load(x5)
  OBVIOUS
<1>5. n \in L!Call /\ n.op = "load" /\ n.row = None /\ n.view = x5 /\ ~n.ok
  BY <1>3, <1>4, ListLoadFacts
<1>6. /\ x8 \in [Calls -> L!Call] /\ x8[c] = n
      /\ \A k \in Calls : k # c => x8[k] = L!Idle
  BY <1>2, <1>4, <1>5, ListAtRest
<1>7. L!TypeOK
  <2>1. x1 \in L!Page /\ x4 \in BOOLEAN
    BY <1>1, <1>3 DEF PageIsSound, L!Page
  <2> QED
    BY <1>1, <1>2, <1>3, <1>6, <2>1, ListAtRest DEF L!TypeOK
<1>8. L!AnswersAreOrdered
  BY <1>1, <1>5, <1>6, ListAtRest DEF L!AnswersAreOrdered, L!Answered
<1>9. L!CallsAreWhole
  BY <1>5, <1>6, ListAtRest DEF L!CallsAreWhole, L!Acts
<1>10. L!PatchesOneList
  BY <1>1, <1>3, <1>5, <1>6, ListAtRest DEF L!PatchesOneList, PageIsSound
<1>11. L!RowsAreHeld
  BY <1>1, <1>5, <1>6, ListAtRest DEF L!RowsAreHeld, L!Acts
<1>12. L!Awaited(c)
  BY <1>1, <1>2, <1>5, <1>6 DEF L!Awaited, L!Unanswered, L!Answered
<1>13. L!ReadAgainInTime /\ L!PatchesAreFresh /\ L!RowsAreThere /\ L!RowsAreShown
  BY <1>5, <1>6, <1>12, ListAtRest
  DEF L!ReadAgainInTime, L!Rereads, L!PatchesAreFresh, L!RowsAreThere,
      L!RowsAreShown, L!Awaits
<1> QED
  BY <1>7, <1>8, <1>9, <1>10, <1>11, <1>13 DEF L!Inv

\* What a call that is asked changes, but for the buttons.
LEMMA ListAskedInv ==
  ASSUME L!Inv, NEW c \in Calls, x8[c].op = "idle", NEW n \in L!Call,
         x8' = [x8 EXCEPT ![c] = n], ~n.ok, n.op # "idle",
         IF n.op = "load" THEN n.row = None /\ x11' = c
         ELSE n.row \in Own /\ x11' = x11 /\ x3' = x3 /\ x5' = x5,
         x1.after = "patch" =>
            x3' = x3 /\ x5' = x5 /\ n.view = "all" /\ n.op # "keep",
         n.op = "delete" => n.to = None, n.op = "create" => n.to = "on",
         n.op \in {"set", "settle", "mark"} => n.to # None,
         n.op = "create" => /\ x2[n.row] = None
                            /\ \A k \in Calls : x8[k].op # "create" /\ x8[k].row # n.row,
         UNCHANGED <<x1, x2, x9, x10, x12>>
  PROVE  /\ L!AnswersAreOrdered' /\ L!CallsAreWhole' /\ L!PatchesOneList' /\ L!ReadAgainInTime'
         /\ L!PatchesAreFresh' /\ L!RowsAreThere' /\ L!RowsAreShown'
<1>1. x8 \in [Calls -> L!Call] /\ x9 \subseteq Calls \X Calls
  BY DEF L!Inv, L!TypeOK
<1>2. /\ x8' \in [Calls -> L!Call] /\ x8'[c] = n
      /\ \A k \in Calls : k # c => x8'[k] = x8[k]
  BY <1>1
<1>3. ~L!Answered(c) /\ ~x8[c].ok /\ c \notin x10
  BY DEF L!Inv, L!AnswersAreOrdered
<1>4. \A j, k \in Calls : <<j, k>> \in x9 => j # c /\ k # c
  BY <1>3 DEF L!Inv, L!AnswersAreOrdered
<1>5. L!AnswersAreOrdered'
  BY <1>2, <1>3 DEF L!Inv, L!AnswersAreOrdered, L!Answered
<1>6. L!CallsAreWhole'
  <2>1. L!Acts(c)' => n.row \in Own
    BY <1>2 DEF L!Acts
  <2>2. ~L!Acts(c)' => n.row = None
    BY <1>2 DEF L!Acts
  <2>3. \A k \in Calls : k # c => (L!Acts(k)' <=> L!Acts(k)) /\ (L!Unanswered(k)' <=> L!Unanswered(k))
    BY <1>2 DEF L!Acts, L!Unanswered, L!Answered
  <2> QED
    BY <1>2, <2>1, <2>2, <2>3 DEF L!Inv, L!CallsAreWhole
<1>7. L!PatchesOneList'
  BY <1>2 DEF L!Inv, L!PatchesOneList
<1>8. ASSUME x1.after = "reload" PROVE L!ReadAgainInTime'
  <2>1. ASSUME NEW d \in Calls, L!Awaited(d)', x8'[d].ok, d \notin x10
        PROVE  \/ x8'[d].got = L!Listed(x8'[d].view, x2)
               \/ \E k \in Calls \ {d} : /\ L!Rereads(k)'
                                         /\ L!Answered(k)' => <<d, k>> \in x9'
    <3>1. d # c /\ x8'[d] = x8[d]
      BY <1>2, <2>1
    <3>2. L!Awaited(d) /\ (x1.newest => x11' = x11)
      BY <2>1, <3>1 DEF L!Awaited, L!Unanswered, L!Answered
    <3>3. ASSUME NEW k \in Calls \ {d}, L!Rereads(k) PROVE L!Rereads(k)'
      BY <1>2, <1>3, <3>2, <3>3
      DEF L!Rereads, L!Awaited, L!Acts, L!Unanswered, L!Answered
    <3> QED
      BY <1>8, <2>1, <3>1, <3>2, <3>3
      DEF L!Inv, L!ReadAgainInTime, L!Answered, L!Awaited
  <2>2. x12' \/ x3' = L!Listed(x5', x2') \/ \E k \in Calls : L!Rereads(k)'
    <3>1. CASE n.op = "load"
      <4>1. L!Rereads(c)'
        BY <1>2, <1>3, <3>1 DEF L!Rereads, L!Awaited, L!Unanswered, L!Answered
      <4> QED
        BY <4>1
    <3>2. CASE n.op # "load"
      <4>1. ASSUME NEW k \in Calls, L!Rereads(k) PROVE L!Rereads(k)'
        BY <1>2, <1>3, <3>2, <4>1
        DEF L!Rereads, L!Awaited, L!Acts, L!Unanswered, L!Answered
      <4> QED
        BY <1>8, <3>2, <4>1 DEF L!Inv, L!ReadAgainInTime
    <3> QED
      BY <3>1, <3>2
  <2> QED
    BY <2>1, <2>2 DEF L!ReadAgainInTime
<1>9. ASSUME NEW k \in Calls, NEW r \in Own, L!Answers(k, r) PROVE L!Answers(k, r)' /\ k # c
  BY <1>2, <1>3, <1>9 DEF L!Answers, L!Acts, L!Answered
<1>10. ASSUME NEW d \in Calls, x8'[d].ok
       PROVE  d # c /\ x8'[d] = x8[d] /\ x8[d].ok /\ (L!Acts(d)' => x8[d].row \in Own)
  BY <1>2, <1>10 DEF L!Inv, L!CallsAreWhole, L!Acts
<1>11. L!PatchesAreFresh'
  <2>1. ASSUME x1.after = "patch", NEW d \in Calls, x8'[d].ok, d \notin x10, L!Acts(d)'
        PROVE  \/ x8'[d].to = x2'[x8'[d].row]
               \/ \E k \in Calls \ {d} : /\ L!Acts(k)' /\ L!Answered(k)'
                                         /\ x8'[k].row = x8'[d].row
                                         /\ <<d, k>> \in x9'
    <3>1. L!Acts(d) /\ x8[d].row \in Own /\ x8'[d] = x8[d] /\ x8[d].ok
      BY <1>10, <2>1 DEF L!Acts
    <3>2. \/ x8[d].to = x2[x8[d].row]
          \/ \E k \in Calls \ {d} : L!Answers(k, x8[d].row) /\ <<d, k>> \in x9
      BY <2>1, <3>1 DEF L!Inv, L!PatchesAreFresh
    <3>3. ASSUME NEW k \in Calls, L!Answers(k, x8[d].row)
          PROVE  L!Acts(k)' /\ L!Answered(k)' /\ x8'[k].row = x8'[d].row
      BY <1>2, <1>3, <3>1, <3>3 DEF L!Answers, L!Acts, L!Answered
    <3> QED
      BY <3>1, <3>2, <3>3
  <2>2. ASSUME x1.after = "patch", NEW d \in Calls, x8'[d].ok, d \notin x10,
               x8'[d].op = "load", NEW r \in Own
        PROVE  \/ x8'[d].got[r] = x2'[r]
               \/ \E k \in Calls : L!Answers(k, r)' /\ <<d, k>> \in x9'
    BY <1>9, <1>10, <2>2 DEF L!Inv, L!PatchesAreFresh
  <2> QED
    BY <2>1, <2>2 DEF L!PatchesAreFresh, L!Answers
<1>12. L!RowsAreThere'
  <2>1. ASSUME x1.after = "patch", NEW d \in Calls, x8'[d].ok, x8'[d].op = "delete",
               NEW k \in Calls, x8'[k].row = x8'[d].row
        PROVE  /\ x2[x8'[d].row] = None
               /\ x8'[k].op = "create" => L!Answered(k)
               /\ k # d /\ <<d, k>> \in x9 => ~x8'[k].ok
    BY <1>2, <1>4, <1>10, <2>1 DEF L!Inv, L!RowsAreThere
  <2>2. ASSUME x1.after = "patch", NEW d \in Calls, x8'[d].ok, x8'[d].op = "load",
               d \notin x10, NEW r \in Own
        PROVE  \/ x8'[d].got[r] # None
               \/ \E e \in Calls : /\ x8'[e].op = "create" /\ x8'[e].ok
                                   /\ x8'[e].row = r /\ <<d, e>> \in x9
               \/ /\ x2[r] = None
                  /\ \A k \in Calls : /\ x8'[k].op \in {"set", "settle", "mark"}
                                      /\ x8'[k].row = r /\ <<d, k>> \in x9
                                      => ~x8'[k].ok
    <3>1. x8'[d] = x8[d] /\ x8[d].ok
      BY <1>10, <2>2
    <3>2. \A e \in Calls : <<d, e>> \in x9 => x8'[e] = x8[e]
      BY <1>2, <1>4
    <3>3. \/ x8[d].got[r] # None
          \/ \E e \in Calls : /\ x8[e].op = "create" /\ x8[e].ok
                              /\ x8[e].row = r /\ <<d, e>> \in x9
          \/ /\ x2[r] = None
             /\ \A k \in Calls : /\ x8[k].op \in {"set", "settle", "mark"}
                                 /\ x8[k].row = r /\ <<d, k>> \in x9
                                 => ~x8[k].ok
      BY <2>2, <3>1 DEF L!Inv, L!RowsAreThere
    <3> QED
      BY <2>2, <3>1, <3>2, <3>3
  <2> QED
    <3>1. \A k : L!Answered(k)' <=> L!Answered(k)
      BY DEF L!Answered
    <3>2. x1' = x1 /\ x2' = x2 /\ x9' = x9 /\ x10' = x10
      OBVIOUS
    <3>3. ASSUME x1.after = "patch", NEW d \in Calls, x8'[d].ok, x8'[d].op = "delete"
          PROVE  /\ x2[x8'[d].row] = None
                 /\ \A k \in Calls : x8'[k].row = x8'[d].row =>
                      /\ x8'[k].op = "create" => L!Answered(k)
                      /\ k # d /\ <<d, k>> \in x9 => ~x8'[k].ok
      BY <2>1, <3>3
    <3> QED
      BY <2>2, <3>1, <3>2, <3>3 DEF L!RowsAreThere
<1>13. L!RowsAreShown'
  <2>1. ASSUME x1.after = "patch", NEW k \in Calls, L!Awaited(k) PROVE L!Awaited(k)' /\ k # c
    BY <1>2, <2>1
    DEF L!Inv, L!PatchesOneList, L!Awaited, L!Unanswered, L!Answered
  <2>2. ASSUME x1.after = "patch", ~x12, NEW r \in Own
        PROVE  x3'[r] = x2'[r] \/ \E k \in Calls : L!Awaits(k, r)'
    BY <1>9, <2>1, <2>2 DEF L!Inv, L!RowsAreShown, L!Awaits
  <2>3. ASSUME x1.after = "patch", ~x12, NEW d \in Calls,
               x8'[d].op \in {"set", "settle", "mark"}, x8'[d].ok, d \notin x10
        PROVE  \/ x3'[x8'[d].row] # None
               \/ \E k \in Calls \ {d} :
                     \/ L!Awaited(k)'
                     \/ /\ L!Acts(k)' /\ L!Answered(k)' /\ x8'[k].row = x8'[d].row
                        /\ x8'[k].op = "create" \/ k \in x10' \/ ~x8'[k].ok
    <3>1. x8'[d] = x8[d] /\ x8[d].ok
      BY <1>10, <2>3
    <3>2. \/ x3[x8[d].row] # None
          \/ \E k \in Calls \ {d} :
                \/ L!Awaited(k)
                \/ /\ L!Acts(k) /\ L!Answered(k) /\ x8[k].row = x8[d].row
                   /\ x8[k].op = "create" \/ k \in x10 \/ ~x8[k].ok
      BY <2>3, <3>1 DEF L!Inv, L!RowsAreShown, L!Answers
    <3>3. ASSUME NEW k \in Calls, L!Acts(k), L!Answered(k)
          PROVE  L!Acts(k)' /\ L!Answered(k)' /\ x8'[k] = x8[k]
      BY <1>2, <1>3, <3>3 DEF L!Acts, L!Answered
    <3> QED
      BY <2>1, <2>3, <3>1, <3>2, <3>3
  <2> QED
    <3>1. \A r \in Own : x3'[r] = x2'[r] \/ \E k \in Calls : L!Awaits(k, r)'
             \/ ~(x1.after = "patch" /\ ~x12)
      BY <2>2
    <3> QED
      BY <2>3, <3>1 DEF L!RowsAreShown, L!Answers
<1> QED
  BY <1>5, <1>6, <1>7, <1>8, <1>11, <1>12, <1>13 DEF L!ReadAgainInTime

LEMMA ListDisabledFacts ==
  ASSUME NEW r \in Own, x6 \subseteq Own, x1 \in L!Page
  PROVE  /\ L!Disabled(r) \subseteq Own
         /\ x1.lock = "none" => L!Disabled(r) = {}
         /\ x1.lock # "none" => r \in L!Disabled(r)
         /\ x1.lock = "row" => L!Disabled(r) = x6 \cup {r}
BY DEF L!Disabled, L!Page

LEMMA ListActInv ==
  ASSUME L!Inv, NEW c \in Calls, NEW r \in Own,
         NEW op \in {"set", "settle", "mark", "delete", "keep"}, L!Act(c, op, r)
  PROVE  L!Inv'
<1>1. /\ x8[c].op = "idle" /\ op \in x1.does \ {"create"} /\ L!Enabled(r)
      /\ op \in {"settle", "mark"} => x3[r] = "on"
      /\ x6' = L!Disabled(r)
      /\ x13' = (x13 \cup {k \in Calls : x8[k].row \in x6 \ x6'}) \ {c}
      /\ UNCHANGED <<x1, x2, x3, x4, x5, x7, x9, x10,
                     x11, x12, x14>>
  BY DEF L!Act
<1>2. PICK t : t = CASE op = "delete" -> None
                     [] op = "keep" -> x3[r]
                     [] OTHER -> IF x3[r] = "on" THEN "off" ELSE "on"
  OBVIOUS
<1>3. PICK n : n = AskedOf(op, r, t, x5)
  OBVIOUS
<1>4. x8' = [x8 EXCEPT ![c] = n]
  BY <1>2, <1>3 DEF L!Act, AskedOf
<1>5. /\ x1 \in L!Page /\ x8 \in [Calls -> L!Call] /\ x5 \in L!Views /\ x6 \subseteq Own
      /\ x3 \in L!Rowset /\ x13 \subseteq Calls
  BY DEF L!Inv, L!TypeOK
<1>6. /\ t \in L!States \cup {None} /\ (op = "delete" => t = None)
      /\ op \in {"set", "settle", "mark"} => t # None
  BY <1>2, <1>5, ConstantsAreSound DEF L!NoneIsNoRow, L!States, L!Rowset
<1>7. n \in L!Call /\ n.op = op /\ n.row = r /\ n.to = t /\ n.view = x5 /\ ~n.ok
  <2>1. op \in Deeds /\ x5 \in L!Views
    BY <1>5 DEF Deeds
  <2>2. t \in L!States \cup {None}
    BY <1>6
  <2> QED
    BY <1>3, <2>1, <2>2, ListAskFacts
<1>8. x1.after = "patch" => x5 = "all" /\ op # "keep"
  BY <1>1 DEF L!Inv, L!PatchesOneList
<1>9. /\ L!AnswersAreOrdered' /\ L!CallsAreWhole' /\ L!PatchesOneList' /\ L!ReadAgainInTime'
      /\ L!PatchesAreFresh' /\ L!RowsAreThere' /\ L!RowsAreShown'
  BY <1>1, <1>4, <1>6, <1>7, <1>8, ListAskedInv
<1>10. L!TypeOK'
  BY <1>1, <1>4, <1>5, <1>7, ListDisabledFacts DEF L!Inv, L!TypeOK
<1>11. /\ x8'[c] = n /\ \A k \in Calls : k # c => x8'[k] = x8[k]
       /\ L!Acts(c)' /\ \A k \in Calls : k # c => (L!Acts(k)' <=> L!Acts(k))
  BY <1>4, <1>5, <1>7 DEF L!Acts
<1>12. r \notin x6
  BY <1>1 DEF L!Enabled
<1>13. L!RowsAreHeld'
  <2>1. ASSUME x1.lock # "none", NEW k \in Calls, L!Acts(k)', x8'[k].op # "create"
        PROVE  k \in x13' \/ x8'[k].row \in x6'
    <3>1. CASE k = c
      BY <1>1, <1>5, <1>7, <1>11, <2>1, <3>1, ListDisabledFacts
    <3>2. CASE k # c
      BY <1>1, <1>11, <2>1, <3>2 DEF L!Inv, L!RowsAreHeld
    <3> QED
      BY <3>1, <3>2
  <2>2. ASSUME x1.lock # "none", NEW j \in Calls, NEW k \in Calls, j # k,
               x8'[j].row = x8'[k].row, L!Acts(j)', x8'[j].op # "create",
               L!Acts(k)', x8'[k].op # "create"
        PROVE  j \in x13' \/ k \in x13'
    <3>1. CASE j = c
      <4>1. k \in x13
        BY <1>7, <1>11, <1>12, <2>2, <3>1 DEF L!Inv, L!RowsAreHeld
      <4> QED
        BY <1>1, <2>2, <3>1, <4>1
    <3>2. CASE k = c
      <4>1. j \in x13
        BY <1>7, <1>11, <1>12, <2>2, <3>2 DEF L!Inv, L!RowsAreHeld
      <4> QED
        BY <1>1, <2>2, <3>2, <4>1
    <3>3. CASE j # c /\ k # c
      BY <1>1, <1>11, <2>2, <3>3 DEF L!Inv, L!RowsAreHeld
    <3> QED
      BY <3>1, <3>2, <3>3
  <2>3. x1.lock = "none" => x6' = {}
    BY <1>1, <1>5, ListDisabledFacts
  <2>4. ASSUME x1.lock = "row", NEW s \in x6'
        PROVE  \E k \in Calls : L!Acts(k)' /\ x8'[k].op # "create" /\ x8'[k].row = s
    <3>1. CASE s = r
      BY <1>7, <1>11, <3>1
    <3>2. CASE s # r
      <4>1. s \in x6
        BY <1>1, <1>5, <2>4, <3>2, ListDisabledFacts
      <4>2. PICK k \in Calls : L!Acts(k) /\ x8[k].op # "create" /\ x8[k].row = s
        BY <2>4, <4>1 DEF L!Inv, L!RowsAreHeld
      <4> QED
        BY <1>1, <1>11, <4>2 DEF L!Acts
    <3> QED
      BY <3>1, <3>2
  <2>5. L!Acts(c)' /\ x8'[c].op # "create"
    BY <1>7, <1>11
  <2>6. x1' = x1
    BY <1>1
  <2> QED
    BY <2>1, <2>2, <2>3, <2>4, <2>5, <2>6 DEF L!RowsAreHeld
<1> QED
  BY <1>9, <1>10, <1>13 DEF L!Inv

LEMMA ListToggleFormInv == ASSUME L!Inv, L!ToggleForm PROVE L!Inv'
<1>1. x7' \in BOOLEAN
  BY DEF L!ToggleForm
<1>2. UNCHANGED <<x1, x2, x3, x4, x5, x6, x8, x9, x10, x11,
                  x12, x13, x14>>
  BY DEF L!ToggleForm
<1>3. L!TypeOK'
  BY <1>1, <1>2 DEF L!Inv, L!TypeOK
<1>4. L!AnswersAreOrdered' /\ L!CallsAreWhole'
  BY <1>2
  DEF L!Inv, L!AnswersAreOrdered, L!CallsAreWhole, L!Acts, L!Answered,
      L!Unanswered
<1>5. L!PatchesOneList' /\ L!RowsAreHeld'
  BY <1>2 DEF L!Inv, L!PatchesOneList, L!RowsAreHeld, L!Acts
<1>6. L!ReadAgainInTime'
  BY <1>2
  DEF L!Inv, L!ReadAgainInTime, L!Rereads, L!Awaited, L!Acts, L!Answered,
      L!Unanswered, L!Listed
<1>7. L!PatchesAreFresh' /\ L!RowsAreThere'
  BY <1>2
  DEF L!Inv, L!PatchesAreFresh, L!RowsAreThere, L!Answers, L!Acts, L!Answered
<1>8. L!RowsAreShown'
  BY <1>2
  DEF L!Inv, L!RowsAreShown, L!Awaits, L!Awaited, L!Answers, L!Acts,
      L!Answered, L!Unanswered
<1> QED
  BY <1>3, <1>4, <1>5, <1>6, <1>7, <1>8 DEF L!Inv

LEMMA ListCreateInv ==
  ASSUME L!Inv, NEW c \in Calls, NEW r \in Own, L!Create(c, r)
  PROVE  L!Inv'
<1>1. /\ x8[c].op = "idle" /\ x2[r] = None
      /\ \A k \in Calls : x8[k].op # "create" /\ x8[k].row # r
      /\ x6' = IF x1.lock = "all" THEN Own ELSE x6
      /\ UNCHANGED <<x1, x2, x3, x4, x5, x7, x9, x10, x11,
                     x12, x13, x14>>
  BY DEF L!Create
<1>2. PICK n : n = [L!Idle EXCEPT !.op = "create", !.row = r, !.to = "on", !.view = x5]
  OBVIOUS
<1>3. x8' = [x8 EXCEPT ![c] = n]
  BY <1>2 DEF L!Create
<1>4. /\ x8 \in [Calls -> L!Call] /\ x5 \in L!Views /\ x6 \subseteq Own
  BY DEF L!Inv, L!TypeOK
<1>5. /\ n \in L!Call /\ n.op = "create" /\ n.row = r /\ n.to = "on" /\ n.view = x5
      /\ ~n.ok
  <2>1. PICK m : m = AskedOf("create", r, "on", x5)
    OBVIOUS
  <2>2. m = n
    BY <1>2, <2>1 DEF L!Idle, AskedOf
  <2> QED
    <3>1. "create" \in Deeds
      BY DEF Deeds
    <3>2. "on" \in L!States \cup {None} /\ x5 \in L!Views
      BY <1>4 DEF L!States
    <3> QED
      BY <2>1, <2>2, <3>1, <3>2, ListAskFacts
<1>6. x1.after = "patch" => x5 = "all"
  BY DEF L!Inv, L!PatchesOneList
<1>7. /\ L!AnswersAreOrdered' /\ L!CallsAreWhole' /\ L!PatchesOneList' /\ L!ReadAgainInTime'
      /\ L!PatchesAreFresh' /\ L!RowsAreThere' /\ L!RowsAreShown'
  BY <1>1, <1>3, <1>5, <1>6, ListAskedInv
<1>8. L!TypeOK'
  BY <1>1, <1>3, <1>4, <1>5 DEF L!Inv, L!TypeOK
<1>9. /\ x8'[c] = n /\ \A k \in Calls : k # c => x8'[k] = x8[k]
      /\ L!Acts(c)' /\ ~L!Acts(c) /\ \A k \in Calls : k # c => (L!Acts(k)' <=> L!Acts(k))
  BY <1>1, <1>3, <1>4, <1>5 DEF L!Acts
<1>10. L!RowsAreHeld'
  <2>1. x6 \subseteq x6' /\ (x6' = x6 \/ x1.lock = "all")
    BY <1>1, <1>4
  <2>2. \A k \in Calls : L!Acts(k)' /\ x8'[k].op # "create" => k # c
    BY <1>5, <1>9
  <2>3. x1.lock # "none" =>
          /\ \A k \in Calls : L!Acts(k)' /\ x8'[k].op # "create" =>
                k \in x13' \/ x8'[k].row \in x6'
          /\ \A j, k \in Calls :
                /\ j # k /\ x8'[j].row = x8'[k].row
                /\ L!Acts(j)' /\ x8'[j].op # "create"
                /\ L!Acts(k)' /\ x8'[k].op # "create"
                => j \in x13' \/ k \in x13'
    BY <1>1, <1>9, <2>1, <2>2 DEF L!Inv, L!RowsAreHeld
  <2>4. /\ x1.lock = "none" => x6' = {}
        /\ x1.lock = "row" =>
             \A s \in x6' : \E k \in Calls :
                L!Acts(k)' /\ x8'[k].op # "create" /\ x8'[k].row = s
    BY <1>9, <2>1 DEF L!Inv, L!RowsAreHeld
  <2>5. x6' # {} =>
          \E k \in Calls : L!Acts(k)' /\ (x8'[k].op = "create" => x1.lock = "all")
    BY <1>9, <2>1 DEF L!Inv, L!RowsAreHeld
  <2>6. x1' = x1
    BY <1>1
  <2> QED
    BY <2>3, <2>4, <2>5, <2>6 DEF L!RowsAreHeld
<1> QED
  BY <1>7, <1>8, <1>10 DEF L!Inv

\* What asking for a list does to the buttons.
LEMMA ListLoadHolds ==
  ASSUME L!Inv, NEW c \in Calls, x8[c].op = "idle", NEW n \in L!Call,
         n.op = "load", x8' = [x8 EXCEPT ![c] = n], x1' = x1,
         x6' \in {x6, {}},
         x13' = x13 \cup {k \in Calls : x8[k].row \in x6 \ x6'}
  PROVE  L!RowsAreHeld'
<1>1. x8 \in [Calls -> L!Call]
  BY DEF L!Inv, L!TypeOK
<1>2. /\ ~L!Acts(c)' /\ ~L!Acts(c) /\ \A k \in Calls : k # c => x8'[k] = x8[k]
      /\ \A k \in Calls : k # c => (L!Acts(k)' <=> L!Acts(k))
  BY <1>1 DEF L!Acts
<1>3. ASSUME x1.lock # "none", NEW k \in Calls, L!Acts(k)', x8'[k].op # "create"
      PROVE  k \in x13' \/ x8'[k].row \in x6'
  BY <1>2, <1>3 DEF L!Inv, L!RowsAreHeld
<1>4. ASSUME x1.lock # "none", NEW j \in Calls, NEW k \in Calls, j # k,
             x8'[j].row = x8'[k].row, L!Acts(j)', x8'[j].op # "create",
             L!Acts(k)', x8'[k].op # "create"
      PROVE  j \in x13' \/ k \in x13'
  BY <1>2, <1>4 DEF L!Inv, L!RowsAreHeld
<1>5. x1.lock = "none" => x6' = {}
  BY DEF L!Inv, L!RowsAreHeld
<1>6. ASSUME x1.lock = "row", NEW s \in x6'
      PROVE  \E k \in Calls : L!Acts(k)' /\ x8'[k].op # "create" /\ x8'[k].row = s
  BY <1>2, <1>6 DEF L!Inv, L!RowsAreHeld
<1>7. x6' # {} =>
        \E k \in Calls : L!Acts(k)' /\ (x8'[k].op = "create" => x1.lock = "all")
  BY <1>2 DEF L!Inv, L!RowsAreHeld
<1> QED
  BY <1>3, <1>4, <1>5, <1>6, <1>7 DEF L!RowsAreHeld

LEMMA ListSwitchInv ==
  ASSUME L!Inv, NEW c \in Calls, NEW v \in L!Views, L!Switch(c, v)
  PROVE  L!Inv'
<1>1. /\ v \in x1.views \ {x5} /\ x8[c].op = "idle"
      /\ x5' = v /\ x11' = c
      /\ x3' = IF x1.blank # {} THEN L!NoRows ELSE x3
      /\ UNCHANGED <<x1, x2, x4, x6, x7, x9, x10, x12,
                     x13, x14>>
  BY DEF L!Switch
<1>2. PICK n : n = L!Load(v)
  OBVIOUS
<1>3. x8' = [x8 EXCEPT ![c] = n]
  BY <1>2 DEF L!Switch
<1>4. n \in L!Call /\ n.op = "load" /\ n.row = None /\ n.view = v /\ ~n.ok
  BY <1>2, ListLoadFacts
<1>5. x1.after # "patch"
  BY <1>1 DEF L!Inv, L!PatchesOneList
<1>6. /\ L!AnswersAreOrdered' /\ L!CallsAreWhole' /\ L!PatchesOneList' /\ L!ReadAgainInTime'
      /\ L!PatchesAreFresh' /\ L!RowsAreThere' /\ L!RowsAreShown'
  BY <1>1, <1>3, <1>4, <1>5, ListAskedInv
<1>7. L!TypeOK'
  <2>1. x3' \in L!Rowset
    BY <1>1, ListAtRest DEF L!Inv, L!TypeOK
  <2> QED
    BY <1>1, <1>3, <1>4, <2>1 DEF L!Inv, L!TypeOK
<1>8. x13' = x13 \cup {k \in Calls : x8[k].row \in x6 \ x6'}
  BY <1>1
<1>9. L!RowsAreHeld'
  BY <1>1, <1>3, <1>4, <1>8, ListLoadHolds
<1> QED
  BY <1>6, <1>7, <1>9 DEF L!Inv

LEMMA ListReadAgainInv ==
  ASSUME L!Inv, NEW c \in Calls, L!ReadAgain(c)
  PROVE  L!Inv'
<1>1. /\ x8[c].op = "idle" /\ x11' = c /\ x4' = x1.hides
      /\ x6' = IF x1.hides THEN {} ELSE x6
      /\ x13' = x13 \cup {k \in Calls : x8[k].row \in x6 \ x6'}
      /\ UNCHANGED <<x1, x2, x3, x5, x7, x9, x10, x12, x14>>
  BY DEF L!ReadAgain
<1>2. PICK n : n = L!Load(x5)
  OBVIOUS
<1>3. x8' = [x8 EXCEPT ![c] = n]
  BY <1>2 DEF L!ReadAgain
<1>4. n \in L!Call /\ n.op = "load" /\ n.row = None /\ n.view = x5 /\ ~n.ok
  BY <1>2, ListLoadFacts DEF L!Inv, L!TypeOK
<1>5. x1.after = "patch" => x5 = "all"
  BY DEF L!Inv, L!PatchesOneList
<1>6. /\ L!AnswersAreOrdered' /\ L!CallsAreWhole' /\ L!PatchesOneList' /\ L!ReadAgainInTime'
      /\ L!PatchesAreFresh' /\ L!RowsAreThere' /\ L!RowsAreShown'
  BY <1>1, <1>3, <1>4, <1>5, ListAskedInv
<1>7. L!TypeOK'
  <2>1. x4' \in BOOLEAN
    BY <1>1 DEF L!Inv, L!TypeOK, L!Page
  <2>2. x6' \subseteq Own /\ x13' \subseteq Calls
    BY <1>1 DEF L!Inv, L!TypeOK
  <2> QED
    BY <1>1, <1>3, <1>4, <2>1, <2>2 DEF L!Inv, L!TypeOK
<1>8. L!RowsAreHeld'
  BY <1>1, <1>3, <1>4, ListLoadHolds
<1> QED
  BY <1>6, <1>7, <1>8 DEF L!Inv

\* The calls the API does not refuse.
Obeyed(c) ==
  \/ x8[c].op \in {"load", "create"}
  \/ x8[c].op = "settle" /\ x2[x8[c].row] = "on"
  \/ x8[c].op \notin {"load", "create", "settle"} /\ x2[x8[c].row] # None

LEMMA ListServeFacts ==
  ASSUME L!Inv, NEW c \in Calls, L!Serve(c)
  PROVE  /\ ~L!Answered(c) /\ x8[c].op # "idle" /\ ~x8[c].ok /\ c \notin x10
         /\ x8' \in [Calls -> L!Call] /\ \A k \in Calls : k # c => x8'[k] = x8[k]
         /\ x8'[c].op = x8[c].op /\ x8'[c].row = x8[c].row
         /\ x8'[c].to = x8[c].to /\ x8'[c].view = x8[c].view
         /\ x8'[c].ok <=> Obeyed(c)
         /\ x8[c].op = "load" => x8'[c].got = L!Listed(x8[c].view, x2)
         /\ x2' \in L!Rowset
         /\ \A r \in Own : x2'[r] =
              IF Obeyed(c) /\ x8[c].op \notin {"load", "keep"} /\ x8[c].row = r
              THEN x8[c].to ELSE x2[r]
<1>1. /\ x8 \in [Calls -> L!Call] /\ x2 \in L!Rowset
      /\ x8[c].op # "idle" /\ ~L!Answered(c)
  BY DEF L!Inv, L!TypeOK, L!Serve, L!Unanswered
<1>2. PICK a : a = [x8 EXCEPT ![c].ok = Obeyed(c)]
  OBVIOUS
<1>3. PICK g : g = IF x8[c].op = "load" THEN L!Listed(x8[c].view, x2) ELSE L!NoRows
  OBVIOUS
<1>4. x8' = [a EXCEPT ![c].got = g]
  BY <1>2, <1>3 DEF L!Serve, Obeyed
<1>5. g \in L!Rowset
  BY <1>1, <1>3, ListAtRest, ListedIsRows DEF L!Call
<1>6. Obeyed(c) \in BOOLEAN
  BY DEF Obeyed
<1>7. /\ a \in [Calls -> L!Call] /\ \A k \in Calls : k # c => a[k] = x8[k]
      /\ a[c].op = x8[c].op /\ a[c].row = x8[c].row
      /\ a[c].to = x8[c].to /\ a[c].view = x8[c].view
      /\ a[c].ok <=> Obeyed(c)
  BY <1>1, <1>2, <1>6 DEF L!Call
<1>8. /\ x8' \in [Calls -> L!Call] /\ \A k \in Calls : k # c => x8'[k] = a[k]
      /\ x8'[c].op = a[c].op /\ x8'[c].row = a[c].row
      /\ x8'[c].to = a[c].to /\ x8'[c].view = a[c].view
      /\ x8'[c].ok = a[c].ok /\ x8'[c].got = g
  BY <1>4, <1>5, <1>7 DEF L!Call
<1>9. x2' = IF Obeyed(c) /\ x8[c].op \notin {"load", "keep"}
                THEN [x2 EXCEPT ![x8[c].row] = x8[c].to] ELSE x2
  BY DEF L!Serve, Obeyed
<1>10. x2' \in L!Rowset /\ \A r \in Own : x2'[r] =
         IF Obeyed(c) /\ x8[c].op \notin {"load", "keep"} /\ x8[c].row = r
         THEN x8[c].to ELSE x2[r]
  <2>1. x8[c].to \in L!States \cup {None}
    BY <1>1 DEF L!Call
  <2> QED
    BY <1>1, <1>9, <2>1 DEF L!Rowset
<1>11. ~x8[c].ok /\ c \notin x10
  BY <1>1 DEF L!Inv, L!AnswersAreOrdered
<1> QED
  BY <1>1, <1>3, <1>7, <1>8, <1>10, <1>11

LEMMA ListServeInv ==
  ASSUME L!Inv, NEW c \in Calls, L!Serve(c)
  PROVE  L!Inv'
<1>1. /\ ~L!Answered(c) /\ x8[c].op # "idle" /\ ~x8[c].ok /\ c \notin x10
      /\ x8' \in [Calls -> L!Call] /\ \A k \in Calls : k # c => x8'[k] = x8[k]
      /\ x8'[c].op = x8[c].op /\ x8'[c].row = x8[c].row
      /\ x8'[c].to = x8[c].to /\ x8'[c].view = x8[c].view
      /\ x8'[c].ok <=> Obeyed(c)
      /\ x8[c].op = "load" => x8'[c].got = L!Listed(x8[c].view, x2)
  BY ListServeFacts
<1>2. /\ x2' \in L!Rowset
      /\ \A r \in Own : x2'[r] =
           IF Obeyed(c) /\ x8[c].op \notin {"load", "keep"} /\ x8[c].row = r
           THEN x8[c].to ELSE x2[r]
  BY ListServeFacts
<1>3. UNCHANGED <<x1, x3, x4, x5, x6, x7, x10, x11, x12, x13,
                  x14>>
  BY DEF L!Serve
<1>4. x9' = L!AnsweredLast(c) /\ L!TypeOK
  BY DEF L!Serve, L!Inv
<1>5. /\ x9' \subseteq Calls \X Calls
      /\ \A k \in Calls : L!Answered(k)' <=> L!Answered(k) \/ k = c
      /\ \A j, k \in Calls :
            <<j, k>> \in x9' <=>
               <<j, k>> \in x9 \/ (k = c /\ (j = c \/ L!Answered(j)))
  BY <1>1, <1>4, ListLastFacts
<1>6. \A k \in Calls : /\ x8'[k].op = x8[k].op /\ x8'[k].row = x8[k].row
                       /\ x8'[k].to = x8[k].to /\ x8'[k].view = x8[k].view
                       /\ L!Acts(k)' <=> L!Acts(k)
                       /\ x8[k].ok => k # c /\ x8'[k] = x8[k]
  BY <1>1 DEF L!Acts
<1>7. x2 \in L!Rowset /\ x3 \in L!Rowset /\ x8 \in [Calls -> L!Call]
  BY DEF L!Inv, L!TypeOK
<1>8. L!Acts(c) => x8[c].row \in Own
  BY DEF L!Inv, L!CallsAreWhole
<1>9. L!Acts(c) /\ x8[c].op # "create" /\ Obeyed(c) => x2[x8[c].row] # None
  BY ConstantsAreSound DEF Obeyed, L!Acts, L!NoneIsNoRow
<1>10. L!TypeOK'
  BY <1>1, <1>2, <1>3, <1>5 DEF L!Inv, L!TypeOK
<1>11. L!AnswersAreOrdered'
  <2>1. ASSUME NEW j \in Calls, NEW k \in Calls
        PROVE  /\ <<j, k>> \in x9' => L!Answered(j)' /\ L!Answered(k)'
               /\ L!Answered(j)' /\ L!Answered(k)' =>
                     <<j, k>> \in x9' \/ <<k, j>> \in x9'
    BY <1>5 DEF L!Inv, L!AnswersAreOrdered
  <2>2. ASSUME NEW k \in Calls
        PROVE  /\ L!Answered(k)' => x8'[k].op # "idle"
               /\ x8'[k].ok \/ k \in x10' => L!Answered(k)'
    BY <1>1, <1>3, <1>5, <1>6 DEF L!Inv, L!AnswersAreOrdered
  <2> QED
    BY <2>1, <2>2 DEF L!AnswersAreOrdered
<1>12. L!CallsAreWhole'
  <2>1. ASSUME NEW k \in Calls, x8'[k].op = "create", L!Unanswered(k)'
        PROVE  x2'[x8'[k].row] = None
    <3>1. k # c /\ L!Unanswered(k) /\ x8[k].op = "create"
      BY <1>5, <1>6, <2>1 DEF L!Unanswered
    <3>2. x2[x8[k].row] = None /\ x8[c].op # "create" /\ x8[k].row \in Own
      BY <3>1 DEF L!Inv, L!CallsAreWhole, L!Acts
    <3>3. ~(Obeyed(c) /\ x8[c].op \notin {"load", "keep"} /\ x8[c].row = x8[k].row)
      BY <1>1, <1>9, <3>2 DEF L!Acts
    <3> QED
      BY <1>2, <1>6, <3>2, <3>3
  <2>2. ASSUME NEW k \in Calls
        PROVE  /\ IF L!Acts(k)' THEN x8'[k].row \in Own ELSE x8'[k].row = None
               /\ x8'[k].op = "create" => x8'[k].to = "on"
               /\ x8'[k].op = "delete" => x8'[k].to = None
               /\ x8'[k].op \in {"set", "settle", "mark"} => x8'[k].to # None
               /\ x8'[k].op = "create" =>
                     \A j \in Calls : x8'[j].op = "create" => j = k
    BY <1>6 DEF L!Inv, L!CallsAreWhole
  <2> QED
    BY <2>1, <2>2 DEF L!CallsAreWhole
<1>13. L!PatchesOneList'
  BY <1>3, <1>6 DEF L!Inv, L!PatchesOneList
<1>14. L!RowsAreHeld'
  BY <1>3, <1>6 DEF L!Inv, L!RowsAreHeld
<1>15. ASSUME NEW k \in Calls, L!Awaited(k) PROVE L!Awaited(k)'
  <2>1. x8[k].op = "load" /\ (x1.newest => x11 = k) /\ (L!Unanswered(k) \/ x8[k].ok)
    BY <1>15 DEF L!Awaited
  <2>2. CASE k = c
    BY <1>1, <1>3, <1>6, <2>1, <2>2 DEF L!Awaited, Obeyed
  <2>3. CASE k # c
    BY <1>1, <1>3, <1>5, <1>6, <2>1, <2>3 DEF L!Awaited, L!Unanswered
  <2> QED
    BY <2>2, <2>3
<1>16. L!ReadAgainInTime'
  <2>1. ASSUME NEW k \in Calls, L!Rereads(k) PROVE L!Rereads(k)'
    BY <1>6, <1>15, <2>1 DEF L!Rereads
  <2>2. CASE x2' = x2
    <3>1. ASSUME x1.after = "reload", NEW d \in Calls, x8'[d].op = "load", L!Awaited(d)',
                 x8'[d].ok, d \notin x10
          PROVE  \/ x8'[d].got = L!Listed(x8'[d].view, x2')
                 \/ \E k \in Calls \ {d} : /\ L!Rereads(k)'
                                           /\ L!Answered(k)' => <<d, k>> \in x9'
      <4>1. CASE d = c
        BY <1>1, <2>2, <3>1, <4>1
      <4>2. CASE d # c
        <5>1. x8[d].op = "load" /\ L!Awaited(d) /\ x8[d].ok /\ x8'[d] = x8[d]
          BY <1>1, <1>3, <1>5, <3>1, <4>2 DEF L!Awaited, L!Unanswered
        <5>2. L!Answered(d)
          BY <5>1 DEF L!Inv, L!AnswersAreOrdered
        <5> QED
          BY <1>5, <2>1, <2>2, <3>1, <5>1, <5>2 DEF L!Inv, L!ReadAgainInTime
      <4> QED
        BY <4>1, <4>2
    <3>2. x1.after = "reload" =>
            x12 \/ x3 = L!Listed(x5, x2) \/ \E k \in Calls : L!Rereads(k)'
      BY <2>1 DEF L!Inv, L!ReadAgainInTime
    <3>3. L!Listed(x5, x2)' = L!Listed(x5, x2)
      BY <1>3, <2>2 DEF L!Listed
    <3> QED
      BY <1>3, <3>1, <3>2, <3>3 DEF L!ReadAgainInTime
  <2>3. CASE x2' # x2
    <3>1. Obeyed(c) /\ x8[c].op # "load"
      BY <1>2, <1>7, <2>3 DEF L!Rowset
    <3>2. L!Rereads(c)'
      BY <1>1, <1>6, <3>1 DEF L!Rereads, L!Acts
    <3>3. ASSUME NEW d \in Calls, x8'[d].op = "load", x8'[d].ok
          PROVE  d # c /\ <<d, c>> \in x9'
      <4>1. d # c
        BY <1>6, <3>1, <3>3
      <4>2. L!Answered(d)
        BY <1>1, <3>3, <4>1 DEF L!Inv, L!AnswersAreOrdered
      <4> QED
        BY <1>5, <4>1, <4>2
    <3> QED
      BY <3>2, <3>3 DEF L!ReadAgainInTime
  <2> QED
    BY <2>2, <2>3
<1>17. ASSUME NEW k \in Calls, NEW r \in Own, L!Answers(k, r) PROVE L!Answers(k, r)'
  BY <1>5, <1>6, <1>17 DEF L!Answers
<1>18. L!PatchesAreFresh'
  <2>1. ASSUME NEW r \in Own, x2'[r] # x2[r]
        PROVE  Obeyed(c) /\ L!Answers(c, r)' /\ x8[c].op # "load" /\ x8[c].row = r
    BY <1>1, <1>2, <1>5, <1>6, <2>1 DEF L!Answers, L!Acts
  <2>2. ASSUME NEW d \in Calls, x8'[d].ok, d # c
        PROVE  x8[d].ok /\ x8'[d] = x8[d] /\ <<d, c>> \in x9'
    BY <1>1, <1>5, <2>2 DEF L!Inv, L!AnswersAreOrdered
  <2>3. ASSUME x1.after = "patch", NEW d \in Calls, x8'[d].ok, d \notin x10, L!Acts(d)'
        PROVE  \/ x8'[d].to = x2'[x8'[d].row]
               \/ \E k \in Calls \ {d} : /\ L!Acts(k)' /\ L!Answered(k)'
                                         /\ x8'[k].row = x8'[d].row
                                         /\ <<d, k>> \in x9'
    <3>1. L!Acts(d) /\ x8[d].row \in Own
      BY <1>6, <2>3 DEF L!Inv, L!CallsAreWhole
    <3>2. CASE d = c
      <4>1. x8[c].op # "keep" /\ Obeyed(c)
        BY <1>1, <2>3, <3>2 DEF L!Inv, L!PatchesOneList
      <4> QED
        BY <1>2, <1>6, <3>1, <3>2, <4>1 DEF L!Acts
    <3>3. CASE d # c
      <4>1. CASE x2'[x8[d].row] # x2[x8[d].row]
        <5>1. L!Acts(c)' /\ L!Answered(c)' /\ x8'[c].row = x8'[d].row
          BY <1>6, <2>1, <3>1, <4>1 DEF L!Answers
        <5> QED
          BY <2>2, <2>3, <3>3, <5>1
      <4>2. CASE x2'[x8[d].row] = x2[x8[d].row]
        <5>1. \/ x8[d].to = x2[x8[d].row]
              \/ \E k \in Calls \ {d} : L!Answers(k, x8[d].row) /\ <<d, k>> \in x9
          BY <2>2, <2>3, <3>1, <3>3 DEF L!Inv, L!PatchesAreFresh
        <5>2. ASSUME NEW k \in Calls, L!Answers(k, x8[d].row)
              PROVE  L!Acts(k)' /\ L!Answered(k)' /\ x8'[k].row = x8'[d].row
          BY <1>5, <1>6, <5>2 DEF L!Answers
        <5> QED
          BY <1>5, <1>6, <4>2, <5>1, <5>2
      <4> QED
        BY <4>1, <4>2
    <3> QED
      BY <3>2, <3>3
  <2>4. ASSUME x1.after = "patch", NEW d \in Calls, x8'[d].ok, d \notin x10,
               x8'[d].op = "load", NEW r \in Own
        PROVE  \/ x8'[d].got[r] = x2'[r]
               \/ \E k \in Calls : L!Answers(k, r)' /\ <<d, k>> \in x9'
    <3>1. CASE d = c
      <4>1. x8[c].op = "load" /\ x8[c].view = "all"
        BY <1>6, <2>4, <3>1 DEF L!Inv, L!PatchesOneList
      <4>2. x8'[c].got = x2
        BY <1>1, <1>7, <4>1, ListedIsRows DEF L!Call
      <4> QED
        BY <1>2, <3>1, <4>1, <4>2
    <3>2. CASE d # c
      <4>1. CASE x2'[r] # x2[r]
        BY <2>1, <2>2, <2>4, <3>2, <4>1
      <4>2. CASE x2'[r] = x2[r]
        BY <1>5, <1>17, <2>2, <2>4, <3>2, <4>2 DEF L!Inv, L!PatchesAreFresh
      <4> QED
        BY <4>1, <4>2
    <3> QED
      BY <3>1, <3>2
  <2> QED
    BY <1>3, <2>3, <2>4 DEF L!PatchesAreFresh, L!Answers
<1>19. L!RowsAreThere'
  <2>1. ASSUME x1.after = "patch", NEW d \in Calls, x8'[d].ok, x8'[d].op = "delete"
        PROVE  /\ x2'[x8'[d].row] = None
               /\ \A k \in Calls : x8'[k].row = x8'[d].row =>
                     /\ x8'[k].op = "create" => L!Answered(k)'
                     /\ k # d /\ <<d, k>> \in x9' => ~x8'[k].ok
    <3>1. x8[d].op = "delete" /\ x8[d].row \in Own
      BY <1>6, <2>1 DEF L!Inv, L!CallsAreWhole, L!Acts
    <3>2. CASE d = c
      <4>1. /\ Obeyed(c) /\ x8[c].to = None /\ x2[x8[c].row] # None
            /\ x8[c].op = "delete" /\ x8[c].row \in Own
        BY <1>1, <1>9, <2>1, <3>1, <3>2 DEF L!Inv, L!CallsAreWhole, L!Acts
      <4>2. x2'[x8[c].row] = None
        BY <1>2, <4>1
      <4>3. ASSUME NEW k \in Calls, x8[k].row = x8[c].row, x8[k].op = "create"
            PROVE  L!Answered(k)
        BY <4>1, <4>3 DEF L!Inv, L!CallsAreWhole, L!Unanswered
      <4>4. ASSUME NEW k \in Calls, k # c PROVE <<c, k>> \notin x9'
        BY <1>1, <1>5, <4>4 DEF L!Inv, L!AnswersAreOrdered
      <4> QED
        BY <1>1, <1>5, <1>6, <3>2, <4>2, <4>3, <4>4
    <3>3. CASE d # c
      <4>1. /\ x8[d].ok /\ x2[x8[d].row] = None
            /\ \A k \in Calls : x8[k].row = x8[d].row =>
                     /\ x8[k].op = "create" => L!Answered(k)
                     /\ k # d /\ <<d, k>> \in x9 => ~x8[k].ok
        BY <1>1, <2>1, <3>1, <3>3 DEF L!Inv, L!RowsAreThere
      <4>2. x8[c].row = x8[d].row => ~Obeyed(c)
        <5>1. ASSUME x8[c].row = x8[d].row PROVE x8[c].op # "create" /\ L!Acts(c)
          BY <1>1, <3>1, <4>1, <5>1, ConstantsAreSound
          DEF L!Inv, L!CallsAreWhole, L!NoneIsNoRow
        <5> QED
          BY <1>9, <4>1, <5>1
      <4>3. x2'[x8[d].row] = None
        BY <1>2, <3>1, <4>1, <4>2
      <4>4. ASSUME NEW k \in Calls, x8[k].row = x8[d].row
            PROVE  /\ x8[k].op = "create" => L!Answered(k)'
                   /\ k # d /\ <<d, k>> \in x9' => ~x8'[k].ok
        BY <1>1, <1>5, <4>1, <4>2, <4>4
      <4> QED
        BY <1>6, <4>3, <4>4
    <3> QED
      BY <3>2, <3>3
  <2>2. ASSUME x1.after = "patch", NEW d \in Calls, x8'[d].ok, x8'[d].op = "load",
               d \notin x10, NEW r \in Own
        PROVE  \/ x8'[d].got[r] # None
               \/ \E e \in Calls : /\ x8'[e].op = "create" /\ x8'[e].ok
                                   /\ x8'[e].row = r /\ <<d, e>> \in x9'
               \/ /\ x2'[r] = None
                  /\ \A k \in Calls : /\ x8'[k].op \in {"set", "settle", "mark"}
                                      /\ x8'[k].row = r /\ <<d, k>> \in x9'
                                      => ~x8'[k].ok
    <3>1. CASE d = c
      <4>1. x8[c].op = "load" /\ x8[c].view = "all"
        BY <1>6, <2>2, <3>1 DEF L!Inv, L!PatchesOneList
      <4>2. x8'[c].got = x2 /\ x2'[r] = x2[r]
        BY <1>1, <1>2, <1>7, <4>1, ListedIsRows DEF L!Call
      <4>3. \A k \in Calls : <<c, k>> \in x9' => k = c
        BY <1>1, <1>5 DEF L!Inv, L!AnswersAreOrdered
      <4> QED
        BY <1>6, <3>1, <4>1, <4>2, <4>3
    <3>2. CASE d # c
      <4>1. x8[d].ok /\ x8'[d] = x8[d] /\ <<d, c>> \in x9'
        BY <1>1, <1>5, <2>2, <3>2 DEF L!Inv, L!AnswersAreOrdered
      <4>2. CASE x8[d].got[r] # None
        BY <4>1, <4>2
      <4>3. CASE \E e \in Calls : /\ x8[e].op = "create" /\ x8[e].ok
                                  /\ x8[e].row = r /\ <<d, e>> \in x9
        BY <1>5, <1>6, <4>3
      <4>4. CASE /\ x2[r] = None
                 /\ \A k \in Calls : /\ x8[k].op \in {"set", "settle", "mark"}
                                     /\ x8[k].row = r /\ <<d, k>> \in x9
                                     => ~x8[k].ok
        <5>1. CASE x8[c].row = r /\ x8[c].op = "create"
          <6>1. x8'[c].ok
            BY <1>1, <5>1 DEF Obeyed
          <6> QED
            BY <1>6, <4>1, <5>1, <6>1
        <5>2. CASE x8[c].row = r /\ x8[c].op # "create"
          <6>1. ~Obeyed(c)
            <7>1. L!Acts(c)
              BY <5>2, ConstantsAreSound
              DEF L!Inv, L!CallsAreWhole, L!NoneIsNoRow
            <7> QED
              BY <1>9, <4>4, <5>2, <7>1
          <6> QED
            BY <1>1, <1>2, <1>5, <4>4, <5>2, <6>1
        <5>3. CASE x8[c].row # r
          BY <1>1, <1>2, <1>5, <4>4, <5>3
        <5> QED
          BY <5>1, <5>2, <5>3
      <4> QED
        BY <2>2, <4>1, <4>2, <4>3, <4>4 DEF L!Inv, L!RowsAreThere
    <3> QED
      BY <3>1, <3>2
  <2> QED
    BY <1>3, <2>1, <2>2 DEF L!RowsAreThere
<1>20. L!RowsAreShown'
  <2>1. ASSUME x1.after = "patch", ~x12, NEW r \in Own
        PROVE  x3[r] = x2'[r] \/ \E k \in Calls : L!Awaits(k, r)'
    <3>1. CASE x2'[r] = x2[r]
      BY <1>15, <1>17, <2>1, <3>1 DEF L!Inv, L!RowsAreShown, L!Awaits
    <3>2. CASE x2'[r] # x2[r]
      <4>1. L!Answers(c, r)'
        BY <1>1, <1>2, <1>5, <1>6, <3>2 DEF L!Answers, L!Acts
      <4> QED
        BY <4>1 DEF L!Awaits
    <3> QED
      BY <3>1, <3>2
  <2>2. ASSUME x1.after = "patch", ~x12, NEW d \in Calls,
               x8'[d].op \in {"set", "settle", "mark"}, x8'[d].ok, d \notin x10
        PROVE  \/ x3[x8'[d].row] # None
               \/ \E k \in Calls \ {d} :
                     \/ L!Awaited(k)'
                     \/ /\ L!Acts(k)' /\ L!Answered(k)' /\ x8'[k].row = x8'[d].row
                        /\ x8'[k].op = "create" \/ k \in x10 \/ ~x8'[k].ok
    <3>1. x8[d].op \in {"set", "settle", "mark"} /\ L!Acts(d) /\ x8[d].row \in Own
      BY <1>6, <2>2 DEF L!Inv, L!CallsAreWhole, L!Acts
    <3>2. ASSUME NEW k \in Calls, L!Acts(k), L!Answered(k)
          PROVE  k # c /\ L!Acts(k)' /\ L!Answered(k)' /\ x8'[k] = x8[k]
      BY <1>1, <1>5, <1>6, <3>2
    <3>3. ASSUME NEW e \in Calls, x8[e].op \in {"set", "settle", "mark"}, x8[e].ok,
                 e \notin x10
          PROVE  \/ x3[x8[e].row] # None
                 \/ \E k \in Calls \ {e} :
                       \/ L!Awaited(k)
                       \/ /\ L!Acts(k) /\ L!Answered(k) /\ x8[k].row = x8[e].row
                          /\ x8[k].op = "create" \/ k \in x10 \/ ~x8[k].ok
      BY <2>2, <3>3 DEF L!Inv, L!RowsAreShown, L!Answers
    <3>4. CASE d # c
      <4>1. x8[d].ok /\ x8'[d] = x8[d]
        BY <1>1, <2>2, <3>4
      <4> QED
        BY <1>15, <2>2, <3>1, <3>2, <3>3, <4>1
    <3>5. CASE d = c
      <4>1. x2[x8[c].row] # None
        BY <1>1, <1>9, <2>2, <3>1, <3>5 DEF L!Acts
      <4>2. CASE x3[x8[c].row] = x2[x8[c].row]
        BY <1>6, <3>5, <4>1, <4>2
      <4>3. CASE \E k \in Calls : L!Awaited(k)
        <5>1. PICK k \in Calls : L!Awaited(k)
          BY <4>3
        <5>2. k # c
          BY <3>1, <3>5, <5>1 DEF L!Awaited
        <5> QED
          BY <1>15, <3>5, <5>1, <5>2
      <4>4. CASE \E k \in Calls : L!Answers(k, x8[c].row)
        <5>1. PICK k \in Calls : L!Acts(k) /\ L!Answered(k) /\ x8[k].row = x8[c].row
          BY <4>4 DEF L!Answers
        <5>2. CASE x8[k].op = "create" \/ k \in x10 \/ ~x8[k].ok
          BY <1>6, <3>2, <3>5, <5>1, <5>2
        <5>3. CASE x8[k].op = "delete" /\ x8[k].ok
          BY <2>2, <4>1, <5>1, <5>3 DEF L!Inv, L!RowsAreThere
        <5>4. CASE /\ x8[k].op \in {"set", "settle", "mark"} /\ x8[k].ok
                   /\ k \notin x10
          <6>1. CASE x3[x8[k].row] # None
            BY <1>6, <3>5, <5>1, <6>1
          <6>2. CASE \E j \in Calls \ {k} :
                       \/ L!Awaited(j)
                       \/ /\ L!Acts(j) /\ L!Answered(j) /\ x8[j].row = x8[k].row
                          /\ x8[j].op = "create" \/ j \in x10 \/ ~x8[j].ok
            <7>1. PICK j \in Calls :
                       \/ L!Awaited(j)
                       \/ /\ L!Acts(j) /\ L!Answered(j) /\ x8[j].row = x8[k].row
                          /\ x8[j].op = "create" \/ j \in x10 \/ ~x8[j].ok
              BY <6>2
            <7>2. j # c
              BY <1>1, <3>1, <3>5, <7>1 DEF L!Awaited
            <7> QED
              BY <1>6, <1>15, <3>2, <3>5, <5>1, <7>1, <7>2
          <6> QED
            BY <3>3, <5>4, <6>1, <6>2
        <5>5. x8[k].op \in {"set", "settle", "mark", "delete", "create"}
          BY <1>7, <2>2, <5>1 DEF L!Inv, L!PatchesOneList, L!Acts, L!Call
        <5> QED
          BY <5>2, <5>3, <5>4, <5>5
      <4> QED
        BY <2>2, <3>1, <3>5, <4>2, <4>3, <4>4
        DEF L!Inv, L!RowsAreShown, L!Awaits
    <3> QED
      BY <3>4, <3>5
  <2> QED
    BY <1>3, <2>1, <2>2 DEF L!RowsAreShown, L!Answers
<1> QED
  BY <1>10, <1>11, <1>12, <1>13, <1>14, <1>16, <1>18, <1>19, <1>20 DEF L!Inv

LEMMA ListFailInv ==
  ASSUME L!Inv, NEW c \in Calls, L!Fail(c)
  PROVE  L!Inv'
<1>1. /\ x8[c].op # "idle" /\ (L!Unanswered(c) \/ x8[c].ok)
      /\ x8' = [x8 EXCEPT ![c].ok = FALSE] /\ x9' = L!AnsweredLast(c)
      /\ x12' = (x12 \/ x8[c].op \in {"load", "create"} \/ x8[c].ok)
      /\ x10' = x10 \cup {k \in Calls : x8[k].op = "load" /\ L!Answered(k)}
      /\ UNCHANGED <<x1, x2, x3, x4, x5, x6, x7, x11, x13,
                     x14>>
  BY DEF L!Fail
<1>2. /\ L!TypeOK /\ x8 \in [Calls -> L!Call] /\ x10 \subseteq Calls /\ x12 \in BOOLEAN
  BY DEF L!Inv, L!TypeOK
<1>3. /\ x8' \in [Calls -> L!Call]
      /\ \A k \in Calls : /\ x8'[k].op = x8[k].op /\ x8'[k].row = x8[k].row
                          /\ x8'[k].to = x8[k].to /\ x8'[k].view = x8[k].view
                          /\ x8'[k].got = x8[k].got
                          /\ k # c => x8'[k] = x8[k]
      /\ ~x8'[c].ok
  BY <1>1, <1>2 DEF L!Call
<1>4. \A k \in Calls : /\ L!Acts(k)' <=> L!Acts(k)
                       /\ x8'[k].ok => k # c /\ x8'[k] = x8[k] /\ x8[k].ok
  BY <1>3 DEF L!Acts
<1>5. /\ x9' \subseteq Calls \X Calls
      /\ \A k \in Calls : L!Answered(k)' <=> L!Answered(k) \/ k = c
      /\ \A j, k \in Calls :
            <<j, k>> \in x9' <=>
               \/ <<j, k>> \in x9
               \/ ~L!Answered(c) /\ k = c /\ (j = c \/ L!Answered(j))
  BY <1>1, <1>2, ListLastFacts
<1>6. \A k \in Calls : x8[k].ok \/ k \in x10 => L!Answered(k)
  BY DEF L!Inv, L!AnswersAreOrdered
<1>7. L!TypeOK'
  BY <1>1, <1>2, <1>3, <1>5 DEF L!TypeOK
<1>8. L!AnswersAreOrdered'
  <2>1. ASSUME NEW j \in Calls, NEW k \in Calls
        PROVE  /\ <<j, k>> \in x9' => L!Answered(j)' /\ L!Answered(k)'
               /\ L!Answered(j)' /\ L!Answered(k)' =>
                     <<j, k>> \in x9' \/ <<k, j>> \in x9'
    <3>1. /\ <<j, k>> \in x9 => L!Answered(j) /\ L!Answered(k)
          /\ L!Answered(j) /\ L!Answered(k) => <<j, k>> \in x9 \/ <<k, j>> \in x9
      BY DEF L!Inv, L!AnswersAreOrdered
    <3> QED
      BY <1>5, <3>1
  <2>2. ASSUME NEW k \in Calls
        PROVE  /\ L!Answered(k)' => x8'[k].op # "idle"
               /\ x8'[k].ok \/ k \in x10' => L!Answered(k)'
    BY <1>1, <1>3, <1>4, <1>5, <1>6 DEF L!Inv, L!AnswersAreOrdered
  <2> QED
    BY <2>1, <2>2 DEF L!AnswersAreOrdered
<1>9. L!CallsAreWhole'
  <2>1. \A k \in Calls : L!Unanswered(k)' => L!Unanswered(k)
    BY <1>3, <1>5 DEF L!Unanswered
  <2> QED
    BY <1>1, <1>3, <1>4, <2>1 DEF L!Inv, L!CallsAreWhole
<1>10. L!PatchesOneList' /\ L!RowsAreHeld'
  BY <1>1, <1>3, <1>4 DEF L!Inv, L!PatchesOneList, L!RowsAreHeld
<1>11. \A k \in Calls : x8'[k].op = "load" /\ x8'[k].ok => k \in x10'
  BY <1>1, <1>3, <1>4, <1>6
<1>12. ASSUME NEW k \in Calls, L!Awaited(k), k # c PROVE L!Awaited(k)'
  BY <1>1, <1>3, <1>5, <1>12 DEF L!Awaited, L!Unanswered
<1>13. L!ReadAgainInTime'
  <2>1. ASSUME x1.after = "reload"
        PROVE  x12' \/ x3' = L!Listed(x5', x2') \/ \E k \in Calls : L!Rereads(k)'
    <3>1. CASE x12 \/ x3 = L!Listed(x5, x2)
      BY <1>1, <3>1 DEF L!Listed
    <3>2. CASE \E k \in Calls : L!Rereads(k)
      <4>1. PICK k \in Calls : L!Rereads(k)
        BY <3>2
      <4>2. CASE k = c
        BY <1>1, <4>1, <4>2 DEF L!Rereads, L!Awaited
      <4>3. CASE k # c
        BY <1>3, <1>4, <1>12, <4>1, <4>3 DEF L!Rereads
      <4> QED
        BY <4>2, <4>3
    <3> QED
      BY <2>1, <3>1, <3>2 DEF L!Inv, L!ReadAgainInTime
  <2> QED
    BY <1>1, <1>11, <2>1 DEF L!ReadAgainInTime
<1>14. ASSUME NEW k \in Calls, NEW r \in Own, L!Answers(k, r) PROVE L!Answers(k, r)'
  BY <1>3, <1>4, <1>5, <1>14 DEF L!Answers
<1>15. L!PatchesAreFresh'
  <2>1. ASSUME x1.after = "patch", NEW d \in Calls, x8'[d].ok, d \notin x10', L!Acts(d)'
        PROVE  \/ x8'[d].to = x2[x8'[d].row]
               \/ \E k \in Calls \ {d} : /\ L!Acts(k)' /\ L!Answered(k)'
                                         /\ x8'[k].row = x8'[d].row
                                         /\ <<d, k>> \in x9'
    <3>1. L!Acts(d) /\ x8'[d] = x8[d] /\ x8[d].ok /\ d \notin x10
      BY <1>1, <1>4, <2>1
    <3>2. \/ x8[d].to = x2[x8[d].row]
          \/ \E k \in Calls \ {d} : /\ L!Acts(k) /\ L!Answered(k) /\ x8[k].row = x8[d].row
                                    /\ <<d, k>> \in x9
      BY <2>1, <3>1 DEF L!Inv, L!PatchesAreFresh, L!Answers
    <3>3. ASSUME NEW k \in Calls, L!Acts(k), L!Answered(k), x8[k].row = x8[d].row,
                 <<d, k>> \in x9
          PROVE  /\ L!Acts(k)' /\ L!Answered(k)' /\ x8'[k].row = x8'[d].row
                 /\ <<d, k>> \in x9'
      BY <1>3, <1>4, <1>5, <3>3
    <3> QED
      BY <3>1, <3>2, <3>3
  <2> QED
    BY <1>1, <1>11, <2>1 DEF L!PatchesAreFresh, L!Answers
<1>16. L!RowsAreThere'
  <2>1. ASSUME x1.after = "patch", NEW d \in Calls, x8'[d].ok, x8'[d].op = "delete"
        PROVE  /\ x2[x8'[d].row] = None
               /\ \A k \in Calls : x8'[k].row = x8'[d].row =>
                     /\ x8'[k].op = "create" => L!Answered(k)'
                     /\ k # d /\ <<d, k>> \in x9' => ~x8'[k].ok
    <3>1. x8'[d].row = x8[d].row /\ x8[d].op = "delete" /\ x8[d].ok
      BY <1>3, <1>4, <2>1
    <3>2. x2[x8[d].row] = None
      BY <2>1, <3>1 DEF L!Inv, L!RowsAreThere
    <3>3. ASSUME NEW k \in Calls, x8'[k].row = x8'[d].row
          PROVE  /\ x8'[k].op = "create" => L!Answered(k)'
                 /\ k # d /\ <<d, k>> \in x9' => ~x8'[k].ok
      <4>1. x8[k].row = x8[d].row
        BY <1>3, <3>3
      <4>2. /\ x8[k].op = "create" => L!Answered(k)
            /\ k # d /\ <<d, k>> \in x9 => ~x8[k].ok
        BY <2>1, <3>1, <4>1 DEF L!Inv, L!RowsAreThere
      <4> QED
        BY <1>3, <1>4, <1>5, <4>2
    <3> QED
      BY <3>1, <3>2, <3>3
  <2> QED
    BY <1>1, <1>11, <2>1 DEF L!RowsAreThere
<1>17. L!RowsAreShown'
  <2>1. ASSUME ~x12' PROVE ~x12 /\ ~L!Answered(c) /\ ~L!Awaited(c)
    BY <1>1, <2>1 DEF L!Unanswered, L!Awaited
  <2>2. ASSUME x1.after = "patch", ~x12', NEW r \in Own
        PROVE  x3[r] = x2[r] \/ \E k \in Calls : L!Awaits(k, r)'
    <3>1. ASSUME NEW k \in Calls, L!Awaits(k, r) PROVE L!Awaits(k, r)'
      BY <1>12, <1>14, <2>1, <2>2, <3>1 DEF L!Awaits
    <3> QED
      BY <2>1, <2>2, <3>1 DEF L!Inv, L!RowsAreShown
  <2>3. ASSUME x1.after = "patch", ~x12', NEW d \in Calls,
               x8'[d].op \in {"set", "settle", "mark"}, x8'[d].ok, d \notin x10'
        PROVE  \/ x3[x8'[d].row] # None
               \/ \E k \in Calls \ {d} :
                     \/ L!Awaited(k)'
                     \/ /\ L!Acts(k)' /\ L!Answered(k)' /\ x8'[k].row = x8'[d].row
                        /\ x8'[k].op = "create" \/ k \in x10' \/ ~x8'[k].ok
    <3>1. x8'[d] = x8[d] /\ x8[d].ok /\ d \notin x10
      BY <1>1, <1>4, <2>3
    <3>2. \/ x3[x8[d].row] # None
          \/ \E k \in Calls \ {d} :
                \/ L!Awaited(k)
                \/ /\ L!Acts(k) /\ L!Answered(k) /\ x8[k].row = x8[d].row
                   /\ x8[k].op = "create" \/ k \in x10 \/ ~x8[k].ok
      BY <2>1, <2>3, <3>1 DEF L!Inv, L!RowsAreShown, L!Answers
    <3>3. ASSUME NEW k \in Calls, L!Awaited(k) PROVE L!Awaited(k)'
      BY <1>12, <2>1, <2>3, <3>3
    <3>4. ASSUME NEW k \in Calls, L!Acts(k), L!Answered(k),
                 x8[k].op = "create" \/ k \in x10 \/ ~x8[k].ok
          PROVE  /\ L!Acts(k)' /\ L!Answered(k)' /\ x8'[k].row = x8[k].row
                 /\ x8'[k].op = "create" \/ k \in x10' \/ ~x8'[k].ok
      BY <1>1, <1>3, <1>4, <1>5, <3>4
    <3> QED
      BY <3>1, <3>2, <3>3, <3>4
  <2> QED
    BY <1>1, <2>2, <2>3 DEF L!RowsAreShown, L!Answers
<1> QED
  BY <1>7, <1>8, <1>9, <1>10, <1>13, <1>15, <1>16, <1>17 DEF L!Inv

LEMMA ListLoadedInv ==
  ASSUME L!Inv, NEW c \in Calls, L!Loaded(c)
  PROVE  L!Inv'
<1> DEFINE used == x8[c].ok /\ (x1.newest => x11 = c)
<1>1. /\ L!Delivered(c) /\ x8[c].op = "load"
      /\ x3' = IF used THEN x8[c].got ELSE x3
      /\ x4' = FALSE
      /\ x12' = IF used THEN c \in x10 \/ x8[c].view # x5
                   ELSE x12 \/ x11 = c
      /\ x10' = (IF used THEN x10 \cup L!Overtaken(c) ELSE x10) \ {c}
      /\ x8' = [x8 EXCEPT ![c] = L!Idle]
      /\ UNCHANGED <<x1, x2, x5, x6, x7, x11, x13, x14>>
  BY DEF L!Loaded
<1>2. /\ L!TypeOK /\ x8 \in [Calls -> L!Call] /\ x10 \subseteq Calls /\ x12 \in BOOLEAN
      /\ x3 \in L!Rowset /\ x2 \in L!Rowset
  BY DEF L!Inv, L!TypeOK
<1>3. /\ x9' \subseteq Calls \X Calls /\ L!Answered(c)
      /\ \A k \in Calls : L!Answered(k)' <=> L!Answered(k) /\ k # c
      /\ \A j, k \in Calls :
            <<j, k>> \in x9' <=> <<j, k>> \in x9 /\ j # c /\ k # c
  BY <1>1, <1>2, ListDeliveredFacts
<1>4. /\ x8' \in [Calls -> L!Call] /\ x8'[c] = L!Idle
      /\ \A k \in Calls : k # c => x8'[k] = x8[k]
  BY <1>1, <1>2, ListAtRest
<1>5. /\ \A k \in Calls : L!Acts(k)' <=> L!Acts(k)
      /\ \A k \in Calls : L!Acts(k) \/ x8'[k].ok \/ x8'[k].op = "load" =>
            k # c /\ x8'[k] = x8[k]
      /\ \A k \in Calls : x8'[k].row = x8[k].row
  <2>1. ~L!Acts(c) /\ ~L!Acts(c)' /\ x8[c].row = None
    BY <1>1, <1>4, ListAtRest DEF L!Acts, L!Inv, L!CallsAreWhole
  <2> QED
    BY <1>4, <2>1, ListAtRest DEF L!Acts
<1>6. \A k \in Calls : k \in L!Overtaken(c) <=> k # c /\ <<k, c>> \in x9
  BY <1>1 DEF L!Overtaken
<1>7. ASSUME NEW k \in Calls, k \notin x10', k # c
      PROVE  k \notin x10 /\ (used => <<k, c>> \notin x9)
  BY <1>1, <1>6, <1>7
<1>8. L!TypeOK'
  <2>1. x3' \in L!Rowset
    BY <1>1, <1>2 DEF L!Call
  <2>2. x10' \subseteq Calls
    BY <1>1, <1>2 DEF L!Overtaken
  <2>3. x12' \in BOOLEAN /\ x4' \in BOOLEAN
    BY <1>1, <1>2
  <2> QED
    BY <1>1, <1>2, <1>3, <1>4, <2>1, <2>2, <2>3 DEF L!TypeOK
<1>9. L!AnswersAreOrdered'
  <2>1. ASSUME NEW j \in Calls, NEW k \in Calls
        PROVE  /\ <<j, k>> \in x9' => L!Answered(j)' /\ L!Answered(k)'
               /\ L!Answered(j)' /\ L!Answered(k)' =>
                     <<j, k>> \in x9' \/ <<k, j>> \in x9'
    BY <1>3 DEF L!Inv, L!AnswersAreOrdered
  <2>2. ASSUME NEW k \in Calls
        PROVE  /\ L!Answered(k)' => x8'[k].op # "idle"
               /\ x8'[k].ok \/ k \in x10' => L!Answered(k)'
    <3>1. L!Answered(k)' => x8'[k].op # "idle"
      BY <1>3, <1>4 DEF L!Inv, L!AnswersAreOrdered
    <3>2. x8'[k].ok => L!Answered(k)'
      BY <1>3, <1>5 DEF L!Inv, L!AnswersAreOrdered
    <3>3. k \in x10' => k # c /\ L!Answered(k)
      BY <1>1, <1>6 DEF L!Inv, L!AnswersAreOrdered
    <3> QED
      BY <1>3, <3>1, <3>2, <3>3
  <2> QED
    BY <2>1, <2>2 DEF L!AnswersAreOrdered
<1>10. L!CallsAreWhole'
  <2>1. \A k \in Calls : k # c => (L!Unanswered(k)' <=> L!Unanswered(k))
    BY <1>3, <1>4 DEF L!Unanswered
  <2>2. x8'[c].op = "idle" /\ x8'[c].row = None
    BY <1>4, ListAtRest
  <2> QED
    BY <1>1, <1>4, <1>5, <2>1, <2>2 DEF L!Inv, L!CallsAreWhole
<1>11. L!PatchesOneList'
  BY <1>1, <1>4, ListAtRest DEF L!Inv, L!PatchesOneList
<1>12. L!RowsAreHeld'
  BY <1>1, <1>5 DEF L!Inv, L!RowsAreHeld
<1>13. ASSUME NEW k \in Calls, L!Awaited(k), k # c PROVE L!Awaited(k)'
  BY <1>1, <1>3, <1>4, <1>13 DEF L!Awaited, L!Unanswered
<1>14. L!Awaited(c) <=> used
  BY <1>1, <1>3 DEF L!Awaited, L!Unanswered
<1>15. ~L!Acts(c)
  BY <1>1 DEF L!Acts
<1>16. ASSUME NEW k \in Calls, L!Rereads(k), k # c PROVE L!Rereads(k)'
  BY <1>4, <1>5, <1>13, <1>16 DEF L!Rereads
<1>17. ASSUME NEW k \in Calls, NEW r \in Own, L!Answers(k, r) PROVE L!Answers(k, r)' /\ k # c
  BY <1>3, <1>5, <1>17 DEF L!Answers
<1> HIDE DEF used
<1>18. L!ReadAgainInTime'
  <2>1. ASSUME x1.after = "reload", NEW d \in Calls, x8'[d].op = "load", L!Awaited(d)',
               x8'[d].ok, d \notin x10'
        PROVE  \/ x8'[d].got = L!Listed(x8'[d].view, x2)
               \/ \E k \in Calls \ {d} : /\ L!Rereads(k)'
                                         /\ L!Answered(k)' => <<d, k>> \in x9'
    <3>1. d # c /\ x8'[d] = x8[d] /\ d \notin x10 /\ (used => <<d, c>> \notin x9)
      BY <1>5, <1>7, <2>1
    <3>2. L!Awaited(d)
      BY <1>1, <2>1, <3>1 DEF L!Awaited
    <3>3. CASE x8[d].got = L!Listed(x8[d].view, x2)
      BY <3>1, <3>3
    <3>4. CASE \E k \in Calls \ {d} : L!Rereads(k) /\ (L!Answered(k) => <<d, k>> \in x9)
      <4>1. PICK k \in Calls \ {d} : L!Rereads(k) /\ (L!Answered(k) => <<d, k>> \in x9)
        BY <3>4
      <4>2. k # c
        BY <1>3, <1>14, <1>15, <3>1, <4>1 DEF L!Rereads
      <4> QED
        BY <1>3, <1>16, <3>1, <4>1, <4>2
    <3> QED
      BY <2>1, <3>1, <3>2, <3>3, <3>4 DEF L!Inv, L!ReadAgainInTime
  <2>2. ASSUME x1.after = "reload", ~x12', x3' # L!Listed(x5, x2)
        PROVE  \E k \in Calls : L!Rereads(k)'
    <3>1. CASE used
      <4>1. c \notin x10 /\ x8[c].view = x5 /\ x3' = x8[c].got
        BY <1>1, <2>2, <3>1
      <4>2. \E k \in Calls \ {c} : L!Rereads(k)
        <5>1. L!Awaited(c) /\ x8[c].ok
          BY <1>14, <3>1 DEF used
        <5> QED
          BY <1>1, <2>2, <4>1, <5>1 DEF L!Inv, L!ReadAgainInTime
      <4> QED
        BY <1>16, <4>2
    <3>2. CASE ~used
      <4>1. ~x12 /\ x3' = x3
        BY <1>1, <2>2, <3>2
      <4>2. PICK k \in Calls : L!Rereads(k)
        BY <2>2, <4>1 DEF L!Inv, L!ReadAgainInTime
      <4>3. k # c
        BY <1>14, <1>15, <3>2, <4>2 DEF L!Rereads
      <4> QED
        BY <1>16, <4>2, <4>3
    <3> QED
      BY <3>1, <3>2
  <2>3. L!Listed(x5, x2)' = L!Listed(x5, x2) /\ x1' = x1 /\ x2' = x2
    BY <1>1 DEF L!Listed
  <2> QED
    BY <2>1, <2>2, <2>3 DEF L!ReadAgainInTime
<1>19. L!PatchesAreFresh'
  <2>1. ASSUME x1.after = "patch", NEW d \in Calls, x8'[d].ok, d \notin x10', L!Acts(d)'
        PROVE  \/ x8'[d].to = x2[x8'[d].row]
               \/ \E k \in Calls \ {d} : /\ L!Acts(k)' /\ L!Answered(k)'
                                         /\ x8'[k].row = x8'[d].row
                                         /\ <<d, k>> \in x9'
    <3>1. d # c /\ L!Acts(d) /\ x8'[d] = x8[d] /\ x8[d].ok /\ d \notin x10
      BY <1>5, <1>7, <2>1
    <3>2. \/ x8[d].to = x2[x8[d].row]
          \/ \E k \in Calls \ {d} : /\ L!Acts(k) /\ L!Answered(k) /\ x8[k].row = x8[d].row
                                    /\ <<d, k>> \in x9
      BY <2>1, <3>1 DEF L!Inv, L!PatchesAreFresh, L!Answers
    <3> QED
      BY <1>3, <1>5, <3>1, <3>2
  <2>2. ASSUME x1.after = "patch", NEW d \in Calls, x8'[d].ok, d \notin x10',
               x8'[d].op = "load", NEW r \in Own
        PROVE  \/ x8'[d].got[r] = x2[r]
               \/ \E k \in Calls : L!Answers(k, r)' /\ <<d, k>> \in x9'
    BY <1>3, <1>5, <1>7, <1>17, <2>2 DEF L!Inv, L!PatchesAreFresh
  <2>3. x1' = x1 /\ x2' = x2
    BY <1>1
  <2> QED
    BY <2>1, <2>2, <2>3 DEF L!PatchesAreFresh, L!Answers
<1>20. L!RowsAreThere'
  <2>1. ASSUME x1.after = "patch", NEW d \in Calls, x8'[d].ok, x8'[d].op = "delete"
        PROVE  /\ x2[x8'[d].row] = None
               /\ \A k \in Calls : x8'[k].row = x8'[d].row =>
                     /\ x8'[k].op = "create" => L!Answered(k)'
                     /\ k # d /\ <<d, k>> \in x9' => ~x8'[k].ok
    <3>1. d # c /\ x8'[d] = x8[d] /\ x8[d].row \in Own
      BY <1>5, <2>1 DEF L!Inv, L!CallsAreWhole, L!Acts
    <3>2. \A k \in Calls : x8'[k].row = x8[d].row => k # c /\ x8'[k] = x8[k]
      BY <1>4, <3>1, ListAtRest, ConstantsAreSound DEF L!NoneIsNoRow
    <3> QED
      BY <1>3, <2>1, <3>1, <3>2 DEF L!Inv, L!RowsAreThere
  <2>2. ASSUME x1.after = "patch", NEW d \in Calls, x8'[d].ok, x8'[d].op = "load",
               d \notin x10', NEW r \in Own
        PROVE  \/ x8'[d].got[r] # None
               \/ \E e \in Calls : /\ x8'[e].op = "create" /\ x8'[e].ok
                                   /\ x8'[e].row = r /\ <<d, e>> \in x9'
               \/ /\ x2[r] = None
                  /\ \A k \in Calls : /\ x8'[k].op \in {"set", "settle", "mark"}
                                      /\ x8'[k].row = r /\ <<d, k>> \in x9'
                                      => ~x8'[k].ok
    <3>1. d # c /\ x8'[d] = x8[d] /\ x8[d].ok /\ d \notin x10
      BY <1>5, <1>7, <2>2
    <3>2. \A e \in Calls : x8[e].op = "create" => e # c
      BY <1>1
    <3>3. \/ x8[d].got[r] # None
          \/ \E e \in Calls : /\ x8[e].op = "create" /\ x8[e].ok
                              /\ x8[e].row = r /\ <<d, e>> \in x9
          \/ /\ x2[r] = None
             /\ \A k \in Calls : /\ x8[k].op \in {"set", "settle", "mark"}
                                 /\ x8[k].row = r /\ <<d, k>> \in x9
                                 => ~x8[k].ok
      BY <2>2, <3>1 DEF L!Inv, L!RowsAreThere
    <3>4. ASSUME NEW k \in Calls, <<d, k>> \in x9'
          PROVE  x8'[k] = x8[k] /\ <<d, k>> \in x9
      BY <1>3, <1>4, <3>4
    <3>5. ASSUME NEW e \in Calls, x8[e].op = "create", <<d, e>> \in x9
          PROVE  x8'[e] = x8[e] /\ <<d, e>> \in x9'
      BY <1>3, <1>4, <3>1, <3>2, <3>5
    <3> QED
      BY <3>1, <3>3, <3>4, <3>5
  <2> QED
    BY <1>1, <2>1, <2>2 DEF L!RowsAreThere
<1>21. L!RowsAreShown'
  <2>1. ASSUME x1.after = "patch", ~x12', ~used
        PROVE  ~x12 /\ x3' = x3 /\ ~L!Awaited(c)
    BY <1>1, <1>14, <2>1
  <2>2. ASSUME x1.after = "patch", ~x12', used
        PROVE  c \notin x10 /\ x3' = x8[c].got /\ x8[c].ok
    BY <1>1, <2>2 DEF used
  <2>3. ASSUME x1.after = "patch", ~x12', NEW r \in Own
        PROVE  x3'[r] = x2[r] \/ \E k \in Calls : L!Awaits(k, r)'
    <3>1. CASE used
      BY <1>1, <1>17, <2>2, <2>3, <3>1 DEF L!Inv, L!PatchesAreFresh, L!Awaits
    <3>2. CASE ~used
      <4>1. ASSUME NEW k \in Calls, L!Awaits(k, r) PROVE L!Awaits(k, r)'
        BY <1>13, <1>17, <2>1, <2>3, <3>2, <4>1 DEF L!Awaits
      <4> QED
        BY <2>1, <2>3, <3>2, <4>1 DEF L!Inv, L!RowsAreShown
    <3> QED
      BY <3>1, <3>2
  <2>4. ASSUME x1.after = "patch", ~x12', NEW d \in Calls,
               x8'[d].op \in {"set", "settle", "mark"}, x8'[d].ok, d \notin x10'
        PROVE  \/ x3'[x8'[d].row] # None
               \/ \E k \in Calls \ {d} :
                     \/ L!Awaited(k)'
                     \/ /\ L!Acts(k)' /\ L!Answered(k)' /\ x8'[k].row = x8'[d].row
                        /\ x8'[k].op = "create" \/ k \in x10' \/ ~x8'[k].ok
    <3>1. /\ d # c /\ x8'[d] = x8[d] /\ x8[d].ok /\ d \notin x10
          /\ (used => <<d, c>> \notin x9) /\ L!Answered(d) /\ x8[d].row \in Own
      BY <1>5, <1>7, <2>4
      DEF L!Inv, L!AnswersAreOrdered, L!CallsAreWhole, L!Acts
    <3>2. CASE used
      <4>1. <<c, d>> \in x9
        BY <1>3, <3>1, <3>2 DEF L!Inv, L!AnswersAreOrdered
      <4>2. \/ x8[c].got[x8[d].row] # None
            \/ \E e \in Calls : /\ x8[e].op = "create" /\ x8[e].ok
                                /\ x8[e].row = x8[d].row /\ <<c, e>> \in x9
        BY <1>1, <2>2, <2>4, <3>1, <3>2, <4>1 DEF L!Inv, L!RowsAreThere
      <4>3. ASSUME NEW e \in Calls, x8[e].op = "create", x8[e].ok
            PROVE  /\ e # d /\ L!Acts(e)' /\ L!Answered(e)' /\ x8'[e] = x8[e]
        <5>1. L!Acts(e) /\ L!Answered(e) /\ e # c /\ e # d
          BY <1>1, <2>4, <3>1, <4>3 DEF L!Acts, L!Inv, L!AnswersAreOrdered
        <5> QED
          BY <1>3, <1>4, <1>5, <5>1
      <4> QED
        BY <2>2, <2>4, <3>1, <3>2, <4>2, <4>3
    <3>3. CASE ~used
      <4>1. \/ x3[x8[d].row] # None
            \/ \E k \in Calls \ {d} :
                  \/ L!Awaited(k)
                  \/ /\ L!Acts(k) /\ L!Answered(k) /\ x8[k].row = x8[d].row
                     /\ x8[k].op = "create" \/ k \in x10 \/ ~x8[k].ok
        BY <2>1, <2>4, <3>1, <3>3 DEF L!Inv, L!RowsAreShown, L!Answers
      <4>2. ASSUME NEW k \in Calls, L!Awaited(k) PROVE L!Awaited(k)'
        BY <1>13, <2>1, <2>4, <3>3, <4>2
      <4>3. ASSUME NEW k \in Calls, L!Acts(k), L!Answered(k)
            PROVE  /\ L!Acts(k)' /\ L!Answered(k)' /\ x8'[k] = x8[k]
                   /\ k \in x10 => k \in x10'
        BY <1>1, <1>3, <1>5, <4>3
      <4> QED
        BY <2>1, <2>4, <3>1, <3>3, <4>1, <4>2, <4>3
    <3> QED
      BY <3>2, <3>3
  <2> QED
    BY <1>1, <2>3, <2>4 DEF L!RowsAreShown, L!Answers
<1> QED
  BY <1>8, <1>9, <1>10, <1>11, <1>12, <1>18, <1>19, <1>20, <1>21 DEF L!Inv

LEMMA ListActedFacts ==
  ASSUME L!Inv, NEW c \in Calls, L!Acted(c)
  PROVE  /\ x8' \in [Calls -> L!Call] /\ \A k \in Calls : k # c => x8'[k] = x8[k]
         /\ x8'[c].row = None /\ ~x8'[c].ok
         /\ IF x1.after = "reload" /\ x8[c].ok
            THEN x8'[c].op = "load" /\ x11' = c
            ELSE x8'[c] = L!Idle /\ x11' = x11
<1>1. x8 \in [Calls -> L!Call] /\ x5 \in L!Views
  BY DEF L!Inv, L!TypeOK
<1>2. PICK v : v = IF x1.reads = "now" THEN x5 ELSE x8[c].view
  OBVIOUS
<1>3. v \in L!Views
  BY <1>1, <1>2 DEF L!Call
<1>4. PICK l : l = L!Load(v)
  OBVIOUS
<1>5. l \in L!Call /\ l.op = "load" /\ l.row = None /\ ~l.ok
  BY <1>3, <1>4, ListLoadFacts
<1>6. CASE x1.after = "reload" /\ x8[c].ok
  <2>1. x8' = [x8 EXCEPT ![c] = l] /\ x11' = c
    BY <1>2, <1>4, <1>6 DEF L!Acted
  <2> QED
    BY <1>1, <1>5, <1>6, <2>1
<1>7. CASE ~(x1.after = "reload" /\ x8[c].ok)
  <2>1. x8' = [x8 EXCEPT ![c] = L!Idle] /\ x11' = x11
    BY <1>7 DEF L!Acted
  <2> QED
    BY <1>1, <1>7, <2>1, ListAtRest
<1> QED
  BY <1>6, <1>7

LEMMA ListPatchedFacts ==
  ASSUME L!Inv, NEW c \in Calls, L!Acts(c)
  PROVE  /\ L!Patched(c) \in L!Rowset
         /\ \A r \in Own : L!Patched(c)[r] =
              IF /\ x8[c].ok /\ x8[c].row = r
                 /\ x8[c].op = "create" \/ x3[r] # None
              THEN x8[c].to ELSE x3[r]
<1>1. x8[c].row \in Own /\ x8[c].to \in L!States \cup {None} /\ x3 \in L!Rowset
  BY DEF L!Inv, L!TypeOK, L!CallsAreWhole, L!Call
<1>2. CASE ~x8[c].ok \/ (x8[c].op # "create" /\ x3[x8[c].row] = None)
  BY <1>1, <1>2 DEF L!Patched
<1>3. CASE ~(~x8[c].ok \/ (x8[c].op # "create" /\ x3[x8[c].row] = None))
  <2>1. L!Patched(c) = [x3 EXCEPT ![x8[c].row] = x8[c].to]
    BY <1>3 DEF L!Patched
  <2> QED
    BY <1>1, <1>3, <2>1 DEF L!Rowset
<1> QED
  BY <1>2, <1>3

LEMMA ListActedInv ==
  ASSUME L!Inv, NEW c \in Calls, L!Acted(c)
  PROVE  L!Inv'
<1> DEFINE patches == x1.after = "patch"
<1>1. /\ L!Delivered(c) /\ x8[c].op # "load" /\ x6' = x6 \ L!Enabling(c)
      /\ x13' = (x13 \cup {k \in Calls : x8[k].row \in x6 \ x6'}) \ {c}
      /\ x7' = (x7 /\ ~(x8[c].op = "create" /\ x8[c].ok))
      /\ x10' = (IF patches THEN x10 \cup L!Overtaken(c) ELSE x10) \ {c}
      /\ x12' = (x12 \/ (patches /\ c \in x10) \/ ~x8[c].ok)
      /\ UNCHANGED <<x1, x2, x4, x5>>
  BY DEF L!Acted
<1>2. /\ L!TypeOK /\ x8 \in [Calls -> L!Call] /\ x10 \subseteq Calls /\ x12 \in BOOLEAN
      /\ x3 \in L!Rowset /\ x2 \in L!Rowset /\ x1 \in L!Page /\ x6 \subseteq Own
      /\ x13 \subseteq Calls /\ x7 \in BOOLEAN /\ x11 \in Calls \cup {None}
  BY DEF L!Inv, L!TypeOK
<1>3. /\ x9' \subseteq Calls \X Calls /\ L!Answered(c)
      /\ \A k \in Calls : L!Answered(k)' <=> L!Answered(k) /\ k # c
      /\ \A j, k \in Calls :
            <<j, k>> \in x9' <=> <<j, k>> \in x9 /\ j # c /\ k # c
  BY <1>1, <1>2, ListDeliveredFacts
<1>4. /\ x8' \in [Calls -> L!Call] /\ \A k \in Calls : k # c => x8'[k] = x8[k]
      /\ x8'[c].row = None /\ ~x8'[c].ok
      /\ IF x1.after = "reload" /\ x8[c].ok
         THEN x8'[c].op = "load" /\ x11' = c
         ELSE x8'[c] = L!Idle /\ x11' = x11
  BY ListActedFacts
<1>5. L!Acts(c) /\ x8[c].row \in Own
  BY <1>1, <1>3 DEF L!Inv, L!AnswersAreOrdered, L!CallsAreWhole, L!Acts
<1>6. x8'[c].op \in {"idle", "load"} /\ ~L!Acts(c)'
  BY <1>4, ListAtRest DEF L!Acts
<1>7. \A k \in Calls : /\ L!Acts(k)' \/ x8'[k].ok => k # c /\ x8'[k] = x8[k]
                       /\ k # c => (L!Acts(k)' <=> L!Acts(k))
  BY <1>4, <1>6 DEF L!Acts
<1>8. patches => x8'[c] = L!Idle /\ x11' = x11 /\ ~x1.newest
  BY <1>4 DEF L!Inv, L!PatchesOneList
<1>9. \A k \in Calls : k \in L!Overtaken(c) <=>
         /\ k # c /\ <<k, c>> \in x9
         /\ x8[k].op = "load" \/ x8[k].row = x8[c].row
  BY <1>1 DEF L!Overtaken
<1>10. ASSUME patches, NEW k \in Calls, k \notin x10', k # c
       PROVE  /\ k \notin x10
              /\ x8[k].op = "load" \/ x8[k].row = x8[c].row => <<k, c>> \notin x9
  BY <1>1, <1>9, <1>10
<1>11. x3' = CASE patches -> L!Patched(c)
                  [] x1.after = "reload" /\ x8[c].ok /\ "reading" \in x1.blank -> L!NoRows
                  [] OTHER -> x3
  BY DEF L!Acted
<1>12. x1.after \in {"patch", "reload"}
  BY <1>2 DEF L!Page
<1>13. x3' \in L!Rowset
  BY <1>2, <1>5, <1>11, ListAtRest, ListPatchedFacts
<1>14. L!TypeOK'
  <2>1. x10' \subseteq Calls
    BY <1>1, <1>2 DEF L!Overtaken
  <2>2. x11' \in Calls \cup {None}
    BY <1>2, <1>4
  <2>3. x14' \in BOOLEAN
    BY DEF L!Acted, L!Revealed, L!Inv, L!TypeOK
  <2>4. x13' \subseteq Calls /\ x6' \subseteq Own /\ x12' \in BOOLEAN
        /\ x7' \in BOOLEAN
    BY <1>1, <1>2
  <2>5. x4' \in BOOLEAN /\ x5' \in L!Views
    BY <1>1, <1>2 DEF L!TypeOK
  <2> QED
    BY <1>1, <1>2, <1>3, <1>4, <1>13, <2>1, <2>2, <2>3, <2>4, <2>5 DEF L!TypeOK
<1>15. L!AnswersAreOrdered'
  <2>1. ASSUME NEW j \in Calls, NEW k \in Calls
        PROVE  /\ <<j, k>> \in x9' => L!Answered(j)' /\ L!Answered(k)'
               /\ L!Answered(j)' /\ L!Answered(k)' =>
                     <<j, k>> \in x9' \/ <<k, j>> \in x9'
    BY <1>3 DEF L!Inv, L!AnswersAreOrdered
  <2>2. ASSUME NEW k \in Calls
        PROVE  /\ L!Answered(k)' => x8'[k].op # "idle"
               /\ x8'[k].ok \/ k \in x10' => L!Answered(k)'
    <3>1. L!Answered(k)' => x8'[k].op # "idle"
      BY <1>3, <1>4 DEF L!Inv, L!AnswersAreOrdered
    <3>2. x8'[k].ok => L!Answered(k)'
      BY <1>3, <1>7 DEF L!Inv, L!AnswersAreOrdered
    <3>3. k \in x10' => k # c /\ L!Answered(k)
      BY <1>1, <1>9 DEF L!Inv, L!AnswersAreOrdered
    <3> QED
      BY <1>3, <3>1, <3>2, <3>3
  <2> QED
    BY <2>1, <2>2 DEF L!AnswersAreOrdered
<1>16. L!CallsAreWhole'
  <2>1. \A k \in Calls : k # c => (L!Unanswered(k)' <=> L!Unanswered(k))
    BY <1>3, <1>4 DEF L!Unanswered
  <2> QED
    BY <1>1, <1>4, <1>6, <1>7, <2>1 DEF L!Inv, L!CallsAreWhole
<1>17. L!PatchesOneList'
  BY <1>1, <1>4, <1>8, ListAtRest DEF L!Inv, L!PatchesOneList
<1>18. L!RowsAreHeld'
  <2>1. x6' \subseteq x6
    BY <1>1
  <2>2. ASSUME x1.lock # "none", NEW k \in Calls, L!Acts(k)', x8'[k].op # "create"
        PROVE  k \in x13' \/ x8'[k].row \in x6'
    BY <1>1, <1>7, <2>2 DEF L!Inv, L!RowsAreHeld
  <2>3. ASSUME x1.lock # "none", NEW j \in Calls, NEW k \in Calls, j # k,
               x8'[j].row = x8'[k].row, L!Acts(j)', x8'[j].op # "create",
               L!Acts(k)', x8'[k].op # "create"
        PROVE  j \in x13' \/ k \in x13'
    BY <1>1, <1>7, <2>3 DEF L!Inv, L!RowsAreHeld
  <2>4. x1.lock = "none" => x6' = {}
    BY <2>1 DEF L!Inv, L!RowsAreHeld
  <2>5. ASSUME x1.lock = "row", NEW s \in x6'
        PROVE  \E k \in Calls : L!Acts(k)' /\ x8'[k].op # "create" /\ x8'[k].row = s
    <3>1. PICK k \in Calls : L!Acts(k) /\ x8[k].op # "create" /\ x8[k].row = s
      BY <2>1, <2>5 DEF L!Inv, L!RowsAreHeld
    <3>2. k # c
      BY <1>1, <2>5, <3>1 DEF L!Enabling
    <3> QED
      BY <1>4, <1>7, <3>1, <3>2
  <2>6. ASSUME x6' # {}
        PROVE  \E k \in Calls : L!Acts(k)' /\ (x8'[k].op = "create" => x1.lock = "all")
    <3>1. CASE x1.lock = "row"
      BY <2>5, <2>6, <3>1
    <3>2. CASE x1.lock # "row"
      <4>1. x8[c].op = "create" /\ x1.lock # "all"
        BY <1>1, <2>6, <3>2 DEF L!Enabling
      <4>2. PICK k \in Calls : L!Acts(k) /\ (x8[k].op = "create" => x1.lock = "all")
        BY <2>1, <2>6 DEF L!Inv, L!RowsAreHeld
      <4> QED
        BY <1>4, <1>7, <4>1, <4>2
    <3> QED
      BY <3>1, <3>2
  <2> QED
    BY <1>1, <2>2, <2>3, <2>4, <2>5, <2>6 DEF L!RowsAreHeld
<1>19. ASSUME NEW k \in Calls, k # c, L!Awaited(k), x1.newest => x11' = x11
       PROVE  L!Awaited(k)'
  BY <1>1, <1>3, <1>4, <1>19 DEF L!Awaited, L!Unanswered
<1>20. L!ReadAgainInTime'
  <2>1. ASSUME x1.after = "reload", x8[c].ok
        PROVE  L!Rereads(c)' /\ ~L!Answered(c)'
    BY <1>1, <1>3, <1>4, <2>1 DEF L!Rereads, L!Awaited, L!Unanswered
  <2>2. ASSUME x1.after = "reload", NEW d \in Calls, x8'[d].op = "load", L!Awaited(d)',
               x8'[d].ok, d \notin x10'
        PROVE  \/ x8'[d].got = L!Listed(x8'[d].view, x2)
               \/ \E k \in Calls \ {d} : /\ L!Rereads(k)'
                                         /\ L!Answered(k)' => <<d, k>> \in x9'
    <3>1. d # c /\ x8'[d] = x8[d] /\ d \notin x10
      BY <1>1, <1>7, <2>2
    <3>2. x1.newest => x11' = d
      BY <1>1, <2>2 DEF L!Awaited
    <3>3. x1.newest => x11' = x11
      BY <1>4, <3>1, <3>2
    <3>4. L!Awaited(d)
      BY <2>2, <3>1, <3>2, <3>3 DEF L!Awaited
    <3>5. CASE x8[d].got = L!Listed(x8[d].view, x2)
      BY <3>1, <3>5
    <3>6. CASE \E k \in Calls \ {d} : L!Rereads(k) /\ (L!Answered(k) => <<d, k>> \in x9)
      <4>1. PICK k \in Calls \ {d} : L!Rereads(k) /\ (L!Answered(k) => <<d, k>> \in x9)
        BY <3>6
      <4>2. CASE k = c
        <5>1. x8[c].ok
          BY <1>1, <4>1, <4>2 DEF L!Rereads, L!Awaited
        <5> QED
          BY <2>1, <2>2, <3>1, <5>1
      <4>3. CASE k # c
        <5>1. L!Rereads(k)'
          BY <1>4, <1>7, <1>19, <3>3, <4>1, <4>3 DEF L!Rereads
        <5> QED
          BY <1>3, <3>1, <4>1, <4>3, <5>1
      <4> QED
        BY <4>2, <4>3
    <3> QED
      BY <2>2, <3>1, <3>4, <3>5, <3>6 DEF L!Inv, L!ReadAgainInTime
  <2>3. x1.after = "reload" => x12' \/ \E k \in Calls : L!Rereads(k)'
    BY <1>1, <2>1
  <2>4. x1' = x1 /\ x2' = x2
    BY <1>1
  <2> QED
    BY <2>2, <2>3, <2>4 DEF L!ReadAgainInTime, L!Listed
<1>21. L!PatchesAreFresh'
  <2>1. ASSUME patches, NEW d \in Calls, x8'[d].ok, d \notin x10', L!Acts(d)'
        PROVE  \/ x8'[d].to = x2[x8'[d].row]
               \/ \E k \in Calls \ {d} : /\ L!Acts(k)' /\ L!Answered(k)'
                                         /\ x8'[k].row = x8'[d].row
                                         /\ <<d, k>> \in x9'
    <3>1. /\ d # c /\ L!Acts(d) /\ x8'[d] = x8[d] /\ x8[d].ok /\ d \notin x10
          /\ x8[d].row = x8[c].row => <<d, c>> \notin x9
      BY <1>7, <1>10, <2>1
    <3>2. \/ x8[d].to = x2[x8[d].row]
          \/ \E k \in Calls \ {d} : /\ L!Acts(k) /\ L!Answered(k) /\ x8[k].row = x8[d].row
                                    /\ <<d, k>> \in x9
      BY <2>1, <3>1 DEF L!Inv, L!PatchesAreFresh, L!Answers
    <3>3. ASSUME NEW k \in Calls, L!Acts(k), L!Answered(k), x8[k].row = x8[d].row,
                 <<d, k>> \in x9
          PROVE  /\ L!Acts(k)' /\ L!Answered(k)' /\ x8'[k].row = x8'[d].row
                 /\ <<d, k>> \in x9'
      BY <1>3, <1>4, <1>7, <3>1, <3>3
    <3> QED
      BY <3>1, <3>2, <3>3
  <2>2. ASSUME patches, NEW d \in Calls, x8'[d].ok, d \notin x10',
               x8'[d].op = "load", NEW r \in Own
        PROVE  \/ x8'[d].got[r] = x2[r]
               \/ \E k \in Calls : L!Answers(k, r)' /\ <<d, k>> \in x9'
    <3>1. /\ d # c /\ x8'[d] = x8[d] /\ x8[d].ok /\ d \notin x10
          /\ <<d, c>> \notin x9
      BY <1>7, <1>10, <2>2
    <3>2. \/ x8[d].got[r] = x2[r]
          \/ \E k \in Calls : L!Answers(k, r) /\ <<d, k>> \in x9
      BY <2>2, <3>1 DEF L!Inv, L!PatchesAreFresh
    <3>3. ASSUME NEW k \in Calls, L!Answers(k, r), <<d, k>> \in x9
          PROVE  L!Answers(k, r)' /\ <<d, k>> \in x9'
      BY <1>3, <1>4, <1>7, <3>1, <3>3 DEF L!Answers
    <3> QED
      BY <3>1, <3>2, <3>3
  <2>3. x1' = x1 /\ x2' = x2
    BY <1>1
  <2> QED
    BY <2>1, <2>2, <2>3 DEF L!PatchesAreFresh, L!Answers
<1>22. L!RowsAreThere'
  <2>1. ASSUME patches, NEW d \in Calls, x8'[d].ok, x8'[d].op = "delete"
        PROVE  /\ x2[x8'[d].row] = None
               /\ \A k \in Calls : x8'[k].row = x8'[d].row =>
                     /\ x8'[k].op = "create" => L!Answered(k)'
                     /\ k # d /\ <<d, k>> \in x9' => ~x8'[k].ok
    <3>1. d # c /\ x8'[d] = x8[d] /\ x8[d].row \in Own
      BY <1>7, <2>1 DEF L!Inv, L!CallsAreWhole, L!Acts
    <3>2. \A k \in Calls : x8'[k].row = x8[d].row => k # c /\ x8'[k] = x8[k]
      BY <1>4, <3>1, ConstantsAreSound DEF L!NoneIsNoRow
    <3> QED
      BY <1>3, <2>1, <3>1, <3>2 DEF L!Inv, L!RowsAreThere
  <2>2. ASSUME patches, NEW d \in Calls, x8'[d].ok, x8'[d].op = "load",
               d \notin x10', NEW r \in Own
        PROVE  \/ x8'[d].got[r] # None
               \/ \E e \in Calls : /\ x8'[e].op = "create" /\ x8'[e].ok
                                   /\ x8'[e].row = r /\ <<d, e>> \in x9'
               \/ /\ x2[r] = None
                  /\ \A k \in Calls : /\ x8'[k].op \in {"set", "settle", "mark"}
                                      /\ x8'[k].row = r /\ <<d, k>> \in x9'
                                      => ~x8'[k].ok
    <3>1. /\ d # c /\ x8'[d] = x8[d] /\ x8[d].ok /\ d \notin x10
          /\ <<d, c>> \notin x9
      BY <1>7, <1>10, <2>2
    <3>2. \/ x8[d].got[r] # None
          \/ \E e \in Calls : /\ x8[e].op = "create" /\ x8[e].ok
                              /\ x8[e].row = r /\ <<d, e>> \in x9
          \/ /\ x2[r] = None
             /\ \A k \in Calls : /\ x8[k].op \in {"set", "settle", "mark"}
                                 /\ x8[k].row = r /\ <<d, k>> \in x9
                                 => ~x8[k].ok
      BY <2>2, <3>1 DEF L!Inv, L!RowsAreThere
    <3>3. ASSUME NEW k \in Calls
          PROVE  /\ <<d, k>> \in x9' => <<d, k>> \in x9
                 /\ <<d, k>> \in x9 => x8'[k] = x8[k] /\ <<d, k>> \in x9'
      BY <1>3, <1>4, <3>1
    <3> QED
      BY <3>1, <3>2, <3>3
  <2> QED
    BY <1>1, <2>1, <2>2 DEF L!RowsAreThere
<1>23. L!RowsAreShown'
  <2>1. ASSUME patches, ~x12'
        PROVE  /\ ~x12 /\ c \notin x10 /\ x8[c].ok /\ ~L!Awaited(c)
               /\ \A r \in Own : x3'[r] =
                    IF x8[c].row = r /\ (x8[c].op = "create" \/ x3[r] # None)
                    THEN x8[c].to ELSE x3[r]
    <3>1. ~x12 /\ c \notin x10 /\ x8[c].ok /\ ~L!Awaited(c)
      BY <1>1, <2>1 DEF L!Awaited
    <3> QED
      BY <1>5, <1>11, <2>1, <3>1, ListPatchedFacts
  <2>2. ASSUME patches, NEW k \in Calls, k # c, NEW r \in Own, L!Awaits(k, r)
        PROVE  L!Awaits(k, r)'
    <3>1. L!Awaited(k) => L!Awaited(k)'
      BY <1>8, <1>19, <2>2
    <3>2. L!Answers(k, r) => L!Answers(k, r)'
      BY <1>3, <1>4, <1>7, <2>2 DEF L!Answers
    <3> QED
      BY <2>2, <3>1, <3>2 DEF L!Awaits
  <2>3. x8[c].op \in {"set", "settle", "mark", "delete", "create", "keep"}
    BY <1>2, <1>5 DEF L!Acts, L!Call
  <2>4. patches => x8[c].op # "keep"
    BY DEF L!Inv, L!PatchesOneList
  <2>5. ASSUME patches, ~x12', NEW r \in Own
        PROVE  x3'[r] = x2[r] \/ \E k \in Calls : L!Awaits(k, r)'
    <3>1. CASE r # x8[c].row
      <4>1. ASSUME NEW k \in Calls, L!Awaits(k, r) PROVE k # c
        BY <2>1, <2>5, <3>1, <4>1 DEF L!Awaits, L!Answers
      <4> QED
        BY <2>1, <2>2, <2>5, <3>1, <4>1 DEF L!Inv, L!RowsAreShown
    <3>2. CASE r = x8[c].row
      <4>1. x8[c].to = x2[r] \/ \E k \in Calls \ {c} : L!Answers(k, r)
        BY <1>5, <2>1, <2>5, <3>2 DEF L!Inv, L!PatchesAreFresh
      <4>2. CASE \E k \in Calls \ {c} : L!Awaits(k, r)
        BY <2>2, <2>5, <4>2
      <4>3. CASE x8[c].op = "create" \/ x3[r] # None
        BY <2>1, <2>5, <3>2, <4>1, <4>2, <4>3 DEF L!Awaits
      <4>4. CASE x8[c].op = "delete" /\ x3[r] = None
        <5>1. x8[c].to = None
          BY <4>4 DEF L!Inv, L!CallsAreWhole
        <5> QED
          BY <2>1, <2>5, <3>2, <4>1, <4>2, <4>4, <5>1 DEF L!Awaits
      <4>5. CASE x8[c].op \in {"set", "settle", "mark"} /\ x3[r] = None
        <5>1. PICK k \in Calls \ {c} : L!Awaited(k) \/ L!Answers(k, x8[c].row)
          BY <2>1, <2>5, <3>2, <4>5 DEF L!Inv, L!RowsAreShown
        <5> QED
          BY <3>2, <4>2, <5>1 DEF L!Awaits
      <4> QED
        BY <2>3, <2>4, <2>5, <4>3, <4>4, <4>5
    <3> QED
      BY <3>1, <3>2
  <2>6. ASSUME patches, ~x12', NEW d \in Calls,
               x8'[d].op \in {"set", "settle", "mark"}, x8'[d].ok, d \notin x10'
        PROVE  \/ x3'[x8'[d].row] # None
               \/ \E k \in Calls \ {d} :
                     \/ L!Awaited(k)'
                     \/ /\ L!Acts(k)' /\ L!Answered(k)' /\ x8'[k].row = x8'[d].row
                        /\ x8'[k].op = "create" \/ k \in x10' \/ ~x8'[k].ok
    <3>1. /\ d # c /\ x8'[d] = x8[d] /\ x8[d].ok /\ d \notin x10
          /\ x8[d].row = x8[c].row => <<d, c>> \notin x9
          /\ L!Answered(d) /\ x8[d].row \in Own
      BY <1>7, <1>10, <2>6
      DEF L!Inv, L!AnswersAreOrdered, L!CallsAreWhole, L!Acts
    <3>2. \/ x3[x8[d].row] # None
          \/ \E k \in Calls \ {d} :
                \/ L!Awaited(k)
                \/ /\ L!Acts(k) /\ L!Answered(k) /\ x8[k].row = x8[d].row
                   /\ x8[k].op = "create" \/ k \in x10 \/ ~x8[k].ok
      BY <2>1, <2>6, <3>1 DEF L!Inv, L!RowsAreShown, L!Answers
    <3>3. ASSUME NEW k \in Calls, k # c
          PROVE  /\ L!Awaited(k) => L!Awaited(k)'
                 /\ L!Acts(k) /\ L!Answered(k) => L!Acts(k)' /\ L!Answered(k)'
                 /\ x8'[k] = x8[k] /\ (k \in x10 => k \in x10')
      BY <1>1, <1>3, <1>4, <1>7, <1>8, <1>19, <2>6, <3>3
    <3>4. x8[c].op = "create" => x8[c].to # None
      BY ConstantsAreSound DEF L!Inv, L!CallsAreWhole, L!NoneIsNoRow
    <3>5. CASE x3[x8[d].row] # None
      <4>1. ASSUME x8[c].row = x8[d].row PROVE x8[c].op # "delete"
        <5>1. <<c, d>> \in x9
          BY <1>3, <3>1, <4>1 DEF L!Inv, L!AnswersAreOrdered
        <5> QED
          BY <2>1, <2>6, <3>1, <4>1, <5>1 DEF L!Inv, L!RowsAreThere
      <4>2. x8[c].row = x8[d].row => x8[c].to # None
        BY <2>3, <2>4, <2>6, <3>4, <4>1 DEF L!Inv, L!CallsAreWhole
      <4> QED
        BY <2>1, <2>6, <3>1, <3>5, <4>2
    <3>6. CASE \E k \in Calls \ {d} :
                \/ L!Awaited(k)
                \/ /\ L!Acts(k) /\ L!Answered(k) /\ x8[k].row = x8[d].row
                   /\ x8[k].op = "create" \/ k \in x10 \/ ~x8[k].ok
      <4>1. PICK k \in Calls \ {d} :
                \/ L!Awaited(k)
                \/ /\ L!Acts(k) /\ L!Answered(k) /\ x8[k].row = x8[d].row
                   /\ x8[k].op = "create" \/ k \in x10 \/ ~x8[k].ok
        BY <3>6
      <4>2. CASE k = c
        <5>1. x8[c].op = "create" /\ x8[c].row = x8[d].row
          BY <2>1, <2>6, <4>1, <4>2
        <5> QED
          BY <2>1, <2>6, <3>1, <3>4, <5>1
      <4>3. CASE k # c
        BY <3>1, <3>3, <4>1, <4>3
      <4> QED
        BY <4>2, <4>3
    <3> QED
      BY <3>2, <3>5, <3>6
  <2> QED
    BY <1>1, <2>5, <2>6 DEF L!RowsAreShown, L!Answers
<1> QED
  BY <1>14, <1>15, <1>16, <1>17, <1>18, <1>20, <1>21, <1>22, <1>23 DEF L!Inv

LEMMA ListNextInv == ASSUME L!Inv, L!Next PROVE L!Inv'
BY ListToggleFormInv, ListActInv, ListCreateInv, ListSwitchInv,
   ListReadAgainInv, ListServeInv, ListFailInv, ListLoadedInv, ListActedInv
DEF L!Next

LEMMA ListStutterInv == ASSUME L!Inv, UNCHANGED L!vars PROVE L!Inv'
<1>1. UNCHANGED <<x1, x2, x3, x4, x5, x6, x7, x8, x9, x10,
                  x11, x12, x13, x14>>
  BY DEF L!vars
<1>2. L!TypeOK'
  BY <1>1 DEF L!Inv, L!TypeOK
<1>3. L!AnswersAreOrdered' /\ L!CallsAreWhole'
  BY <1>1
  DEF L!Inv, L!AnswersAreOrdered, L!CallsAreWhole, L!Acts, L!Answered,
      L!Unanswered
<1>4. L!PatchesOneList' /\ L!RowsAreHeld'
  BY <1>1 DEF L!Inv, L!PatchesOneList, L!RowsAreHeld, L!Acts
<1>5. L!ReadAgainInTime'
  BY <1>1
  DEF L!Inv, L!ReadAgainInTime, L!Rereads, L!Awaited, L!Acts, L!Answered,
      L!Unanswered, L!Listed
<1>6. L!PatchesAreFresh' /\ L!RowsAreThere'
  BY <1>1
  DEF L!Inv, L!PatchesAreFresh, L!RowsAreThere, L!Answers, L!Acts, L!Answered
<1>7. L!RowsAreShown'
  BY <1>1
  DEF L!Inv, L!RowsAreShown, L!Awaits, L!Awaited, L!Answers, L!Acts,
      L!Answered, L!Unanswered
<1> QED
  BY <1>2, <1>3, <1>4, <1>5, <1>6, <1>7 DEF L!Inv

LEMMA ListInvImplies ==
  ASSUME L!Inv
  PROVE  L!TypeOK /\ L!ListsTellTheTruth /\ L!RowsActOnce
<1>1. L!TypeOK
  BY DEF L!Inv
<1>2. L!ListsTellTheTruth
  <2>1. ASSUME L!Quiet, ~x12 PROVE x3 = L!Listed(x5, x2)
    <3>1. \A k \in Calls : ~L!Rereads(k) /\ ~L!Awaited(k) /\ ~L!Acts(k)
      BY <2>1 DEF L!Quiet, L!Rereads, L!Awaited, L!Acts
    <3>2. CASE x1.after = "reload"
      BY <2>1, <3>1, <3>2 DEF L!Inv, L!ReadAgainInTime
    <3>3. CASE x1.after = "patch"
      <4>1. \A r \in Own : x3[r] = x2[r]
        BY <2>1, <3>1, <3>3 DEF L!Inv, L!RowsAreShown, L!Awaits, L!Answers
      <4>2. x3 \in L!Rowset /\ x2 \in L!Rowset
        BY <1>1 DEF L!TypeOK
      <4>3. x3 = x2
        BY <4>1, <4>2 DEF L!Rowset
      <4>4. x5 = "all" /\ x5 \in L!Views
        BY <1>1, <3>3 DEF L!Inv, L!PatchesOneList, L!TypeOK
      <4> QED
        BY <4>2, <4>3, <4>4, ListedIsRows
    <3>4. x1.after \in {"patch", "reload"}
      BY <1>1 DEF L!TypeOK, L!Page
    <3> QED
      BY <3>2, <3>3, <3>4
  <2> QED
    BY <2>1 DEF L!ListsTellTheTruth
<1>3. L!RowsActOnce
  <2>1. ASSUME x1.lock # "none", NEW c \in Calls, NEW k \in Calls, c # k,
               x8[c].row = x8[k].row, x8[c].row # None,
               "create" \notin {x8[c].op, x8[k].op}
        PROVE  {c, k} \cap x13 # {}
    <3>1. L!Acts(c) /\ L!Acts(k)
      BY <2>1 DEF L!Inv, L!CallsAreWhole
    <3>2. c \in x13 \/ k \in x13
      BY <2>1, <3>1 DEF L!Inv, L!RowsAreHeld
    <3> QED
      BY <3>2
  <2>2. L!Quiet => x6 = {}
    BY DEF L!Inv, L!RowsAreHeld, L!Quiet, L!Acts
  <2> QED
    BY <2>1, <2>2 DEF L!RowsActOnce
<1> QED
  BY <1>1, <1>2, <1>3

-----------------------------------------------------------------------------
(* Editors.                                                                *)

LEMMA EditorAtRest ==
  /\ E!Idle \in E!Call /\ E!Idle.pc = "idle" /\ E!Idle.row = None /\ E!Idle.mine = FALSE
BY DEF E!Idle, E!Call, E!Values, E!Omitted

\* What every editor is: one that stays creates no rows.
LEMMA EditorFacts ==
  ASSUME NEW e \in E!Editors
  PROVE  /\ e.fields \subseteq E!Kinds /\ e.creates \in BOOLEAN /\ e.stays \in BOOLEAN
         /\ e.stays => ~e.creates
<1>1. PICK fields \in SUBSET E!Kinds, creates \in BOOLEAN, stays \in BOOLEAN :
         /\ e = [fields |-> fields, creates |-> creates, stays |-> stays]
         /\ stays => ~creates
  <2>1. \/ e = [fields |-> {"sent"}, creates |-> TRUE, stays |-> FALSE]
        \/ e = [fields |-> {"sent"}, creates |-> FALSE, stays |-> FALSE]
        \/ e = [fields |-> {"sent", "spared"}, creates |-> TRUE, stays |-> FALSE]
        \/ e = [fields |-> {"sent", "spared"}, creates |-> FALSE, stays |-> FALSE]
        \/ e = [fields |-> {"spared", "day"}, creates |-> TRUE, stays |-> FALSE]
        \/ e = [fields |-> {"spared", "day"}, creates |-> FALSE, stays |-> FALSE]
        \/ e = [fields |-> {"sent", "spared"}, creates |-> FALSE, stays |-> TRUE]
    BY
    DEF E!Editors, E!Editor, E!NewNote, E!EditNote, E!NewContact,
        E!EditContact, E!NewTask, E!EditTask, E!UploadFile, E!NewQrCode,
        E!EditQrCode, E!ProfileForm
  <2>2. /\ {"sent"} \in SUBSET E!Kinds /\ {"sent", "spared"} \in SUBSET E!Kinds
        /\ {"spared", "day"} \in SUBSET E!Kinds /\ TRUE \in BOOLEAN /\ FALSE \in BOOLEAN
    BY DEF E!Kinds
  <2> QED
    BY <2>1, <2>2
<1> QED
  BY <1>1

\* What the kinds of field hold, are filled in with, and are sent as.
LEMMA EditorFieldFacts ==
  ASSUME NEW k \in E!Kinds
  PROVE  /\ E!Holds(k) \subseteq E!Values /\ E!Blank(k) \in E!Holds(k)
         /\ \A x \in E!Holds(k) : E!Filled(x) \in E!Holds(k) \ {"late"}
         /\ k # "day" => \A x \in E!Holds(k) : E!Filled(x) = x /\ x # E!Omitted
BY DEF E!Kinds, E!Holds, E!Values, E!Blank, E!Filled, E!Omitted

\* What is sent of a field, and what it makes of what the field holds.
LEMMA EditorSentFacts ==
  ASSUME x2 \in E!Kinds, NEW v \in E!Holds(x2) \ {"late"}
  PROVE  /\ E!Sent(v) \in E!Holds(x2) \cup {E!Omitted}
         /\ x2 # "day" => E!Changed(v, E!Sent(v)) = v
<1>1. v # E!Omitted
  BY DEF E!Kinds, E!Holds, E!Omitted
<1> QED
  BY <1>1 DEF E!Sent, E!Changed

LEMMA EditorTypeFacts ==
  ASSUME E!TypeOK
  PROVE  /\ x2 \in E!Kinds /\ x1.creates \in BOOLEAN /\ x1.stays \in BOOLEAN
         /\ x1.stays => ~x1.creates
         /\ E!Holds(x2) \subseteq E!Values
BY EditorFacts, EditorFieldFacts DEF E!TypeOK

LEMMA EditorInitInv == ASSUME E!Init PROVE E!Inv
<1>1. /\ x1 \in E!Editors /\ x2 \in x1.fields /\ x4 = x3
      /\ x5 = None /\ x6 = [c \in Calls |-> E!Idle] /\ x7 = FALSE
      /\ x8 = 0 /\ x9 = FALSE /\ x10 = FALSE /\ x11 = FALSE
  BY DEF E!Init
<1>2. x2 \in E!Kinds /\ E!Holds(x2) \subseteq E!Values
  BY <1>1, EditorFacts, EditorFieldFacts
<1>3. x3 \in [Own -> E!Holds(x2) \cup {None}]
  <2>1. CASE x1.creates
    BY <2>1 DEF E!Init
  <2>2. CASE ~x1.creates
    <3>1. PICK one \in Own, x \in E!Holds(x2) :
             x3 = [r \in Own |-> IF r = one THEN x ELSE None]
      BY <2>2 DEF E!Init
    <3> QED
      BY <3>1
  <2> QED
    BY <2>1, <2>2
<1>4. x3 \in [Own -> E!Values \cup {None}]
  BY <1>2, <1>3
<1>5. E!TypeOK
  <2>1. x8 \in 0..2
    BY <1>1
  <2>2. /\ x4 \in [Own -> E!Values \cup {None}] /\ x6 \in [Calls -> E!Call]
        /\ x5 \in E!Form \cup {None}
    BY <1>1, <1>4, EditorAtRest
  <2> QED
    BY <1>1, <1>4, <2>1, <2>2 DEF E!TypeOK
<1>6. E!CallsAreItsOwn /\ E!TakenOnce
  BY <1>1, EditorAtRest DEF E!CallsAreItsOwn, E!TakenOnce
<1>7. E!FieldsHold
  BY <1>1, <1>3, EditorAtRest DEF E!FieldsHold
<1> QED
  BY <1>1, <1>5, <1>6, <1>7
  DEF E!Inv, E!DialogsAreTheirOwn, E!OnlyTypedIsChanged

LEMMA EditorOpenInv == ASSUME E!Inv, E!Open PROVE E!Inv'
<1>1. /\ x5 = None /\ x8' = 0 /\ x9' = FALSE
      /\ UNCHANGED <<x1, x2, x3, x4, x6, x7, x10, x11>>
  BY DEF E!Open
<1>2. PICK r \in Own \cup {None}, x \in E!Holds(x2) :
         x5' = [row |-> r, shown |-> E!Filled(x), base |-> x, typed |-> FALSE, busy |-> FALSE]
  <2>1. PICK r \in IF x1.creates THEN {None} ELSE {s \in Own : x4[s] # None} :
           x5' = [row |-> r, shown |-> E!Filled(IF r = None THEN E!Blank(x2) ELSE x4[r]),
                    base |-> IF r = None THEN E!Blank(x2) ELSE x4[r], typed |-> FALSE,
                    busy |-> FALSE]
    BY DEF E!Open
  <2>2. r \in Own \cup {None}
    BY <2>1
  <2>3. PICK x : x = IF r = None THEN E!Blank(x2) ELSE x4[r]
    OBVIOUS
  <2>4. x \in E!Holds(x2)
    BY <2>1, <2>3, EditorFieldFacts, EditorTypeFacts DEF E!Inv, E!FieldsHold
  <2> QED
    BY <2>1, <2>2, <2>3, <2>4
<1>3. E!Filled(x) \in E!Holds(x2) \ {"late"} /\ E!Holds(x2) \subseteq E!Values
  BY EditorFieldFacts, EditorTypeFacts DEF E!Inv
<1>4. /\ x5' \in E!Form /\ x5'.shown = E!Filled(x) /\ x5'.base = x
      /\ x5'.typed = FALSE
  BY <1>2, <1>3 DEF E!Form
<1>5. E!TypeOK'
  <2>1. x8' \in 0..2
    BY <1>1
  <2> QED
    BY <1>1, <1>4, <2>1 DEF E!Inv, E!TypeOK
<1>6. E!CallsAreItsOwn'
  <2>1. \A c \in Calls : ~x6[c].mine
    BY <1>1 DEF E!Inv, E!CallsAreItsOwn
  <2> QED
    BY <1>1, <2>1 DEF E!Inv, E!CallsAreItsOwn
<1>7. E!TakenOnce'
  BY <1>1 DEF E!TakenOnce
<1>8. E!FieldsHold'
  BY <1>1, <1>3, <1>4 DEF E!Inv, E!FieldsHold, E!Filled, E!Sent
<1> QED
  BY <1>1, <1>5, <1>6, <1>7, <1>8
  DEF E!Inv, E!DialogsAreTheirOwn, E!OnlyTypedIsChanged

LEMMA EditorTypeInv == ASSUME E!Inv, NEW v \in E!Values, E!Type(v) PROVE E!Inv'
<1>1. /\ x5 # None /\ v \in E!Holds(x2) \ {"late"}
      /\ x5' = [x5 EXCEPT !.shown = v, !.typed = TRUE]
      /\ UNCHANGED <<x1, x2, x3, x4, x6, x7, x8, x9, x10, x11>>
  BY DEF E!Type
<1>2. x5 \in E!Form
  BY <1>1 DEF E!Inv, E!TypeOK
<1>3. /\ x5' \in E!Form /\ x5'.shown = v /\ x5'.base = x5.base /\ x5'.typed = TRUE
      /\ x5'.busy = x5.busy
  <2>1. PICK a : a = [x5 EXCEPT !.shown = v]
    OBVIOUS
  <2>2. x5' = [a EXCEPT !.typed = TRUE]
    BY <1>1, <2>1
  <2>3. a \in E!Form /\ a.shown = v /\ a.base = x5.base /\ a.busy = x5.busy
    BY <1>2, <2>1 DEF E!Form
  <2> QED
    BY <2>2, <2>3 DEF E!Form
<1>4. E!TypeOK'
  BY <1>1, <1>3 DEF E!Inv, E!TypeOK
<1>5. E!CallsAreItsOwn' /\ E!TakenOnce'
  BY <1>1, <1>3, ConstantsAreSound
  DEF E!NoneIsNoForm, E!Inv, E!CallsAreItsOwn, E!TakenOnce
<1>6. E!FieldsHold'
  BY <1>1, <1>3 DEF E!Inv, E!FieldsHold, E!Filled, E!Sent
<1> QED
  BY <1>1, <1>4, <1>5, <1>6
  DEF E!Inv, E!DialogsAreTheirOwn, E!OnlyTypedIsChanged

LEMMA EditorSubmitInv == ASSUME E!Inv, NEW c \in Calls, E!Submit(c) PROVE E!Inv'
<1>1. /\ x5 # None /\ ~x5.busy /\ x6[c] = E!Idle
      /\ x6' = [x6 EXCEPT ![c] =
            [pc |-> "asked", row |-> x5.row, sent |-> E!Sent(x5.shown),
             base |-> x5.base, typed |-> x5.typed, mine |-> TRUE]]
      /\ x5' = [x5 EXCEPT !.busy = TRUE]
      /\ UNCHANGED <<x1, x2, x3, x4, x7, x8, x9, x10, x11>>
  BY DEF E!Submit, E!MaySubmit
<1>2. PICK n : n = [pc |-> "asked", row |-> x5.row, sent |-> E!Sent(x5.shown),
                    base |-> x5.base, typed |-> x5.typed, mine |-> TRUE]
  OBVIOUS
<1>3. /\ x5 \in E!Form /\ x5.shown \in E!Holds(x2) \ {"late"} /\ x5.base \in E!Holds(x2)
      /\ ~x5.typed => x5.shown = E!Filled(x5.base)
  BY <1>1 DEF E!Inv, E!TypeOK, E!FieldsHold
<1>4. x2 \in E!Kinds /\ E!Holds(x2) \subseteq E!Values
  BY EditorTypeFacts DEF E!Inv
<1>5. E!Sent(x5.shown) \in E!Holds(x2) \cup {E!Omitted}
  BY <1>3, <1>4, EditorSentFacts
<1>6. /\ n \in E!Call /\ n.pc = "asked" /\ n.mine = TRUE /\ n.base = x5.base
      /\ n.typed = x5.typed /\ n.sent = E!Sent(x5.shown)
  BY <1>2, <1>3, <1>4, <1>5 DEF E!Call, E!Form
<1>7. x6' \in [Calls -> E!Call] /\ \A k \in Calls : x6'[k] = IF k = c THEN n ELSE x6[k]
  BY <1>1, <1>2, <1>6 DEF E!Inv, E!TypeOK
<1>8. /\ x5' \in E!Form /\ x5'.busy = TRUE /\ x5'.shown = x5.shown
      /\ x5'.base = x5.base /\ x5'.typed = x5.typed
  BY <1>1, <1>3 DEF E!Form
<1>9. E!TypeOK'
  BY <1>1, <1>7, <1>8 DEF E!Inv, E!TypeOK
<1>10. E!CallsAreItsOwn'
  <2>1. \A k \in Calls : ~x6[k].mine
    BY <1>1 DEF E!Inv, E!CallsAreItsOwn
  <2> QED
    BY <1>1, <1>6, <1>7, <1>8, <2>1, ConstantsAreSound
    DEF E!NoneIsNoForm, E!Inv, E!CallsAreItsOwn
<1>11. E!TakenOnce'
  <2>1. \A k \in Calls : ~x6[k].mine
    BY <1>1 DEF E!Inv, E!CallsAreItsOwn
  <2> QED
    BY <1>1, <2>1 DEF E!Inv, E!TakenOnce
<1>12. E!FieldsHold'
  BY <1>1, <1>3, <1>5, <1>6, <1>7, <1>8
  DEF E!Inv, E!FieldsHold, E!Filled, E!Sent
<1> QED
  BY <1>1, <1>9, <1>10, <1>11, <1>12
  DEF E!Inv, E!DialogsAreTheirOwn, E!OnlyTypedIsChanged

\* What the answers keep of FieldsHold: no call is asked that was not.
LEMMA EditorFieldsStay ==
  ASSUME E!FieldsHold, UNCHANGED <<x2, x3, x4>>,
         x5' # None => /\ x5 # None /\ x5'.shown = x5.shown
                       /\ x5'.base = x5.base /\ x5'.typed = x5.typed,
         \A k \in Calls : x6'[k].pc = "asked" =>
            /\ x6[k].pc = "asked" /\ x6'[k].sent = x6[k].sent
            /\ x6'[k].base = x6[k].base /\ x6'[k].typed = x6[k].typed
  PROVE  E!FieldsHold'
BY DEF E!FieldsHold, E!Filled, E!Sent

\* The API takes a call, and creates or changes the row.
LEMMA EditorTakenInv == ASSUME E!Inv, NEW c \in Calls, E!Taken(c) PROVE E!Inv'
<1>1. PICK r \in Own, pc \in {"done", "failed"}, old \in E!Holds(x2), new \in E!Holds(x2) :
         /\ new = E!Changed(old, x6[c].sent)
         /\ x3' = [x3 EXCEPT ![r] = new]
         /\ x7' = (x7 \/ (/\ ~x6[c].typed /\ new # old
                         /\ old = x6[c].base))
         /\ x6' = [x6 EXCEPT ![c] = [E!Idle EXCEPT !.pc = pc, !.mine = x6[c].mine]]
         /\ x9' = (x9 \/ (x6[c].mine /\ pc = "failed"))
  <2>1. PICK r \in Own, pc \in {"done", "failed"} :
           LET old == IF x1.creates THEN E!Blank(x2) ELSE x3[r]
               new == E!Changed(old, x6[c].sent)
           IN
           /\ IF x1.creates THEN x3[r] = None
              ELSE r = x6[c].row /\ x3[r] # None
           /\ x3' = [x3 EXCEPT ![r] = new]
           /\ x7' = (x7 \/ (/\ ~x6[c].typed /\ new # old
                           /\ old = x6[c].base))
           /\ x6' = [x6 EXCEPT ![c] = [E!Idle EXCEPT !.pc = pc, !.mine = x6[c].mine]]
           /\ x9' = (x9 \/ (x6[c].mine /\ pc = "failed"))
    BY DEF E!Taken
  <2>2. PICK old : old = IF x1.creates THEN E!Blank(x2) ELSE x3[r]
    OBVIOUS
  <2>3. old \in E!Holds(x2)
    BY <2>1, <2>2, EditorFieldFacts, EditorTypeFacts DEF E!Inv, E!FieldsHold
  <2>4. x6[c].sent \in E!Holds(x2) \cup {E!Omitted}
    BY DEF E!Taken, E!Inv, E!FieldsHold
  <2>5. E!Changed(old, x6[c].sent) \in E!Holds(x2)
    BY <2>3, <2>4 DEF E!Changed
  <2> QED
    BY <2>1, <2>2, <2>3, <2>5
<1>2. /\ x6[c].pc = "asked"
      /\ x8' = IF x6[c].mine /\ x1.creates /\ x8 < 2 THEN x8 + 1 ELSE x8
      /\ UNCHANGED <<x1, x2, x4, x5, x10, x11>>
  BY DEF E!Taken
<1>3. PICK n : n = [E!Idle EXCEPT !.pc = pc, !.mine = x6[c].mine]
  OBVIOUS
<1>4. x6[c] \in E!Call /\ x6[c].mine \in BOOLEAN
  BY DEF E!Inv, E!TypeOK, E!Call
<1>5. n \in E!Call /\ n.pc = pc /\ n.mine = x6[c].mine
  <2>1. PICK a : a = [E!Idle EXCEPT !.pc = pc]
    OBVIOUS
  <2>2. a \in E!Call /\ a.pc = pc
    BY <2>1, EditorAtRest DEF E!Call
  <2>3. n = [a EXCEPT !.mine = x6[c].mine]
    BY <1>3, <2>1
  <2> QED
    BY <1>4, <2>2, <2>3 DEF E!Call
<1>6. x6' \in [Calls -> E!Call] /\ \A k \in Calls : x6'[k] = IF k = c THEN n ELSE x6[k]
  BY <1>1, <1>3, <1>5 DEF E!Inv, E!TypeOK
<1>7. /\ x6[c].sent \in E!Holds(x2) \cup {E!Omitted} /\ x6[c].base \in E!Holds(x2)
      /\ ~x6[c].typed => x6[c].sent = E!Sent(E!Filled(x6[c].base))
  BY <1>2 DEF E!Inv, E!FieldsHold
<1>8. x2 \in E!Kinds /\ E!Holds(x2) \subseteq E!Values
  BY EditorTypeFacts DEF E!Inv
<1>9. new \in E!Values
  BY <1>1, <1>8
<1>10. x3' \in [Own -> E!Values \cup {None}]
  BY <1>1, <1>9 DEF E!Inv, E!TypeOK
<1>11. x7' \in BOOLEAN /\ x9' \in BOOLEAN
  BY <1>1 DEF E!Inv, E!TypeOK
<1>12. x8' \in 0..2
  <2>1. x8 \in 0..2
    BY DEF E!Inv, E!TypeOK
  <2> QED
    BY <1>2, <2>1
<1>13. E!TypeOK'
  BY <1>2, <1>6, <1>10, <1>11, <1>12 DEF E!Inv, E!TypeOK
<1>14. E!CallsAreItsOwn'
  BY <1>2, <1>5, <1>6 DEF E!Inv, E!CallsAreItsOwn
<1>15. E!TakenOnce' /\ (x8' > 1 => x9')
  <2>1. x8 \in 0..2
    BY DEF E!Inv, E!TypeOK
  <2>2. CASE ~(x6[c].mine /\ x1.creates)
    <3>1. x8' = x8
      BY <1>2, <2>2
    <3>2. x8 > 0 => ~x6[c].mine
      BY <2>2 DEF E!Inv, E!TakenOnce
    <3>3. x9 => x9'
      BY <1>1
    <3>4. x8 > 0 /\ ~x9' =>
             \E k \in Calls : x6'[k].mine /\ x6'[k].pc = "done"
      BY <1>2, <1>6, <3>2, <3>3 DEF E!Inv, E!TakenOnce
    <3> QED
      BY <1>2, <3>1, <3>3, <3>4 DEF E!Inv, E!TakenOnce, E!DialogsAreTheirOwn
  <2>3. CASE x6[c].mine /\ x1.creates
    <3>1. x8 > 0 => x9
      BY <1>2, <2>3 DEF E!Inv, E!TakenOnce, E!CallsAreItsOwn
    <3>2. x9 => x9'
      BY <1>1
    <3>3. ~x9' => pc = "done"
      BY <1>1, <2>3
    <3>4. x8' > 1 => x8 > 0
      BY <1>2, <2>1
    <3>5. ~x9' => x6'[c].mine /\ x6'[c].pc = "done"
      BY <1>5, <1>6, <2>3, <3>3
    <3> QED
      BY <1>2, <2>3, <3>1, <3>2, <3>4, <3>5 DEF E!TakenOnce
  <2> QED
    BY <2>2, <2>3
<1>16. E!FieldsHold'
  <2>1. \A s \in Own : x3'[s] \in E!Holds(x2) \cup {None}
    BY <1>1 DEF E!Inv, E!TypeOK, E!FieldsHold
  <2> QED
    BY <1>2, <1>5, <1>6, <2>1 DEF E!Inv, E!FieldsHold, E!Filled, E!Sent
<1>17. E!OnlyTypedIsChanged'
  <2>1. ASSUME x2 # "day", ~x6[c].typed, old = x6[c].base PROVE new = old
    <3>1. E!Filled(old) = old /\ old # "late"
      BY <1>8, <2>1, EditorFieldFacts
    <3>2. E!Changed(old, E!Sent(old)) = old
      BY <1>8, <2>1, <3>1, EditorSentFacts
    <3> QED
      BY <1>1, <1>7, <2>1, <3>1, <3>2
  <2> QED
    BY <1>1, <1>2, <2>1 DEF E!Inv, E!OnlyTypedIsChanged
<1> QED
  BY <1>2, <1>13, <1>14, <1>15, <1>16, <1>17 DEF E!Inv, E!DialogsAreTheirOwn

LEMMA EditorRefusedInv == ASSUME E!Inv, NEW c \in Calls, E!Refused(c) PROVE E!Inv'
<1>1. /\ x6[c].pc = "asked"
      /\ x6' = [x6 EXCEPT ![c] = [E!Idle EXCEPT !.pc = "failed", !.mine = x6[c].mine]]
      /\ UNCHANGED <<x1, x2, x3, x4, x5, x7, x8, x9, x10, x11>>
  BY DEF E!Refused
<1>2. PICK n : n = [E!Idle EXCEPT !.pc = "failed", !.mine = x6[c].mine]
  OBVIOUS
<1>3. n \in E!Call /\ n.pc = "failed" /\ n.mine = x6[c].mine
  <2>1. PICK a : a = [E!Idle EXCEPT !.pc = "failed"]
    OBVIOUS
  <2>2. a \in E!Call /\ a.pc = "failed"
    BY <2>1, EditorAtRest DEF E!Call
  <2>3. n = [a EXCEPT !.mine = x6[c].mine]
    BY <1>2, <2>1
  <2>4. x6[c].mine \in BOOLEAN
    BY DEF E!Inv, E!TypeOK, E!Call
  <2> QED
    BY <2>2, <2>3, <2>4 DEF E!Call
<1>4. x6' \in [Calls -> E!Call] /\ \A k \in Calls : x6'[k] = IF k = c THEN n ELSE x6[k]
  BY <1>1, <1>2, <1>3 DEF E!Inv, E!TypeOK
<1>5. E!TypeOK'
  BY <1>1, <1>4 DEF E!Inv, E!TypeOK
<1>6. E!CallsAreItsOwn'
  BY <1>1, <1>3, <1>4 DEF E!Inv, E!CallsAreItsOwn
<1>7. E!TakenOnce'
  <2>1. \A k \in Calls : x6[k].pc = "done" => x6'[k] = x6[k]
    BY <1>1, <1>4
  <2> QED
    BY <1>1, <2>1 DEF E!Inv, E!TakenOnce
<1>8. E!FieldsHold'
  BY <1>1, <1>3, <1>4, EditorFieldsStay DEF E!Inv
<1> QED
  BY <1>1, <1>5, <1>6, <1>7, <1>8
  DEF E!Inv, E!DialogsAreTheirOwn, E!OnlyTypedIsChanged

\* The dialog that is left has no call of its own.
LEMMA EditorLeftInv ==
  ASSUME E!Inv, x5' = None, x8' = 0, x9' = FALSE,
         UNCHANGED <<x1, x2, x3, x4, x7>>,
         ~x1.stays, x11' \in BOOLEAN, x10' \in BOOLEAN, x10 => x10',
         x11' => x10',
         x6' \in [Calls -> E!Call], \A k \in Calls : ~x6'[k].mine,
         \A k \in Calls : x6'[k].pc # "idle" =>
            /\ x10' /\ x6'[k].pc = x6[k].pc /\ x6'[k].sent = x6[k].sent
            /\ x6'[k].base = x6[k].base /\ x6'[k].typed = x6[k].typed
  PROVE  E!Inv'
<1>1. E!TypeOK'
  <2>1. x8' \in 0..2
    OBVIOUS
  <2> QED
    BY <2>1 DEF E!Inv, E!TypeOK
<1>2. E!CallsAreItsOwn'
  BY DEF E!CallsAreItsOwn
<1>3. E!TakenOnce'
  BY DEF E!TakenOnce
<1>4. E!FieldsHold'
  BY EditorFieldsStay DEF E!Inv
<1> QED
  BY <1>1, <1>2, <1>3, <1>4
  DEF E!Inv, E!DialogsAreTheirOwn, E!OnlyTypedIsChanged

\* No longer its own, a call is what it was.
LEMMA EditorNotItsOwn ==
  ASSUME NEW r \in E!Call, NEW n, n = [r EXCEPT !.mine = FALSE]
  PROVE  /\ n \in E!Call /\ n.mine = FALSE /\ n.pc = r.pc /\ n.sent = r.sent
         /\ n.base = r.base /\ n.typed = r.typed
BY DEF E!Call

LEMMA EditorSucceededInv == ASSUME E!Inv, NEW c \in Calls, E!Succeeded(c) PROVE E!Inv'
<1>1. /\ x6[c].pc = "done"
      /\ UNCHANGED <<x1, x2, x3, x4, x7, x10>>
  BY DEF E!Succeeded
<1>2. CASE x1.stays
  <2>1. /\ x5' = [x5 EXCEPT !.busy = FALSE]
        /\ x6' = [x6 EXCEPT ![c] = E!Idle]
        /\ UNCHANGED <<x11, x8, x9>>
    BY <1>2 DEF E!Succeeded
  <2>2. x6[c].mine /\ x5 \in E!Form /\ ~x1.creates
    BY <1>1, <1>2, EditorTypeFacts DEF E!Inv, E!CallsAreItsOwn, E!TypeOK
  <2>3. /\ x5' \in E!Form /\ x5'.shown = x5.shown /\ x5'.base = x5.base
        /\ x5'.typed = x5.typed
    BY <2>1, <2>2 DEF E!Form
  <2>4. x6' \in [Calls -> E!Call] /\ \A k \in Calls : x6'[k] = IF k = c THEN E!Idle ELSE x6[k]
    BY <2>1, EditorAtRest DEF E!Inv, E!TypeOK
  <2>5. E!TypeOK'
    BY <1>1, <2>1, <2>3, <2>4 DEF E!Inv, E!TypeOK
  <2>6. E!CallsAreItsOwn'
    BY <1>1, <2>2, <2>4, EditorAtRest DEF E!Inv, E!CallsAreItsOwn
  <2>7. E!TakenOnce'
    BY <1>1, <2>1, <2>2 DEF E!Inv, E!TakenOnce
  <2>8. E!FieldsHold'
    BY <1>1, <2>2, <2>3, <2>4, EditorAtRest, EditorFieldsStay,
       ConstantsAreSound
    DEF E!Inv, E!NoneIsNoForm
  <2> QED
    BY <1>1, <2>1, <2>5, <2>6, <2>7, <2>8
    DEF E!Inv, E!DialogsAreTheirOwn, E!OnlyTypedIsChanged
<1>3. CASE ~x1.stays
  <2>1. /\ x5' = None /\ x8' = 0 /\ x9' = FALSE
        /\ x6' = [k \in Calls |-> IF k = c THEN E!Idle ELSE [x6[k] EXCEPT !.mine = FALSE]]
        /\ x11' = (x11 \/ (x5 # None /\ ~x6[c].mine))
    BY <1>3 DEF E!Succeeded
  <2>2. ASSUME NEW k \in Calls
        PROVE  /\ x6'[k] \in E!Call /\ ~x6'[k].mine
               /\ x6'[k].pc # "idle" =>
                    /\ k # c /\ x6'[k].pc = x6[k].pc /\ x6'[k].sent = x6[k].sent
                    /\ x6'[k].base = x6[k].base /\ x6'[k].typed = x6[k].typed
    <3>1. CASE k = c
      BY <2>1, <3>1, EditorAtRest
    <3>2. CASE k # c
      <4>1. x6'[k] = [x6[k] EXCEPT !.mine = FALSE]
        BY <2>1, <3>2
      <4>2. x6[k] \in E!Call
        BY DEF E!Inv, E!TypeOK
      <4> QED
        BY <3>2, <4>1, <4>2, EditorNotItsOwn
    <3> QED
      BY <3>1, <3>2
  <2>3. x6' \in [Calls -> E!Call]
    BY <2>1, <2>2
  <2>4. ~x10 => x6[c].mine /\ \A k \in Calls : x6[k].pc # "idle" => k = c
    BY <1>1 DEF E!Inv, E!CallsAreItsOwn
  <2>5. \A k \in Calls : x6'[k].pc # "idle" => x10'
    BY <1>1, <2>2, <2>4
  <2>6. x11' \in BOOLEAN /\ (x11' => x10')
    BY <1>1, <2>1, <2>4 DEF E!Inv, E!DialogsAreTheirOwn
  <2>7. x10' \in BOOLEAN
    BY <1>1 DEF E!Inv, E!TypeOK
  <2> QED
    BY <1>1, <1>3, <2>1, <2>2, <2>3, <2>5, <2>6, <2>7, EditorLeftInv
<1> QED
  BY <1>2, <1>3

LEMMA EditorCloseInv == ASSUME E!Inv, E!Close PROVE E!Inv'
<1>1. /\ x5 # None /\ ~x1.stays /\ x5' = None
      /\ x10' = (x10 \/ x5.busy)
      /\ x6' = [c \in Calls |-> [x6[c] EXCEPT !.mine = FALSE]]
      /\ x8' = 0 /\ x9' = FALSE
      /\ UNCHANGED <<x1, x2, x3, x4, x7, x11>>
  BY DEF E!Close
<1>2. ASSUME NEW k \in Calls
      PROVE  /\ x6'[k] \in E!Call /\ ~x6'[k].mine
             /\ x6'[k].pc = x6[k].pc /\ x6'[k].sent = x6[k].sent
             /\ x6'[k].base = x6[k].base /\ x6'[k].typed = x6[k].typed
  <2>1. x6'[k] = [x6[k] EXCEPT !.mine = FALSE]
    BY <1>1
  <2>2. x6[k] \in E!Call
    BY DEF E!Inv, E!TypeOK
  <2> QED
    BY <2>1, <2>2, EditorNotItsOwn
<1>3. x6' \in [Calls -> E!Call]
  BY <1>1, <1>2
<1>4. \A k \in Calls : x6'[k].pc # "idle" => x10'
  BY <1>1, <1>2 DEF E!Inv, E!CallsAreItsOwn
<1>5. x10' \in BOOLEAN /\ (x10 => x10')
  BY <1>1
<1>6. x11' \in BOOLEAN /\ (x11' => x10')
  BY <1>1 DEF E!Inv, E!TypeOK, E!DialogsAreTheirOwn
<1> QED
  BY <1>1, <1>2, <1>3, <1>4, <1>5, <1>6, EditorLeftInv

LEMMA EditorFailedInv == ASSUME E!Inv, NEW c \in Calls, E!Failed(c) PROVE E!Inv'
<1>1. /\ x6[c].pc = "failed" /\ x6' = [x6 EXCEPT ![c] = E!Idle]
      /\ x5' = IF x6[c].mine THEN [x5 EXCEPT !.busy = FALSE] ELSE x5
      /\ UNCHANGED <<x1, x2, x3, x4, x7, x8, x9, x10, x11>>
  BY DEF E!Failed
<1>2. x6' \in [Calls -> E!Call] /\ \A k \in Calls : x6'[k] = IF k = c THEN E!Idle ELSE x6[k]
  BY <1>1, EditorAtRest DEF E!Inv, E!TypeOK
<1>3. /\ x5' \in E!Form \cup {None} /\ (x5' = None <=> x5 = None)
      /\ x5' # None => /\ x5'.shown = x5.shown /\ x5'.base = x5.base
                       /\ x5'.typed = x5.typed
  <2>1. CASE x6[c].mine
    <3>1. x5 \in E!Form
      BY <2>1 DEF E!Inv, E!TypeOK, E!CallsAreItsOwn
    <3> QED
      BY <1>1, <2>1, <3>1, ConstantsAreSound DEF E!Form, E!NoneIsNoForm
  <2>2. CASE ~x6[c].mine
    BY <1>1, <2>2 DEF E!Inv, E!TypeOK
  <2> QED
    BY <2>1, <2>2
<1>4. E!TypeOK'
  BY <1>1, <1>2, <1>3 DEF E!Inv, E!TypeOK
<1>5. E!CallsAreItsOwn'
  <2>1. ASSUME NEW k \in Calls, x6'[k].mine
        PROVE  x6'[k].pc # "idle" /\ x5' # None /\ x5'.busy
    <3>1. k # c /\ x6'[k] = x6[k]
      BY <1>2, <2>1, EditorAtRest
    <3>2. ~x6[c].mine
      BY <2>1, <3>1 DEF E!Inv, E!CallsAreItsOwn
    <3> QED
      BY <1>1, <2>1, <3>1, <3>2 DEF E!Inv, E!CallsAreItsOwn
  <2> QED
    BY <1>1, <1>2, <2>1, EditorAtRest DEF E!Inv, E!CallsAreItsOwn
<1>6. E!TakenOnce'
  <2>1. \A k \in Calls : x6[k].pc = "done" => x6'[k] = x6[k]
    BY <1>1, <1>2
  <2> QED
    BY <1>1, <2>1 DEF E!Inv, E!TakenOnce
<1>7. E!FieldsHold'
  <2>1. \A k \in Calls : x6'[k].pc = "asked" => x6'[k] = x6[k]
    BY <1>2, EditorAtRest
  <2> QED
    BY <1>1, <1>3, <2>1, EditorFieldsStay DEF E!Inv
<1> QED
  BY <1>1, <1>4, <1>5, <1>6, <1>7
  DEF E!Inv, E!DialogsAreTheirOwn, E!OnlyTypedIsChanged

\* The rows change, or the page hears of them.
LEMMA EditorRowsInv ==
  ASSUME E!Inv,
         x3' \in [Own -> E!Holds(x2) \cup {None}],
         x4' \in [Own -> E!Holds(x2) \cup {None}],
         UNCHANGED <<x1, x2, x5, x6, x7, x8, x9, x10, x11>>
  PROVE  E!Inv'
<1>1. E!Holds(x2) \subseteq E!Values
  BY EditorTypeFacts DEF E!Inv
<1>2. /\ x3' \in [Own -> E!Values \cup {None}]
      /\ x4' \in [Own -> E!Values \cup {None}]
  BY <1>1
<1>3. E!TypeOK'
  BY <1>2 DEF E!Inv, E!TypeOK
<1>4. E!CallsAreItsOwn' /\ E!TakenOnce'
  BY DEF E!Inv, E!CallsAreItsOwn, E!TakenOnce
<1>5. E!FieldsHold'
  BY DEF E!Inv, E!FieldsHold, E!Filled, E!Sent
<1> QED
  BY <1>3, <1>4, <1>5 DEF E!Inv, E!DialogsAreTheirOwn, E!OnlyTypedIsChanged

\* What the rows hold, as functions.
LEMMA EditorRowsHold ==
  ASSUME E!Inv
  PROVE  /\ x3 \in [Own -> E!Holds(x2) \cup {None}]
         /\ x4 \in [Own -> E!Holds(x2) \cup {None}]
BY DEF E!Inv, E!TypeOK, E!FieldsHold

LEMMA EditorOtherWritesInv ==
  ASSUME E!Inv, NEW r \in Own, E!OtherWrites(r) PROVE E!Inv'
<1>1. UNCHANGED <<x1, x2, x4, x5, x6, x7, x8, x9, x10, x11>>
  BY DEF E!OtherWrites
<1>2. PICK x \in E!Holds(x2) \cup {None} : x3' = [x3 EXCEPT ![r] = x]
  BY DEF E!OtherWrites
<1>3. x3' \in [Own -> E!Holds(x2) \cup {None}]
  BY <1>2, EditorRowsHold
<1> QED
  BY <1>1, <1>3, EditorRowsHold, EditorRowsInv

LEMMA EditorRereadInv == ASSUME E!Inv, E!Reread PROVE E!Inv'
<1>1. x4' = x3
      /\ UNCHANGED <<x1, x2, x3, x5, x6, x7, x8, x9, x10, x11>>
  BY DEF E!Reread
<1> QED
  BY <1>1, EditorRowsHold, EditorRowsInv

LEMMA EditorNextInv == ASSUME E!Inv, E!Next PROVE E!Inv'
<1>1. ASSUME NEW c \in Calls,
             E!Submit(c) \/ E!Taken(c) \/ E!Refused(c) \/ E!Succeeded(c) \/ E!Failed(c)
      PROVE  E!Inv'
  BY <1>1, EditorSubmitInv, EditorTakenInv, EditorRefusedInv,
     EditorSucceededInv, EditorFailedInv
<1> QED
  BY <1>1, EditorOpenInv, EditorCloseInv, EditorRereadInv, EditorTypeInv,
     EditorOtherWritesInv
  DEF E!Next

LEMMA EditorStutterInv == ASSUME E!Inv, UNCHANGED E!vars PROVE E!Inv'
<1>1. UNCHANGED <<x1, x2, x3, x4, x5, x6, x7, x8, x9, x10,
                  x11>>
  BY DEF E!vars
<1> QED
  BY <1>1, EditorRowsHold, EditorRowsInv

LEMMA EditorInvImplies ==
  ASSUME E!Inv PROVE E!TypeOK /\ E!DialogsAreTheirOwn /\ E!OnlyTypedIsChanged
BY DEF E!Inv

-----------------------------------------------------------------------------
(* The settings.                                                           *)

LEMMA SettingsAtRest ==
  S!Idle \in S!Call /\ S!Idle.pc = "idle" /\ S!Idle.confirm = FALSE
BY DEF S!Idle, S!Call, S!NoProfile, S!Profile

\* A copy of the profile with one part changed.
LEMMA SettingsTotpSet ==
  ASSUME NEW p \in S!Profile, NEW b \in BOOLEAN, NEW n, n = [p EXCEPT !.totp = b]
  PROVE  n \in S!Profile /\ n.totp = b /\ n.sms = p.sms /\ n.photo = p.photo
BY DEF S!Profile

LEMMA SettingsSmsSet ==
  ASSUME NEW p \in S!Profile, NEW b \in BOOLEAN, NEW n, n = [p EXCEPT !.sms = b]
  PROVE  n \in S!Profile /\ n.sms = b /\ n.totp = p.totp /\ n.photo = p.photo
BY DEF S!Profile

LEMMA SettingsPhotoSet ==
  ASSUME NEW p \in S!Profile, NEW x \in Drafts \cup {None}, NEW n, n = [p EXCEPT !.photo = x]
  PROVE  n \in S!Profile /\ n.photo = x /\ n.totp = p.totp /\ n.sms = p.sms
BY DEF S!Profile

LEMMA SettingsInitInv == ASSUME S!Init PROVE S!Inv
<1>1. /\ x1 \in S!Profile /\ x2 = x1 /\ x5 = x1.totp
      /\ x3 = [f \in S!Factors |-> "idle"] /\ x4 = [k \in S!Kinds |-> S!Idle] /\ x6 = FALSE
  BY DEF S!Init
<1>2. x1.totp \in BOOLEAN
  BY <1>1 DEF S!Profile
<1>3. S!TypeOK
  BY <1>1, <1>2, SettingsAtRest DEF S!TypeOK, S!Steps
<1>4. \A k \in S!Kinds : x4[k].pc = "idle"
  BY <1>1, SettingsAtRest
<1>5. x3["sms"] = "idle" /\ x3["totp"] = "idle"
  BY <1>1 DEF S!Factors
<1>6. \A f \in S!Factors : x1[f] = x2[f] 
  BY <1>1
<1> QED
  BY <1>1, <1>2, <1>3, <1>4, <1>5, <1>6
  DEF S!Inv, S!OneAtATime, S!FactorIsKnown, S!Served, S!Confirmed, S!Kinds,
      S!Factors

LEMMA SettingsAskTypes ==
  ASSUME S!TypeOK, NEW k \in S!Kinds, NEW confirm \in BOOLEAN, S!Ask(k, confirm), UNCHANGED x3
  PROVE  S!TypeOK'
<1>1. PICK n : n = [S!Idle EXCEPT !.pc = "asked", !.confirm = confirm, !.seen = x2]
  OBVIOUS
<1>2. n \in S!Call
  <2>1. PICK a : a = [S!Idle EXCEPT !.pc = "asked"]
    OBVIOUS
  <2>2. PICK b : b = [a EXCEPT !.confirm = confirm]
    OBVIOUS
  <2>3. n = [b EXCEPT !.seen = x2]
    BY <1>1, <2>1, <2>2
  <2>4. a \in S!Call
    BY <2>1, SettingsAtRest DEF S!Call
  <2>5. b \in S!Call
    BY <2>2, <2>4 DEF S!Call
  <2> QED
    BY <2>3, <2>5 DEF S!Call, S!TypeOK
<1> QED
  BY <1>1, <1>2 DEF S!Ask, S!TypeOK

\* A call is made, and nothing else changes.
LEMMA SettingsAskInv ==
  ASSUME S!Inv, NEW k \in S!Kinds, NEW confirm \in BOOLEAN, S!Ask(k, confirm), UNCHANGED x3,
         k = "setUp" => x3["totp"] # "codes" /\ ~x2["totp"],
         k = "smsSetUp" => ~x2["sms"],
         k = "turnOff" => x2["totp"] /\ x3["totp"] = "idle",
         k = "smsTurnOff" => x2["sms"] /\ x3["sms"] = "idle"
  PROVE  S!Inv'
<1>1. PICK n : n = [S!Idle EXCEPT !.pc = "asked", !.confirm = confirm, !.seen = x2]
  OBVIOUS
<1>2. n \in S!Call /\ n.pc = "asked"
  <2>1. PICK a : a = [S!Idle EXCEPT !.pc = "asked"]
    OBVIOUS
  <2>2. PICK b : b = [a EXCEPT !.confirm = confirm]
    OBVIOUS
  <2>3. n = [b EXCEPT !.seen = x2]
    BY <1>1, <2>1, <2>2
  <2>4. a \in S!Call /\ a.pc = "asked"
    BY <2>1, SettingsAtRest DEF S!Call
  <2>5. b \in S!Call /\ b.pc = "asked"
    BY <2>2, <2>4 DEF S!Call
  <2> QED
    BY <2>3, <2>5 DEF S!Call, S!Inv, S!TypeOK
<1>3. /\ x4[k] = S!Idle /\ x4' = [x4 EXCEPT ![k] = n]
      /\ UNCHANGED <<x1, x2, x5, x6, x3>>
  BY <1>1 DEF S!Ask
<1>4. S!TypeOK'
  BY <1>2, <1>3 DEF S!Inv, S!TypeOK
<1>5. \A j \in S!Kinds : x4'[j] = IF j = k THEN n ELSE x4[j]
  BY <1>3 DEF S!Inv, S!TypeOK
<1>6. \A j \in S!Kinds : S!Served(j)' = S!Served(j) /\ S!Confirmed(j)' = S!Confirmed(j)
  BY <1>2, <1>3, <1>5, SettingsAtRest DEF S!Served, S!Confirmed
<1>7. x4[k].pc = "idle"
  BY <1>3, SettingsAtRest
<1> SUFFICES ASSUME ~x6
             PROVE  /\ S!OneAtATime("totp", "setUp", "turnOff")'
                    /\ S!OneAtATime("sms", "smsSetUp", "smsTurnOff")'
  BY <1>3, <1>4, <1>6 DEF S!Inv, S!FactorIsKnown, S!Kinds
<1>8. S!OneAtATime("totp", "setUp", "turnOff")'
  BY <1>2, <1>3, <1>5, <1>7 DEF S!Inv, S!OneAtATime, S!Kinds
<1>9. S!OneAtATime("sms", "smsSetUp", "smsTurnOff")'
  BY <1>2, <1>3, <1>5, <1>7 DEF S!Inv, S!OneAtATime, S!Kinds
<1> QED
  BY <1>8, <1>9

LEMMA SettingsUserInv ==
  ASSUME S!Inv, S!Save \/ S!ChoosePhoto \/ \E k \in S!Kinds : S!SetUp(k) \/ S!TurnOff(k)
  PROVE  S!Inv'
<1>1. CASE S!Save
  BY <1>1, SettingsAskInv DEF S!Save, S!Kinds
<1>2. CASE S!ChoosePhoto
  BY <1>2, SettingsAskInv DEF S!ChoosePhoto, S!Kinds
<1>3. ASSUME NEW k \in S!Kinds, S!SetUp(k) PROVE S!Inv'
  <2>1. k \in {"setUp", "smsSetUp"} /\ UNCHANGED x3
    BY <1>3 DEF S!SetUp
  <2>2. PICK b \in BOOLEAN : S!Ask(k, b)
    BY <1>3 DEF S!SetUp
  <2>3. \/ x3[S!FactorOf(k)] = "idle" /\ ~x2[S!FactorOf(k)]
        \/ x3[S!FactorOf(k)] = "confirm"
    BY <1>3 DEF S!SetUp
  <2>4. CASE x6
    <3>1. UNCHANGED x6
      BY <2>2 DEF S!Ask
    <3>2. S!TypeOK' /\ x3' = x3
      BY <2>1, <2>2, SettingsAskTypes DEF S!Inv
    <3> QED
      BY <2>4, <3>1, <3>2 DEF S!Inv
  <2>5. CASE ~x6
    <3>1. CASE k = "setUp"
      <4>1. x3["totp"] # "codes" /\ ~x2["totp"]
        BY <2>3, <2>5, <3>1 DEF S!FactorOf, S!Inv, S!OneAtATime
      <4> QED
        BY <2>1, <2>2, <3>1, <4>1, SettingsAskInv
    <3>2. CASE k = "smsSetUp"
      <4>1. ~x2["sms"]
        BY <2>3, <2>5, <3>2 DEF S!FactorOf, S!Inv, S!OneAtATime
      <4> QED
        BY <2>1, <2>2, <3>2, <4>1, SettingsAskInv
    <3> QED
      BY <2>1, <3>1, <3>2
  <2> QED
    BY <2>4, <2>5
<1>4. ASSUME NEW k \in S!Kinds, S!TurnOff(k) PROVE S!Inv'
  <2>1. k \in {"turnOff", "smsTurnOff"} /\ UNCHANGED x3 /\ S!Ask(k, FALSE)
    BY <1>4 DEF S!TurnOff
  <2>2. x2[S!FactorOf(k)] /\ x3[S!FactorOf(k)] = "idle"
    BY <1>4 DEF S!TurnOff
  <2>3. k = "turnOff" => x2["totp"] /\ x3["totp"] = "idle"
    BY <2>2 DEF S!FactorOf
  <2>4. k = "smsTurnOff" => x2["sms"] /\ x3["sms"] = "idle"
    BY <2>2 DEF S!FactorOf
  <2> QED
    BY <2>1, <2>3, <2>4, SettingsAskInv
<1> QED
  BY <1>1, <1>2, <1>3, <1>4

LEMMA SettingsCancelSetUpInv == ASSUME S!Inv, NEW f \in S!Factors, S!CancelSetUp(f) PROVE S!Inv'
<1>1. /\ x3[f] = "confirm" /\ x3' = [x3 EXCEPT ![f] = "idle"]
      /\ UNCHANGED <<x1, x2, x4, x5, x6>>
  BY DEF S!CancelSetUp
<1>2. S!TypeOK'
  BY <1>1 DEF S!Inv, S!TypeOK, S!Steps
<1>3. /\ \A g \in S!Factors : x3'[g] = IF g = f THEN "idle" ELSE x3[g]
      /\ "totp" \in S!Factors /\ "sms" \in S!Factors
  BY <1>1 DEF S!Inv, S!TypeOK, S!Factors
<1>4. /\ x3'["totp"] = "codes" <=> x3["totp"] = "codes"
      /\ x3'["sms"] = "codes" <=> x3["sms"] = "codes"
      /\ x3["totp"] = "idle" => x3'["totp"] = "idle"
      /\ x3["sms"] = "idle" => x3'["sms"] = "idle"
  BY <1>1, <1>3
<1> QED
  BY <1>1, <1>2, <1>4
  DEF S!Inv, S!OneAtATime, S!FactorIsKnown, S!Served, S!Confirmed

LEMMA SettingsFinishSetUpInv == ASSUME S!Inv, S!FinishSetUp PROVE S!Inv'
<1>1. /\ x3["totp"] = "codes" /\ x3' = [x3 EXCEPT !["totp"] = "idle"]
      /\ x2' = [x2 EXCEPT !.totp = TRUE]
      /\ UNCHANGED <<x1, x4, x5, x6>>
  BY DEF S!FinishSetUp
<1>2. /\ x3' \in [S!Factors -> S!Steps] /\ x3'["totp"] = "idle" /\ x3'["sms"] = x3["sms"]
  BY <1>1 DEF S!Inv, S!TypeOK, S!Factors, S!Steps
<1>3. /\ x2' \in S!Profile /\ x2'.totp = TRUE
      /\ x2'.sms = x2.sms /\ x2'.photo = x2.photo
  BY <1>1, SettingsTotpSet DEF S!Inv, S!TypeOK
<1>4. S!TypeOK'
  BY <1>1, <1>2, <1>3 DEF S!Inv, S!TypeOK
<1> SUFFICES ASSUME ~x6 PROVE S!Inv'
  BY <1>1, <1>2, <1>4 DEF S!Inv
<1>5. x4["turnOff"].pc = "idle" /\ x4["setUp"].pc = "idle" /\ x1.totp = TRUE
  BY <1>1 DEF S!Inv, S!OneAtATime, S!FactorIsKnown
<1>6. S!OneAtATime("totp", "setUp", "turnOff")' /\ S!FactorIsKnown("totp", "setUp", "turnOff")'
  BY <1>1, <1>2, <1>3, <1>5
  DEF S!OneAtATime, S!FactorIsKnown, S!Served, S!Confirmed
<1>7. S!OneAtATime("sms", "smsSetUp", "smsTurnOff")' /\ S!FactorIsKnown("sms", "smsSetUp", "smsTurnOff")'
  BY <1>1, <1>2, <1>3
  DEF S!Inv, S!OneAtATime, S!FactorIsKnown, S!Served, S!Confirmed
<1> QED
  BY <1>1, <1>2, <1>3, <1>4, <1>6, <1>7 DEF S!Inv, S!Served, S!Confirmed

\* What serving call k makes of the account.
LEMMA SettingsMadeFacts ==
  ASSUME S!TypeOK, NEW k \in S!Kinds, x1' \in S!Made(k)
  PROVE  /\ x1' \in S!Profile
         /\ x1'.totp = IF k = "turnOff" THEN FALSE
                            ELSE IF k = "setUp" /\ x4[k].confirm THEN TRUE ELSE x1.totp
         /\ x1'.sms = IF k = "smsTurnOff" THEN FALSE
                           ELSE IF k = "smsSetUp" /\ x4[k].confirm THEN TRUE ELSE x1.sms
         /\ k # "photo" => x1'.photo = x1.photo
<1>1. x1 \in S!Profile /\ x1.totp \in BOOLEAN /\ x1.sms \in BOOLEAN
      /\ x4[k].confirm \in BOOLEAN
  BY DEF S!TypeOK, S!Profile, S!Call
<1>2. CASE k = "save"
  BY <1>1, <1>2 DEF S!Made
<1>3. CASE k = "photo"
  <2>1. PICK p \in Drafts : x1' = [x1 EXCEPT !.photo = p]
    BY <1>3 DEF S!Made
  <2> QED
    BY <1>1, <1>3, <2>1, SettingsPhotoSet
<1>4. CASE k = "turnOff"
  <2>1. x1' = [x1 EXCEPT !["totp"] = FALSE]
    BY <1>4 DEF S!Made, S!FactorOf
  <2>2. x1' = [x1 EXCEPT !.totp = FALSE]
    BY <2>1
  <2>3. /\ x1' \in S!Profile /\ x1'.totp = FALSE
        /\ x1'.sms = x1.sms /\ x1'.photo = x1.photo
    BY <1>1, <2>2, SettingsTotpSet
  <2> QED
    BY <1>4, <2>3
<1>5. CASE k = "smsTurnOff"
  <2>1. x1' = [x1 EXCEPT !["sms"] = FALSE]
    BY <1>5 DEF S!Made, S!FactorOf
  <2>2. x1' = [x1 EXCEPT !.sms = FALSE]
    BY <2>1
  <2>3. /\ x1' \in S!Profile /\ x1'.sms = FALSE
        /\ x1'.totp = x1.totp /\ x1'.photo = x1.photo
    BY <1>1, <2>2, SettingsSmsSet
  <2> QED
    BY <1>5, <2>3
<1>6. CASE k = "setUp"
  <2>1. x1' = [x1 EXCEPT !["totp"] = @ \/ x4[k].confirm]
    BY <1>6 DEF S!Made, S!FactorOf
  <2>2. PICK b : b = (x1["totp"] \/ x4[k].confirm)
    OBVIOUS
  <2>3. b \in BOOLEAN /\ b = IF x4[k].confirm THEN TRUE ELSE x1.totp
    BY <1>1, <2>2
  <2>4. x1' = [x1 EXCEPT !["totp"] = b]
    BY <2>1, <2>2
  <2>5. x1' = [x1 EXCEPT !.totp = b]
    BY <2>4
  <2>6. /\ x1' \in S!Profile /\ x1'.totp = b
        /\ x1'.sms = x1.sms /\ x1'.photo = x1.photo
    <3>1. CASE b = TRUE
      BY <1>1, <2>5, <3>1, SettingsTotpSet
    <3>2. CASE b = FALSE
      BY <1>1, <2>5, <3>2, SettingsTotpSet
    <3> QED
      BY <2>3, <3>1, <3>2
  <2> QED
    BY <1>6, <2>3, <2>6
<1>7. CASE k = "smsSetUp"
  <2>1. x1' = [x1 EXCEPT !["sms"] = @ \/ x4[k].confirm]
    BY <1>7 DEF S!Made, S!FactorOf
  <2>2. PICK b : b = (x1["sms"] \/ x4[k].confirm)
    OBVIOUS
  <2>3. b \in BOOLEAN /\ b = IF x4[k].confirm THEN TRUE ELSE x1.sms
    BY <1>1, <2>2
  <2>4. x1' = [x1 EXCEPT !["sms"] = b]
    BY <2>1, <2>2
  <2>5. x1' = [x1 EXCEPT !.sms = b]
    BY <2>4
  <2>6. /\ x1' \in S!Profile /\ x1'.sms = b
        /\ x1'.totp = x1.totp /\ x1'.photo = x1.photo
    <3>1. CASE b = TRUE
      BY <1>1, <2>5, <3>1, SettingsSmsSet
    <3>2. CASE b = FALSE
      BY <1>1, <2>5, <3>2, SettingsSmsSet
    <3> QED
      BY <2>3, <3>1, <3>2
  <2> QED
    BY <1>7, <2>3, <2>6
<1> QED
  BY <1>2, <1>3, <1>4, <1>5, <1>6, <1>7 DEF S!Kinds

LEMMA SettingsServeInv == ASSUME S!Inv, NEW k \in S!Kinds, S!Serve(k) PROVE S!Inv'
<1>1. /\ x4[k].pc = "asked" /\ x1' \in S!Made(k)
      /\ x5' = (x5 /\ ~(k = "setUp" /\ x4[k].confirm))
      /\ UNCHANGED <<x2, x3, x6>>
  BY DEF S!Serve
<1>2. /\ x1' \in S!Profile
      /\ x1'.totp = IF k = "turnOff" THEN FALSE
                         ELSE IF k = "setUp" /\ x4[k].confirm THEN TRUE ELSE x1.totp
      /\ x1'.sms = IF k = "smsTurnOff" THEN FALSE
                        ELSE IF k = "smsSetUp" /\ x4[k].confirm THEN TRUE ELSE x1.sms
      /\ k # "photo" => x1'.photo = x1.photo
  BY <1>1, SettingsMadeFacts DEF S!Inv
<1>3. PICK g : g = IF k \in {"save", "photo"} THEN x1'.photo ELSE None
  OBVIOUS
<1>4. g \in Drafts \cup {None}
  BY <1>2, <1>3 DEF S!Profile
<1>5. x4' = [x4 EXCEPT ![k].pc = "done", ![k].got = g]
  BY <1>3 DEF S!Serve
<1>6. PICK n : n = [x4[k] EXCEPT !.pc = "done", !.got = g]
  OBVIOUS
<1>7. x4[k] \in S!Call
  BY DEF S!Inv, S!TypeOK
<1>8. n \in S!Call /\ n.pc = "done" /\ n.confirm = x4[k].confirm
  <2>1. PICK a : a = [x4[k] EXCEPT !.pc = "done"]
    OBVIOUS
  <2>2. n = [a EXCEPT !.got = g]
    BY <1>6, <2>1
  <2>3. a \in S!Call /\ a.pc = "done" /\ a.confirm = x4[k].confirm
    BY <2>1, <1>7 DEF S!Call
  <2> QED
    BY <2>2, <2>3, <1>4 DEF S!Call
<1>9. x4' = [x4 EXCEPT ![k] = n]
  BY <1>5, <1>6 DEF S!Inv, S!TypeOK
<1>10. x4' \in [S!Kinds -> S!Call] /\ \A j \in S!Kinds : x4'[j] = IF j = k THEN n ELSE x4[j]
  BY <1>8, <1>9 DEF S!Inv, S!TypeOK
<1>11. x5' \in BOOLEAN
  BY <1>1
<1>12. S!TypeOK'
  BY <1>1, <1>2, <1>10, <1>11 DEF S!Inv, S!TypeOK
<1> SUFFICES ASSUME ~x6 PROVE S!Inv'
  BY <1>1, <1>12 DEF S!Inv
<1>13. S!OneAtATime("totp", "setUp", "turnOff")' /\ S!OneAtATime("sms", "smsSetUp", "smsTurnOff")'
  BY <1>1, <1>8, <1>10 DEF S!Inv, S!OneAtATime, S!Kinds
<1>14. S!FactorIsKnown("totp", "setUp", "turnOff")'
  BY <1>1, <1>2, <1>8, <1>10
  DEF S!Inv, S!FactorIsKnown, S!OneAtATime, S!Served, S!Confirmed, S!Kinds
<1>15. S!FactorIsKnown("sms", "smsSetUp", "smsTurnOff")'
  BY <1>1, <1>2, <1>8, <1>10
  DEF S!Inv, S!FactorIsKnown, S!OneAtATime, S!Served, S!Confirmed, S!Kinds
<1>16. S!Served("photo")' \/ x2'.photo = x1'.photo
  BY <1>1, <1>2, <1>8, <1>10 DEF S!Inv, S!Served, S!Kinds
<1>17. x1'.totp /\ ~S!Confirmed("setUp")' => x5'
  BY <1>1, <1>2, <1>8, <1>10 DEF S!Inv, S!Served, S!Confirmed, S!Kinds
<1> QED
  BY <1>1, <1>12, <1>13, <1>14, <1>15, <1>16, <1>17 DEF S!Inv

LEMMA SettingsFailInv == ASSUME S!Inv, NEW k \in S!Kinds, S!Fail(k) PROVE S!Inv'
<1>1. /\ x4[k].pc \in {"asked", "done"} /\ x4' = [x4 EXCEPT ![k].pc = "failed"]
      /\ x6' = (x6 \/ x4[k].pc = "done")
      /\ UNCHANGED <<x1, x2, x3, x5>>
  BY DEF S!Fail
<1>2. PICK n : n = [x4[k] EXCEPT !.pc = "failed"]
  OBVIOUS
<1>3. n \in S!Call /\ n.pc = "failed"
  BY <1>2 DEF S!Inv, S!TypeOK, S!Call
<1>4. x4' \in [S!Kinds -> S!Call] /\ \A j \in S!Kinds : x4'[j] = IF j = k THEN n ELSE x4[j]
  BY <1>1, <1>2, <1>3 DEF S!Inv, S!TypeOK
<1>5. x6' \in BOOLEAN
  BY <1>1 DEF S!Inv, S!TypeOK
<1>6. S!TypeOK'
  BY <1>1, <1>4, <1>5 DEF S!Inv, S!TypeOK
<1> SUFFICES ASSUME ~x6' PROVE S!Inv'
  BY <1>1, <1>6 DEF S!Inv
<1>7. ~x6 /\ x4[k].pc = "asked"
  BY <1>1
<1>8. \A j \in S!Kinds : S!Served(j)' = S!Served(j) /\ S!Confirmed(j)' = S!Confirmed(j)
  BY <1>3, <1>4, <1>7 DEF S!Served, S!Confirmed
<1>9. \A j \in S!Kinds : x4[j].pc = "idle" <=> x4'[j].pc = "idle"
  BY <1>3, <1>4, <1>7
<1> QED
  BY <1>1, <1>6, <1>7, <1>8, <1>9
  DEF S!Inv, S!OneAtATime, S!FactorIsKnown, S!Kinds

\* What the answer to call k leaves of the profile, when its copy is current.
LEMMA SettingsWrittenFacts ==
  ASSUME S!TypeOK, NEW k \in S!Kinds, k = "setUp" \/ x4[k].seen = x2
  PROVE  /\ S!WrittenBack(k) \in S!Profile
         /\ S!WrittenBack(k).totp = IF k = "turnOff" THEN FALSE ELSE x2.totp
         /\ S!WrittenBack(k).sms = IF k = "smsTurnOff" THEN FALSE
                                 ELSE IF k = "smsSetUp" /\ x4[k].confirm THEN TRUE
                                 ELSE x2.sms
         /\ S!WrittenBack(k).photo = IF k \in {"save", "photo"} THEN x4[k].got
                                   ELSE x2.photo
<1>1. x2 \in S!Profile /\ x4[k].got \in Drafts \cup {None} /\ x4[k].confirm \in BOOLEAN
  BY DEF S!TypeOK, S!Call
<1>2. CASE k \in {"save", "photo"}
  <2>1. S!WrittenBack(k) = [x2 EXCEPT !.photo = x4[k].got]
    BY <1>2 DEF S!WrittenBack
  <2>2. /\ S!WrittenBack(k) \in S!Profile /\ S!WrittenBack(k).photo = x4[k].got
        /\ S!WrittenBack(k).totp = x2.totp /\ S!WrittenBack(k).sms = x2.sms
    BY <1>1, <2>1, SettingsPhotoSet
  <2> QED
    BY <1>2, <2>2
<1>3. CASE k = "turnOff"
  <2>1. S!WrittenBack(k) = [x2 EXCEPT !.totp = FALSE]
    BY <1>3 DEF S!WrittenBack, S!FactorOf
  <2>2. /\ S!WrittenBack(k) \in S!Profile /\ S!WrittenBack(k).totp = FALSE
        /\ S!WrittenBack(k).sms = x2.sms /\ S!WrittenBack(k).photo = x2.photo
    BY <1>1, <2>1, SettingsTotpSet
  <2> QED
    BY <1>3, <2>2
<1>4. CASE k = "smsTurnOff"
  <2>1. S!WrittenBack(k) = [x2 EXCEPT !.sms = FALSE]
    BY <1>4 DEF S!WrittenBack, S!FactorOf
  <2>2. /\ S!WrittenBack(k) \in S!Profile /\ S!WrittenBack(k).sms = FALSE
        /\ S!WrittenBack(k).totp = x2.totp /\ S!WrittenBack(k).photo = x2.photo
    BY <1>1, <2>1, SettingsSmsSet
  <2> QED
    BY <1>4, <2>2
<1>5. CASE k = "smsSetUp" /\ x4[k].confirm
  <2>1. S!WrittenBack(k) = [x2 EXCEPT !.sms = TRUE]
    BY <1>5 DEF S!WrittenBack
  <2>2. /\ S!WrittenBack(k) \in S!Profile /\ S!WrittenBack(k).sms = TRUE
        /\ S!WrittenBack(k).totp = x2.totp /\ S!WrittenBack(k).photo = x2.photo
    BY <1>1, <2>1, SettingsSmsSet
  <2> QED
    BY <1>5, <2>2
<1>6. CASE k = "setUp" \/ (k = "smsSetUp" /\ ~x4[k].confirm)
  BY <1>1, <1>6 DEF S!WrittenBack
<1> QED
  BY <1>2, <1>3, <1>4, <1>5, <1>6 DEF S!Kinds

\* Whatever it saw, what it writes is a profile.
LEMMA SettingsWrittenTypes ==
  ASSUME S!TypeOK, NEW k \in S!Kinds PROVE S!WrittenBack(k) \in S!Profile
<1>1. /\ x2 \in S!Profile /\ x4[k].seen \in S!Profile
      /\ x4[k].got \in Drafts \cup {None}
  BY DEF S!TypeOK, S!Call
<1>2. CASE k \in {"save", "photo"}
  <2>1. S!WrittenBack(k) = [x4[k].seen EXCEPT !.photo = x4[k].got]
    BY <1>2 DEF S!WrittenBack
  <2> QED
    BY <1>1, <2>1, SettingsPhotoSet
<1>3. CASE k = "turnOff"
  <2>1. S!WrittenBack(k) = [x4[k].seen EXCEPT !.totp = FALSE]
    BY <1>3 DEF S!WrittenBack, S!FactorOf
  <2> QED
    BY <1>1, <2>1, SettingsTotpSet
<1>4. CASE k = "smsTurnOff"
  <2>1. S!WrittenBack(k) = [x4[k].seen EXCEPT !.sms = FALSE]
    BY <1>4 DEF S!WrittenBack, S!FactorOf
  <2> QED
    BY <1>1, <2>1, SettingsSmsSet
<1>5. CASE k = "smsSetUp" /\ x4[k].confirm
  <2>1. S!WrittenBack(k) = [x4[k].seen EXCEPT !.sms = TRUE]
    BY <1>5 DEF S!WrittenBack
  <2> QED
    BY <1>1, <2>1, SettingsSmsSet
<1>6. CASE k = "setUp" \/ (k = "smsSetUp" /\ ~x4[k].confirm)
  BY <1>1, <1>6 DEF S!WrittenBack
<1> QED
  BY <1>2, <1>3, <1>4, <1>5, <1>6 DEF S!Kinds

LEMMA SettingsAnsweredInv == ASSUME S!Inv, NEW k \in S!Kinds, S!Answered(k) PROVE S!Inv'
<1>1. /\ x4[k].pc = "done" /\ x2' = S!WrittenBack(k)
      /\ x3' = IF k \in {"setUp", "smsSetUp"}
                 THEN [x3 EXCEPT ![S!FactorOf(k)] = S!NextStep(k)] ELSE x3
      /\ x5' = (x5 \/ x3'["totp"] = "codes")
      /\ x4' = [x4 EXCEPT ![k] = S!Idle] /\ UNCHANGED x1
  BY DEF S!Answered
<1>2. /\ x6' \in BOOLEAN
      /\ ~x6' => /\ ~x6
                 /\ k = "setUp" \/ x4[k].seen = x2
                 /\ k \in {"save", "photo"} => x4[k].got = x1.photo
  BY DEF S!Answered
<1>3. x4' \in [S!Kinds -> S!Call] /\ \A j \in S!Kinds : x4'[j] = IF j = k THEN S!Idle ELSE x4[j]
  BY <1>1, SettingsAtRest DEF S!Inv, S!TypeOK
<1>4. /\ x3' \in [S!Factors -> S!Steps]
      /\ x3'["totp"] = IF k = "setUp" THEN IF x4[k].confirm THEN "codes" ELSE "confirm"
                         ELSE x3["totp"]
      /\ x3'["sms"] = IF k = "smsSetUp" THEN IF x4[k].confirm THEN "idle" ELSE "confirm"
                        ELSE x3["sms"]
  <2>1. x3 \in [S!Factors -> S!Steps] /\ "totp" \in S!Factors /\ "sms" \in S!Factors
    BY DEF S!Inv, S!TypeOK, S!Factors
  <2>2. CASE k = "setUp"
    BY <1>1, <2>1, <2>2 DEF S!FactorOf, S!NextStep, S!Steps
  <2>3. CASE k = "smsSetUp"
    BY <1>1, <2>1, <2>3 DEF S!FactorOf, S!NextStep, S!Steps
  <2>4. CASE k \notin {"setUp", "smsSetUp"}
    BY <1>1, <2>1, <2>4
  <2> QED
    BY <2>2, <2>3, <2>4
<1>5. x5' \in BOOLEAN
  BY <1>1
<1>6. x2' \in S!Profile
  BY <1>1, SettingsWrittenTypes DEF S!Inv
<1>7. S!TypeOK'
  BY <1>1, <1>2, <1>3, <1>4, <1>5, <1>6 DEF S!Inv, S!TypeOK
<1>8. x3'["sms"] # "codes"
  BY <1>4 DEF S!Inv
<1> SUFFICES ASSUME ~x6' PROVE S!Inv'
  BY <1>7, <1>8 DEF S!Inv
<1>9. /\ x2'.totp = IF k = "turnOff" THEN FALSE ELSE x2.totp
      /\ x2'.sms = IF k = "smsTurnOff" THEN FALSE
                        ELSE IF k = "smsSetUp" /\ x4[k].confirm THEN TRUE ELSE x2.sms
      /\ x2'.photo = IF k \in {"save", "photo"} THEN x4[k].got ELSE x2.photo
  BY <1>1, <1>2, SettingsWrittenFacts DEF S!Inv
<1>10. /\ S!OneAtATime("totp", "setUp", "turnOff")
       /\ S!OneAtATime("sms", "smsSetUp", "smsTurnOff")
       /\ S!FactorIsKnown("totp", "setUp", "turnOff")
       /\ S!FactorIsKnown("sms", "smsSetUp", "smsTurnOff")
  BY <1>2 DEF S!Inv
<1>11. S!OneAtATime("totp", "setUp", "turnOff")'
  BY <1>1, <1>3, <1>4, <1>9, <1>10, SettingsAtRest DEF S!OneAtATime, S!Kinds
<1>12. S!OneAtATime("sms", "smsSetUp", "smsTurnOff")'
  BY <1>1, <1>3, <1>4, <1>9, <1>10, SettingsAtRest DEF S!OneAtATime, S!Kinds
<1>13. S!FactorIsKnown("totp", "setUp", "turnOff")'
  <2>1. S!Confirmed("setUp")' = (S!Confirmed("setUp") /\ k # "setUp")
    BY <1>3, SettingsAtRest DEF S!Served, S!Confirmed, S!Kinds
  <2>2. S!Served("turnOff")' = (S!Served("turnOff") /\ k # "turnOff")
    BY <1>3, SettingsAtRest DEF S!Served, S!Kinds
  <2>3. CASE k = "setUp"
    <3>1. x3["totp"] # "codes" /\ ~S!Served("turnOff")
      BY <1>1, <1>10, <2>3 DEF S!OneAtATime, S!Served
    <3>2. S!Confirmed("setUp") <=> x3'["totp"] = "codes"
      BY <1>1, <1>4, <2>3 DEF S!Confirmed, S!Served
    <3> QED
      BY <1>1, <1>9, <1>10, <2>1, <2>2, <2>3, <3>1, <3>2 DEF S!FactorIsKnown
  <2>4. CASE k = "turnOff"
    <3>1. ~S!Confirmed("setUp") /\ x3["totp"] = "idle" /\ S!Served("turnOff")
      BY <1>1, <1>10, <2>4 DEF S!OneAtATime, S!Confirmed, S!Served
    <3> QED
      BY <1>1, <1>4, <1>9, <1>10, <2>1, <2>2, <2>4, <3>1 DEF S!FactorIsKnown
  <2>5. CASE k \notin {"setUp", "turnOff"}
    BY <1>1, <1>4, <1>9, <1>10, <2>1, <2>2, <2>5 DEF S!FactorIsKnown
  <2> QED
    BY <2>3, <2>4, <2>5
<1>14. S!FactorIsKnown("sms", "smsSetUp", "smsTurnOff")'
  BY <1>1, <1>3, <1>4, <1>8, <1>9, <1>10, SettingsAtRest
  DEF S!Inv, S!OneAtATime, S!FactorIsKnown, S!Served, S!Confirmed, S!Kinds
<1>15. S!Served("photo")' \/ x2'.photo = x1'.photo
  BY <1>1, <1>2, <1>3, <1>9, SettingsAtRest DEF S!Inv, S!Served, S!Kinds
<1>16. x1'.totp /\ ~S!Confirmed("setUp")' => x5'
  BY <1>1, <1>2, <1>3, <1>4, <1>9, SettingsAtRest
  DEF S!Inv, S!Served, S!Confirmed, S!Kinds
<1> QED
  BY <1>7, <1>8, <1>11, <1>12, <1>13, <1>14, <1>15, <1>16 DEF S!Inv

LEMMA SettingsRefusedInv == ASSUME S!Inv, NEW k \in S!Kinds, S!Refused(k) PROVE S!Inv'
<1>1. /\ x4[k].pc = "failed" /\ x4' = [x4 EXCEPT ![k] = S!Idle]
      /\ UNCHANGED <<x1, x2, x3, x5, x6>>
  BY DEF S!Refused
<1>2. x4' \in [S!Kinds -> S!Call] /\ \A j \in S!Kinds : x4'[j] = IF j = k THEN S!Idle ELSE x4[j]
  BY <1>1, SettingsAtRest DEF S!Inv, S!TypeOK
<1>3. S!TypeOK'
  BY <1>1, <1>2 DEF S!Inv, S!TypeOK
<1>4. \A j \in S!Kinds : S!Served(j)' = S!Served(j) /\ S!Confirmed(j)' = S!Confirmed(j)
  BY <1>1, <1>2, SettingsAtRest DEF S!Served, S!Confirmed
<1>5. \A j \in S!Kinds : x4[j].pc = "idle" => x4'[j].pc = "idle"
  BY <1>2, SettingsAtRest
<1>6. \A j \in S!Kinds : x4'[j].pc # "idle" => x4[j].pc # "idle"
  BY <1>2, SettingsAtRest
<1> QED
  BY <1>1, <1>3, <1>4, <1>5, <1>6
  DEF S!Inv, S!OneAtATime, S!FactorIsKnown, S!Kinds

LEMMA SettingsNextInv == ASSUME S!Inv, S!Next PROVE S!Inv'
BY SettingsUserInv, SettingsCancelSetUpInv, SettingsFinishSetUpInv,
   SettingsServeInv, SettingsFailInv, SettingsAnsweredInv, SettingsRefusedInv
DEF S!Next

LEMMA SettingsStutterInv == ASSUME S!Inv, UNCHANGED S!vars PROVE S!Inv'
<1>1. UNCHANGED <<x1, x2, x3, x4, x5, x6>>
  BY DEF S!vars
<1>2. S!TypeOK'
  BY <1>1 DEF S!Inv, S!TypeOK
<1> QED
  BY <1>1, <1>2 DEF S!Inv, S!OneAtATime, S!FactorIsKnown, S!Served, S!Confirmed

LEMMA SettingsInvImplies ==
  ASSUME S!Inv PROVE S!TypeOK /\ S!ProfileIsTrue /\ S!CodesAreShown
<1>1. S!TypeOK
  BY DEF S!Inv
<1>2. S!CodesAreShown
  BY DEF S!Inv, S!CodesAreShown, S!Confirmed, S!Served
<1>3. ASSUME S!Quiet, x3["totp"] # "codes", ~x6 PROVE x2 = x1
  <2>1. \A k \in S!Kinds : ~S!Served(k) /\ ~S!Confirmed(k)
    BY <1>3, SettingsAtRest DEF S!Quiet, S!Served, S!Confirmed
  <2>2. x1.totp = x2.totp /\ x1.sms = x2.sms
    BY <1>3, <2>1 DEF S!Inv, S!FactorIsKnown, S!Kinds
  <2>3. x1.photo = x2.photo
    BY <1>3, <2>1 DEF S!Inv, S!Kinds
  <2> QED
    BY <1>1, <2>2, <2>3 DEF S!TypeOK, S!Profile
<1> QED
  BY <1>1, <1>2, <1>3 DEF S!ProfileIsTrue

-----------------------------------------------------------------------------
(* Profile photos.                                                         *)

\* No upload is underway at the start.
LEMMA PhotoInitInv == ASSUME P!Init PROVE P!Inv
BY ConstantsAreSound
DEF P!NoneIsNoPhoto, P!Init, P!Inv, P!TypeOK, P!Job, P!Idle, P!StagesAreWhole,
    P!NewPhotosAreFresh, P!Stored, P!RemovedForAnother, P!OverlapsAreLate,
    P!OldPhotosAreGone, P!NothingIsLeftOver

\* What becomes of the uploads when one goes on to n.
LEMMA PhotoGoing ==
  ASSUME P!Inv, NEW h \in Calls, NEW n \in P!Job, x5' = [x5 EXCEPT ![h] = n]
  PROVE  /\ x5' \in [Calls -> P!Job] /\ x5'[h] = n
         /\ \A k \in Calls : k # h => x5'[k] = x5[k]
BY DEF P!Inv, P!TypeOK

\* An upload that begins reads the photo of the account.
LEMMA PhotoBeginInv ==
  ASSUME P!Inv, NEW h \in Calls, P!Begin(h) PROVE P!Inv'
<1>1. PICK n : n = [pc |-> "save", old |-> x3, new |-> None]
  OBVIOUS
<1>2. n \in P!Job /\ x5' = [x5 EXCEPT ![h] = n]
  BY <1>1 DEF P!Begin, P!Job, P!Inv, P!TypeOK
<1>3. /\ x5' \in [Calls -> P!Job] /\ x5'[h] = n
      /\ \A k \in Calls : k # h => x5'[k] = x5[k]
  BY <1>2, PhotoGoing
<1>4. /\ n.pc = "save" /\ n.old = x3 /\ n.new = None
      /\ x5[h] = P!Idle /\ ~x4 /\ x10 = {}
  BY <1>1 DEF P!Begin, P!Inv, P!StagesAreWhole
<1>5. /\ UNCHANGED <<x1, x2, x3, x4, x6, x7, x8, x10>>
      /\ x9' = x9 \cup P!Pending(h)
  BY DEF P!Begin
<1>6. P!Pending(h) \subseteq (Own \cup Foreign)
  BY DEF P!Pending, P!Inv, P!TypeOK, P!Job
<1>7. P!TypeOK'
  BY <1>3, <1>5, <1>6 DEF P!Inv, P!TypeOK
<1>8. P!Stored' = P!Stored /\ h \notin P!Stored
  BY <1>3, <1>4 DEF P!Stored, P!Idle
<1>9. \A k \in P!Stored : x5[k].new \in P!Pending(h)
  BY <1>8 DEF P!Stored, P!Pending
<1>10. P!StagesAreWhole'
  BY <1>3, <1>4 DEF P!Inv, P!StagesAreWhole
<1>11. P!NewPhotosAreFresh'
  BY <1>3, <1>4, <1>5, <1>8 DEF P!Inv, P!NewPhotosAreFresh, P!Stored
<1>12. P!RemovedForAnother'
  BY <1>3, <1>4, <1>5 DEF P!Inv, P!RemovedForAnother, P!Idle
<1>13. P!OverlapsAreLate'
  BY <1>3, <1>4, <1>5, <1>8, <1>9 DEF P!Inv, P!OverlapsAreLate, P!Stored
<1>14. P!OldPhotosAreGone'
  BY <1>3, <1>4, <1>5 DEF P!Inv, P!OldPhotosAreGone
<1>15. P!Underway \subseteq P!Underway'
  BY <1>3, <1>4 DEF P!Underway, P!Idle
<1>16. P!NothingIsLeftOver'
  BY <1>5, <1>15 DEF P!Inv, P!NothingIsLeftOver
<1> QED
  BY <1>4, <1>5, <1>7, <1>10, <1>11, <1>12, <1>13, <1>14, <1>16 DEF P!Inv

\* A photo is stored under a name that no other had.
LEMMA PhotoSaveInv ==
  ASSUME P!Inv, NEW h \in Calls, P!Save(h) PROVE P!Inv'
<1>0. PICK p \in (Own \cup Foreign) \ x2 :
        /\ x1' = x1 \cup {p} /\ x2' = x2 \cup {p}
        /\ x5' = [x5 EXCEPT ![h].pc = "remove", ![h].new = p]
        /\ x9' = IF x4 \/ \E k \in Calls \ {h} : x5[k].pc # "idle"
                   THEN x9 \cup {p} \cup P!Pending(h) ELSE x9
  BY DEF P!Save
<1>1. PICK n : n = [pc |-> "remove", old |-> x5[h].old, new |-> p]
  OBVIOUS
<1>2. n \in P!Job /\ x5' = [x5 EXCEPT ![h] = n]
  <2>1. x5 \in [Calls -> P!Job] /\ x5[h] \in P!Job
    BY DEF P!Inv, P!TypeOK
  <2>2. PICK r : r = [x5[h] EXCEPT !.pc = "remove", !.new = p]
    OBVIOUS
  <2>3. r = n
    <3>1. PICK m : m = [x5[h] EXCEPT !.pc = "remove"]
      OBVIOUS
    <3>2. m = [pc |-> "remove", old |-> x5[h].old, new |-> x5[h].new]
      BY <2>1, <3>1 DEF P!Job
    <3>3. r = [m EXCEPT !.new = p]
      BY <2>2, <3>1
    <3> QED
      BY <1>1, <3>2, <3>3
  <2>4. n \in P!Job
    BY <1>1, <2>1 DEF P!Job
  <2> QED
    BY <1>0, <2>1, <2>2, <2>3, <2>4
<1>3. /\ x5' \in [Calls -> P!Job] /\ x5'[h] = n
      /\ \A k \in Calls : k # h => x5'[k] = x5[k]
  BY <1>2, PhotoGoing
<1>4. /\ n.pc = "remove" /\ n.old = x5[h].old /\ n.new = p /\ p # None
      /\ x5[h].pc = "save" /\ x5[h].new = None
  BY <1>1, ConstantsAreSound
  DEF P!Save, P!Inv, P!StagesAreWhole, P!NoneIsNoPhoto
<1>5. /\ UNCHANGED <<x3, x4, x6, x7, x8, x10>>
      /\ x9 \subseteq x9' /\ x2 \subseteq x2'
  BY <1>0 DEF P!Save
<1>6. P!Pending(h) \subseteq (Own \cup Foreign)
  BY DEF P!Pending, P!Inv, P!TypeOK, P!Job
<1>7. P!TypeOK'
  BY <1>0, <1>3, <1>5, <1>6 DEF P!Inv, P!TypeOK
<1>8. P!Stored' = P!Stored \cup {h} /\ h \notin P!Stored
  BY <1>3, <1>4 DEF P!Stored
<1>9. \A k \in P!Stored : x5[k].new \in P!Pending(h) /\ x5[k].new \in x2
  BY <1>8 DEF P!Stored, P!Pending, P!Inv, P!NewPhotosAreFresh, P!TypeOK
<1>10. P!StagesAreWhole'
  BY <1>3, <1>4 DEF P!Inv, P!StagesAreWhole
<1>11. P!NewPhotosAreFresh'
  <2>1. /\ x3' \in x2' \cup {None}
        /\ \A k \in Calls : x5'[k].old = x5[k].old /\ x5[k].old \in x2 \cup {None}
    BY <1>0, <1>3, <1>4, <1>5 DEF P!Inv, P!NewPhotosAreFresh
  <2>2. p # x3 /\ \A k \in Calls : x5[k].old # p /\ x5[k].new # p
    BY <1>4, <1>9, <2>1 DEF P!Inv, P!NewPhotosAreFresh, P!Stored
  <2>3. \A g \in P!Stored' : x5'[g].new \in x1' /\ x5'[g].new # x3'
    BY <1>0, <1>3, <1>4, <1>5, <1>8, <2>2
    DEF P!Inv, P!NewPhotosAreFresh, P!Stored
  <2>4. ASSUME NEW g \in P!Stored', NEW k \in Calls
        PROVE  x5'[k].old # x5'[g].new /\ (k # g => x5'[k].new # x5'[g].new)
    BY <1>3, <1>4, <1>8, <2>1, <2>2 DEF P!Inv, P!NewPhotosAreFresh, P!Stored
  <2> QED
    <3>1. \A k \in Calls : x5'[k].old \in x2' \cup {None}
      BY <1>5, <2>1
    <3> QED
      BY <2>1, <2>3, <2>4, <3>1 DEF P!NewPhotosAreFresh
<1>12. P!RemovedForAnother'
  BY <1>0, <1>3, <1>4, <1>5 DEF P!Inv, P!RemovedForAnother
<1>13. P!OverlapsAreLate'
  <2>1. \A k \in Calls : x5'[k].pc # "idle" <=> x5[k].pc # "idle"
    BY <1>3, <1>4
  <2>2. \A k \in Calls : x5'[k].pc # "idle" => x3' \in {x5'[k].old, None} \cup x9'
    BY <1>3, <1>4, <1>5, <2>1 DEF P!Inv, P!OverlapsAreLate
  <2>3. ASSUME NEW g \in P!Stored', NEW k \in Calls, k # g, x5'[k].pc # "idle"
        PROVE  x5'[g].new \in x9'
    <3>1. CASE g = h
      BY <3>1, <1>0, <1>3, <1>4, <2>1, <2>3
    <3>2. CASE g # h
      BY <3>2, <1>3, <1>5, <1>8, <2>1, <2>3
      DEF P!Inv, P!OverlapsAreLate, P!Stored
    <3> QED
      BY <3>1, <3>2
  <2>4. x4' => \A g \in P!Stored' : x5'[g].new \in x9'
    BY <1>0, <1>3, <1>4, <1>5, <1>8 DEF P!Inv, P!OverlapsAreLate, P!Stored
  <2> QED
    BY <2>2, <2>3, <2>4 DEF P!OverlapsAreLate, P!Stored
<1>14. P!OldPhotosAreGone'
  <2>1. \A k \in Calls : x5[k].old # p
    BY ConstantsAreSound DEF P!Inv, P!NewPhotosAreFresh, P!NoneIsNoPhoto
  <2> QED
    BY <1>0, <1>3, <1>4, <1>5, <2>1 DEF P!Inv, P!OldPhotosAreGone
<1>15. P!Underway' = P!Underway \cup {p}
  BY <1>3, <1>4 DEF P!Underway
<1>16. P!NothingIsLeftOver'
  BY <1>0, <1>5, <1>15 DEF P!Inv, P!NothingIsLeftOver
<1> QED
  BY <1>5, <1>7, <1>10, <1>11, <1>12, <1>13, <1>14, <1>16 DEF P!Inv

\* The photo that is removed is none that an upload has stored.
LEMMA PhotoRemoveInv ==
  ASSUME P!Inv, NEW h \in Calls, P!Remove(h) PROVE P!Inv'
<1>1. PICK n : n = [pc |-> "update", old |-> x5[h].old, new |-> x5[h].new]
  OBVIOUS
<1>2. n \in P!Job /\ x5' = [x5 EXCEPT ![h] = n]
  <2>1. x5 \in [Calls -> P!Job] /\ x5[h] \in P!Job
    BY DEF P!Inv, P!TypeOK
  <2>2. [x5[h] EXCEPT !.pc = "update"] = n /\ n \in P!Job
    BY <1>1, <2>1 DEF P!Job
  <2> QED
    BY <2>1, <2>2 DEF P!Remove
<1>3. /\ x5' \in [Calls -> P!Job] /\ x5'[h] = n
      /\ \A k \in Calls : k # h => x5'[k] = x5[k]
  BY <1>2, PhotoGoing
<1>4. /\ n.pc = "update" /\ n.old = x5[h].old /\ n.new = x5[h].new
      /\ x5[h].pc = "remove"
  BY <1>1 DEF P!Remove
<1>5. /\ UNCHANGED <<x2, x3, x4, x6, x7, x9, x10>>
      /\ \/ x1' = x1 \ {x5[h].old} /\ x8' = x8
         \/ x1' = x1 /\ x8' = x8 \cup ({x5[h].old} \ {None})
  BY DEF P!Remove, P!Superseded
<1>6. x5[h].old \in (Own \cup Foreign) \cup {None}
  BY DEF P!Inv, P!TypeOK, P!Job
<1>7. P!TypeOK'
  BY <1>3, <1>5, <1>6 DEF P!Inv, P!TypeOK
<1>8. P!Stored' = P!Stored /\ \A k \in Calls : x5'[k].old = x5[k].old /\ x5'[k].new = x5[k].new
  BY <1>3, <1>4 DEF P!Stored
<1>10. P!StagesAreWhole'
  BY <1>3, <1>4 DEF P!Inv, P!StagesAreWhole
<1>11. P!NewPhotosAreFresh'
  BY <1>5, <1>8 DEF P!Inv, P!NewPhotosAreFresh, P!Stored
<1>12. P!RemovedForAnother'
  BY <1>3, <1>4, <1>5, <1>8 DEF P!Inv, P!RemovedForAnother
<1>13. P!OverlapsAreLate'
  BY <1>3, <1>4, <1>5, <1>8 DEF P!Inv, P!OverlapsAreLate, P!Stored
<1>14. P!OldPhotosAreGone'
  BY <1>3, <1>4, <1>5, <1>6, ConstantsAreSound
  DEF P!Inv, P!OldPhotosAreGone, P!TypeOK, P!NoneIsNoPhoto
<1>15. P!Underway' = P!Underway
  BY <1>8 DEF P!Underway
<1>16. P!NothingIsLeftOver'
  BY <1>5, <1>15 DEF P!Inv, P!NothingIsLeftOver
<1> QED
  BY <1>5, <1>7, <1>10, <1>11, <1>12, <1>13, <1>14, <1>16 DEF P!Inv

\* The photo an account had is gone, or was given by an upload that overlapped
\* this one.
LEMMA PhotoUpdateInv ==
  ASSUME P!Inv, NEW h \in Calls, P!Update(h) PROVE P!Inv'
<1>2. P!Idle \in P!Job /\ x5' = [x5 EXCEPT ![h] = P!Idle]
  BY DEF P!Update, P!Job, P!Idle
<1>3. /\ x5' \in [Calls -> P!Job] /\ x5'[h] = P!Idle
      /\ \A k \in Calls : k # h => x5'[k] = x5[k]
  BY <1>2, PhotoGoing
<1>4. /\ P!Idle.pc = "idle" /\ P!Idle.old = None /\ P!Idle.new = None
      /\ x5[h].pc = "update" /\ x5[h].new # None
  BY DEF P!Update, P!Idle, P!Inv, P!StagesAreWhole
<1>5. /\ UNCHANGED <<x1, x2, x4, x6, x7, x8, x9, x10>>
      /\ x3' = x5[h].new
  BY DEF P!Update
<1>6. x5[h] \in P!Job /\ h \in P!Stored
  BY <1>4 DEF P!Inv, P!TypeOK, P!Stored
<1>7. P!TypeOK'
  BY <1>3, <1>5, <1>6 DEF P!Inv, P!TypeOK, P!Job
<1>8. P!Stored' = P!Stored \ {h}
  BY <1>3, <1>4 DEF P!Stored
<1>9. x3' \in x1 /\ x3' \in x2
  BY <1>5, <1>6 DEF P!Inv, P!NewPhotosAreFresh, P!TypeOK
<1>10. P!StagesAreWhole'
  BY <1>3, <1>4 DEF P!Inv, P!StagesAreWhole
<1>11. P!NewPhotosAreFresh'
  BY <1>3, <1>4, <1>5, <1>6, <1>8, <1>9
  DEF P!Inv, P!NewPhotosAreFresh, P!Stored
<1>12. P!RemovedForAnother'
  BY <1>5, <1>9 DEF P!RemovedForAnother
<1>13. P!OverlapsAreLate'
  BY <1>3, <1>4, <1>5, <1>6, <1>8 DEF P!Inv, P!OverlapsAreLate, P!Stored
<1>14. P!OldPhotosAreGone'
  BY <1>3, <1>4, <1>5 DEF P!Inv, P!OldPhotosAreGone
<1>15. P!Underway \subseteq P!Underway' \cup {x3'}
  BY <1>3, <1>5 DEF P!Underway
<1>16. P!NothingIsLeftOver'
  <2>1. x3 \in x1 => x3 \in x8 \cup x9
    BY <1>4, ConstantsAreSound
    DEF P!Inv, P!OverlapsAreLate, P!OldPhotosAreGone, P!TypeOK,
        P!NoneIsNoPhoto
  <2>2. x4 => x3' \in x9
    BY <1>5, <1>6 DEF P!Inv, P!OverlapsAreLate
  <2>3. x1 \subseteq {x3} \cup P!Underway \cup x8 \cup x6 \cup x9 \cup x10
    BY DEF P!Inv, P!NothingIsLeftOver
  <2>4. x1' \subseteq {x3'} \cup P!Underway' \cup x8 \cup x6 \cup x9 \cup x10
    BY <1>5, <1>15, <2>1, <2>3
  <2> QED
    BY <1>5, <2>2, <2>4 DEF P!NothingIsLeftOver
<1> QED
  BY <1>5, <1>7, <1>10, <1>11, <1>12, <1>13, <1>14, <1>16 DEF P!Inv

\* An upload that is cut leaves its photo, and may have removed the account's.
LEMMA PhotoCutInv ==
  ASSUME P!Inv, NEW h \in Calls, P!Cut(h) PROVE P!Inv'
<1>2. P!Idle \in P!Job /\ x5' = [x5 EXCEPT ![h] = P!Idle]
  BY DEF P!Cut, P!Job, P!Idle
<1>3. /\ x5' \in [Calls -> P!Job] /\ x5'[h] = P!Idle
      /\ \A k \in Calls : k # h => x5'[k] = x5[k]
  BY <1>2, PhotoGoing
<1>4. P!Idle.pc = "idle" /\ P!Idle.old = None /\ P!Idle.new = None /\ x5[h] \in P!Job
  BY DEF P!Idle, P!Inv, P!TypeOK
<1>5. /\ UNCHANGED <<x1, x2, x3, x4, x8, x9, x10>>
      /\ x7' = IF x5[h].pc = "update" THEN x7 \cup {x5[h].old} ELSE x7
      /\ x6' = x6 \cup ({x5[h].new} \ {None})
  BY DEF P!Cut
<1>7. P!TypeOK'
  BY <1>3, <1>4, <1>5 DEF P!Inv, P!TypeOK, P!Job
<1>8. P!Stored' = P!Stored \ {h}
  BY <1>3, <1>4 DEF P!Stored
<1>10. P!StagesAreWhole'
  BY <1>3, <1>4 DEF P!Inv, P!StagesAreWhole
<1>11. P!NewPhotosAreFresh'
  BY <1>3, <1>4, <1>5, <1>8 DEF P!Inv, P!NewPhotosAreFresh, P!Stored
<1>12. P!RemovedForAnother'
  BY <1>3, <1>4, <1>5 DEF P!Inv, P!RemovedForAnother
<1>13. P!OverlapsAreLate'
  BY <1>3, <1>4, <1>5, <1>8 DEF P!Inv, P!OverlapsAreLate, P!Stored
<1>14. P!OldPhotosAreGone'
  BY <1>3, <1>4, <1>5 DEF P!Inv, P!OldPhotosAreGone
<1>15. P!Underway \subseteq P!Underway' \cup x6'
  BY <1>3, <1>5 DEF P!Underway
<1>16. P!NothingIsLeftOver'
  BY <1>5, <1>15 DEF P!Inv, P!NothingIsLeftOver
<1> QED
  BY <1>5, <1>7, <1>10, <1>11, <1>12, <1>13, <1>14, <1>16 DEF P!Inv

\* What is underway at the erasure overlaps it.
LEMMA PhotoEraseInv == ASSUME P!Inv, P!Erase PROVE P!Inv'
<1>1. /\ ~x4 /\ x4' = TRUE /\ x3' = None /\ x10' = {x3} \ {None}
      /\ x9' = x9 \cup ({x5[h].new : h \in Calls} \ {None})
      /\ UNCHANGED <<x1, x2, x5, x6, x7, x8>>
  BY DEF P!Erase, P!Forgotten
<1>2. {x5[h].new : h \in Calls} \ {None} \subseteq (Own \cup Foreign)
  BY DEF P!Inv, P!TypeOK, P!Job
<1>3. P!TypeOK'
  BY <1>1, <1>2 DEF P!Inv, P!TypeOK
<1>4. P!Stored' = P!Stored /\ P!Underway' = P!Underway /\ \A h \in P!Stored : x5[h].new \in x9'
  BY <1>1 DEF P!Stored, P!Underway
<1>5. P!StagesAreWhole' /\ P!OldPhotosAreGone'
  BY <1>1 DEF P!Inv, P!StagesAreWhole, P!OldPhotosAreGone
<1>6. P!NewPhotosAreFresh'
  BY <1>1, <1>4 DEF P!Inv, P!NewPhotosAreFresh, P!Stored
<1>7. P!RemovedForAnother'
  BY <1>1 DEF P!RemovedForAnother
<1>8. P!OverlapsAreLate'
  BY <1>1, <1>4 DEF P!Inv, P!OverlapsAreLate
<1>9. P!NothingIsLeftOver'
  <2>1. x1 \subseteq {x3} \cup P!Underway \cup x8 \cup x6 \cup x9 \cup x10
    BY DEF P!Inv, P!NothingIsLeftOver
  <2>2. x10 = {} /\ None \notin x1
    BY <1>1, ConstantsAreSound DEF P!Inv, P!TypeOK, P!NoneIsNoPhoto
  <2> QED
    BY <1>1, <1>4, <2>1, <2>2 DEF P!NothingIsLeftOver
<1> QED
  BY <1>1, <1>3, <1>5, <1>6, <1>7, <1>8, <1>9 DEF P!Inv

\* A step keeps the invariant.
LEMMA PhotoNextInv == ASSUME P!Inv, P!Next PROVE P!Inv'
<1>1. CASE P!Erase
  BY <1>1, PhotoEraseInv
<1>2. ASSUME NEW h \in Calls, P!Begin(h) \/ P!Save(h) \/ P!Remove(h) \/ P!Update(h) \/ P!Cut(h)
      PROVE  P!Inv'
  BY <1>2, PhotoBeginInv, PhotoSaveInv, PhotoRemoveInv, PhotoUpdateInv,
     PhotoCutInv
<1> QED
  BY <1>1, <1>2 DEF P!Next

\* So does no step.
LEMMA PhotoStutterInv == ASSUME P!Inv, UNCHANGED P!vars PROVE P!Inv'
BY
DEF P!Inv, P!vars, P!TypeOK, P!Job, P!StagesAreWhole, P!NewPhotosAreFresh,
    P!Stored, P!RemovedForAnother, P!OverlapsAreLate, P!OldPhotosAreGone,
    P!NothingIsLeftOver, P!Underway

\* With no upload underway, nothing is removed for another.
LEMMA PhotoInvImplies == ASSUME P!Inv PROVE P!TypeOK /\ P!PhotoIsThere /\ P!NothingIsLeftOver
BY DEF P!Inv, P!PhotoIsThere, P!RemovedForAnother, P!Idle

-----------------------------------------------------------------------------
(* The times of events.                                                    *)

\* A date and a time of day are an hour of the wall.
LEMMA EventWallParts ==
  ASSUME NEW w \in Int
  PROVE  /\ T!Day(w) \in Int /\ T!Hour(w) \in 0..23
         /\ 24 * T!Day(w) + T!Hour(w) = w
BY DEF T!Day, T!Hour

\* The offset is that of the zone before or after its change.
LEMMA EventOffsets ==
  ASSUME NEW z \in Zones, NEW i \in Int
  PROVE  /\ T!Offset(z, i) \in -12..12 /\ T!Wall(z, i) \in Int
         /\ T!Wall(z, i) = i + T!Offset(z, i)
         /\ T!ToInstant(z, i) = i - T!Offset(z, i) /\ T!ToInstant(z, i) \in Int
<1>1. T!Offset(z, i) \in -12..12
  BY ConstantsAreSound DEF T!ZonesAreSound, T!Offset
<1> QED
  BY <1>1 DEF T!Wall, T!ToInstant

\* Where no change is near, what the wall shows converts back.
LEMMA EventThereAndBack ==
  ASSUME NEW z \in Zones, NEW i \in Int, ~T!NearChange(z, i)
  PROVE  T!ToInstant(z, T!Wall(z, i)) = i
<1>1. PICK w : w = T!Wall(z, i)
  OBVIOUS
<1>2. w \in Int /\ w = i + T!Offset(z, i) /\ T!Offset(z, i) \in -12..12
  BY <1>1, EventOffsets
<1>3. T!Offset(z, w) = T!Offset(z, i)
  <2>1. CASE z.before = z.after
    BY <2>1 DEF T!Offset
  <2>2. CASE i - z.change \notin -12..12
    <3>1. z.change \in Int
      BY ConstantsAreSound DEF T!ZonesAreSound
    <3>2. i < z.change <=> w < z.change
      BY <1>2, <2>2, <3>1
    <3> QED
      BY <3>2 DEF T!Offset
  <2> QED
    BY <2>1, <2>2 DEF T!NearChange
<1> QED
  BY <1>1, <1>2, <1>3, EventOffsets

LEMMA EventInitInv == ASSUME T!Init PROVE T!Inv
BY
DEF T!Init, T!Inv, T!TypeOK, T!UntouchedEventsStay, T!EventsEndAfterTheyStart

LEMMA EventOpenNewInv == ASSUME T!Inv, NEW z \in Zones, T!OpenNew(z) PROVE T!Inv'
<1>1. PICK day : day = CHOOSE d \in Days : TRUE
  OBVIOUS
<1>2. day \in 0..4
  BY <1>1, ConstantsAreSound DEF T!TimesAreSound
<1>3. /\ x2' = [zone |-> z, date |-> day, from |-> 9, to |-> 10, edits |-> FALSE,
                  touched |-> TRUE]
      /\ UNCHANGED <<x1, x3>>
  BY <1>1 DEF T!OpenNew
<1>4. x2' \in T!Form /\ x2'.edits = FALSE
  BY <1>2, <1>3 DEF T!Form
<1>5. T!TypeOK'
  BY <1>3, <1>4 DEF T!Inv, T!TypeOK
<1> QED
  BY <1>3, <1>4, <1>5
  DEF T!Inv, T!UntouchedEventsStay, T!EventsEndAfterTheyStart

\* A dialog that is opened over an event shows it.
LEMMA EventOpenEditInv == ASSUME T!Inv, NEW z \in Zones, T!OpenEdit(z) PROVE T!Inv'
<1>1. /\ x1 # None /\ UNCHANGED <<x1, x3>>
      /\ x2' = [zone |-> z, date |-> T!Day(T!Wall(z, x1.start)),
                  from |-> T!Hour(T!Wall(z, x1.start)), to |-> T!Hour(T!Wall(z, x1.end)),
                  edits |-> TRUE, touched |-> FALSE]
  BY DEF T!OpenEdit
<1>2. x1.start \in 24..96 /\ x1.end \in 24..96
  BY <1>1 DEF T!Inv, T!TypeOK, T!Event, T!Instants
<1>3. PICK w : w = T!Wall(z, x1.start)
  OBVIOUS
<1>4. w \in 12..108
  <2>1. x1.start \in Int
    BY <1>2
  <2>2. T!Offset(z, x1.start) \in -12..12 /\ w = x1.start + T!Offset(z, x1.start)
    BY <1>3, <2>1, EventOffsets
  <2> QED
    BY <1>2, <2>2
<1>5. T!Day(w) \in 0..4 /\ T!Hour(w) \in 0..23 /\ 24 * T!Day(w) + T!Hour(w) = w
  BY <1>4 DEF T!Day, T!Hour
<1>6. T!Hour(T!Wall(z, x1.end)) \in 0..23
  <2>1. x1.end \in Int
    BY <1>2
  <2>2. T!Wall(z, x1.end) \in Int
    BY <2>1, EventOffsets
  <2> QED
    BY <2>2, EventWallParts
<1>7. x2' \in T!Form
  BY <1>1, <1>3, <1>5, <1>6 DEF T!Form
<1>8. T!TypeOK'
  BY <1>1, <1>7 DEF T!Inv, T!TypeOK
<1>9. /\ x2'.zone = z /\ x2'.date = T!Day(w) /\ x2'.from = T!Hour(w)
      /\ x2'.to = T!Hour(T!Wall(z, x1.end))
  BY <1>1, <1>3
<1>10. T!ShowsTheEvent(z)'
  BY <1>1, <1>3, <1>5, <1>9 DEF T!ShowsTheEvent, T!At
<1> QED
  BY <1>1, <1>8, <1>9, <1>10
  DEF T!Inv, T!UntouchedEventsStay, T!EventsEndAfterTheyStart, T!ShowsTheEvent

LEMMA EventTypeInv == ASSUME T!Inv, T!Type PROVE T!Inv'
<1>1. x2 \in T!Form /\ UNCHANGED <<x1, x3>>
  BY DEF T!Type, T!Inv, T!TypeOK
<1>2. x2' \in T!Form /\ x2'.touched = TRUE
  <2>1. CASE \E d \in Days : x2' = [x2 EXCEPT !.date = d, !.touched = TRUE]
    <3>1. PICK d \in Days : x2' = [x2 EXCEPT !.date = d, !.touched = TRUE]
      BY <2>1
    <3>2. PICK a : a = [x2 EXCEPT !.date = d]
      OBVIOUS
    <3>3. a \in T!Form
      BY <1>1, <3>2, ConstantsAreSound DEF T!Form, T!TimesAreSound
    <3>4. x2' = [a EXCEPT !.touched = TRUE]
      BY <3>1, <3>2
    <3> QED
      BY <3>3, <3>4 DEF T!Form
  <2>2. CASE \E h \in Hours : x2' = [x2 EXCEPT !.from = h, !.touched = TRUE]
    <3>1. PICK h \in Hours : x2' = [x2 EXCEPT !.from = h, !.touched = TRUE]
      BY <2>2
    <3>2. PICK a : a = [x2 EXCEPT !.from = h]
      OBVIOUS
    <3>3. a \in T!Form
      BY <1>1, <3>2, ConstantsAreSound DEF T!Form, T!TimesAreSound
    <3>4. x2' = [a EXCEPT !.touched = TRUE]
      BY <3>1, <3>2
    <3> QED
      BY <3>3, <3>4 DEF T!Form
  <2>3. CASE \E h \in Hours : x2' = [x2 EXCEPT !.to = h, !.touched = TRUE]
    <3>1. PICK h \in Hours : x2' = [x2 EXCEPT !.to = h, !.touched = TRUE]
      BY <2>3
    <3>2. PICK a : a = [x2 EXCEPT !.to = h]
      OBVIOUS
    <3>3. a \in T!Form
      BY <1>1, <3>2, ConstantsAreSound DEF T!Form, T!TimesAreSound
    <3>4. x2' = [a EXCEPT !.touched = TRUE]
      BY <3>1, <3>2
    <3> QED
      BY <3>3, <3>4 DEF T!Form
  <2>4. CASE \E z \in Zones : x2' = [x2 EXCEPT !.zone = z, !.touched = TRUE]
    <3>1. PICK z \in Zones : x2' = [x2 EXCEPT !.zone = z, !.touched = TRUE]
      BY <2>4
    <3>2. PICK a : a = [x2 EXCEPT !.zone = z]
      OBVIOUS
    <3>3. a \in T!Form
      BY <1>1, <3>2 DEF T!Form
    <3>4. x2' = [a EXCEPT !.touched = TRUE]
      BY <3>1, <3>2
    <3> QED
      BY <3>3, <3>4 DEF T!Form
  <2> QED
    BY <2>1, <2>2, <2>3, <2>4 DEF T!Type
<1>3. T!TypeOK'
  BY <1>1, <1>2 DEF T!Inv, T!TypeOK
<1> QED
  BY <1>1, <1>2, <1>3
  DEF T!Inv, T!UntouchedEventsStay, T!EventsEndAfterTheyStart

\* Two times of one date, in order, convert to instants in order, or a change
\* of the clocks lies between them.
LEMMA EventTimesInOrder ==
  ASSUME NEW z \in Zones, NEW v \in Int, NEW w \in Int, v < w,
         T!ToInstant(z, v) <= T!ToInstant(z, w)
  PROVE  T!ToInstant(z, v) < T!ToInstant(z, w) \/ T!NearChange(z, T!ToInstant(z, v))
<1>1. /\ T!ToInstant(z, v) = v - T!Offset(z, v) /\ T!Offset(z, v) \in -12..12
      /\ T!ToInstant(z, w) = w - T!Offset(z, w) /\ T!Offset(z, w) \in -12..12
  BY EventOffsets
<1>2. PICK m \in Int : m = T!Offset(z, v) /\ m \in -12..12 /\ T!ToInstant(z, v) = v - m
  BY <1>1
<1>3. PICK n \in Int : n = T!Offset(z, w) /\ n \in -12..12 /\ T!ToInstant(z, w) = w - n
  BY <1>1
<1>4. CASE v - m < w - n
  BY <1>2, <1>3, <1>4
<1>5. CASE v - m = w - n
  <2>1. m # n
    BY <1>5
  <2>2. /\ z.before \in -12..12 /\ z.after \in -12..12 /\ z.change \in Int
    BY ConstantsAreSound DEF T!ZonesAreSound
  <2>3. /\ v < z.change /\ z.change <= w /\ z.before # z.after
        /\ m = z.before /\ n = z.after
    BY <1>2, <1>3, <2>1, <2>2 DEF T!Offset
  <2>4. (v - m) - z.change \in -12..12
    BY <1>2, <1>3, <1>5, <2>2, <2>3
  <2> QED
    BY <1>2, <2>3, <2>4 DEF T!NearChange
<1> QED
  BY <1>2, <1>3, <1>4, <1>5

\* Saving keeps the times of an event that no one touched.
LEMMA EventSaveInv == ASSUME T!Inv, T!Save PROVE T!Inv'
<1>1. /\ x2 # None /\ x2.from < x2.to /\ T!Start <= T!End
      /\ T!Start \in T!Instants /\ T!End \in T!Instants
      /\ x1' = [start |-> T!Start, end |-> T!End]
      /\ x3' = (x3 \/ (/\ x2.edits /\ ~x2.touched
                       /\ x1' # x1 /\ ~T!Explained(x2.zone)))
      /\ x2' = None
  BY DEF T!Save, T!MayBeSaved
<1>2. /\ x2.zone \in Zones /\ x2.date \in 0..4 /\ x2.from \in 0..23 /\ x2.to \in 0..23
  BY <1>1 DEF T!Inv, T!TypeOK, T!Form
<1>3. PICK v : v = T!At(x2, x2.from)
  OBVIOUS
<1>4. PICK w : w = T!At(x2, x2.to)
  OBVIOUS
<1>5. /\ v \in Int /\ w \in Int /\ v < w
      /\ v = 24 * x2.date + x2.from /\ w = 24 * x2.date + x2.to
  BY <1>1, <1>2, <1>3, <1>4 DEF T!At
<1>6. T!Start = T!ToInstant(x2.zone, v) /\ T!End = T!ToInstant(x2.zone, w)
  BY <1>3, <1>4 DEF T!Start, T!End
<1>7. x1' \in T!Event /\ x1'.start = T!Start /\ x1'.end = T!End
  BY <1>1 DEF T!Event
<1>8. T!EventsEndAfterTheyStart'
  BY <1>1, <1>2, <1>5, <1>6, <1>7, EventTimesInOrder
  DEF T!EventsEndAfterTheyStart
<1>9. ASSUME x2.edits, ~x2.touched, ~T!Explained(x2.zone) PROVE x1' = x1
  <2>1. /\ x1 \in T!Event /\ v = T!Wall(x2.zone, x1.start)
        /\ x2.date = T!Day(T!Wall(x2.zone, x1.start))
        /\ x2.to = T!Hour(T!Wall(x2.zone, x1.end))
    BY <1>1, <1>3, <1>9 DEF T!Inv, T!TypeOK, T!ShowsTheEvent
  <2>2. x1.start \in Int /\ x1.end \in Int
    BY <2>1 DEF T!Event, T!Instants
  <2>3. /\ T!Day(T!Wall(x2.zone, x1.start)) = T!Day(T!Wall(x2.zone, x1.end))
        /\ ~T!NearChange(x2.zone, x1.start) /\ ~T!NearChange(x2.zone, x1.end)
    BY <1>9 DEF T!Explained
  <2>4. w = T!Wall(x2.zone, x1.end)
    BY <1>2, <1>5, <2>1, <2>2, <2>3, EventOffsets, EventWallParts
  <2>5. T!Start = x1.start /\ T!End = x1.end
    BY <1>2, <1>6, <2>1, <2>2, <2>3, <2>4, EventThereAndBack
  <2> QED
    BY <1>7, <2>1, <2>5 DEF T!Event
<1>10. x3' = FALSE
  BY <1>1, <1>9 DEF T!Inv, T!UntouchedEventsStay, T!TypeOK
<1> QED
  BY <1>1, <1>7, <1>8, <1>10 DEF T!Inv, T!TypeOK, T!UntouchedEventsStay

LEMMA EventNextInv == ASSUME T!Inv, T!Next PROVE T!Inv'
<1>1. ASSUME T!Close PROVE T!Inv'
  BY <1>1
  DEF T!Close, T!Inv, T!TypeOK, T!UntouchedEventsStay,
      T!EventsEndAfterTheyStart
<1> QED
  BY <1>1, EventOpenNewInv, EventOpenEditInv, EventTypeInv, EventSaveInv
  DEF T!Next

LEMMA EventStutterInv == ASSUME T!Inv, UNCHANGED T!vars PROVE T!Inv'
BY
DEF T!Inv, T!vars, T!TypeOK, T!UntouchedEventsStay, T!EventsEndAfterTheyStart,
    T!ShowsTheEvent

LEMMA EventInvImplies ==
  ASSUME T!Inv PROVE T!TypeOK /\ T!UntouchedEventsStay /\ T!EventsEndAfterTheyStart
BY DEF T!Inv

-----------------------------------------------------------------------------
(* Signing in.                                                             *)

LEMMA SignInAtRest ==
  /\ F!Idle \in F!Call /\ F!Idle.kind = "idle" /\ F!Idle.answer = "none"
  /\ F!Idle.email = None /\ F!Idle.mine = FALSE
BY DEF F!Idle, F!Call

LEMMA SignInInitInv == ASSUME F!Init PROVE F!Inv
<1>1. /\ x1 \in {"login", "reset"} /\ x2 = "form" /\ x3 = None
      /\ x4 = 0 /\ x5 = 0
      /\ x6 = FALSE /\ x7 = FALSE /\ x8 = FALSE
      /\ x9 = [e \in Own |-> 0] /\ x10 = [c \in Calls |-> F!Idle]
      /\ x11 = {} /\ x12 = FALSE /\ x13 = FALSE /\ x14 = FALSE
  BY DEF F!Init
<1>2. 0 \in 0..Ttl
  BY ConstantsAreSound DEF F!TtlIsPositive
<1>3. F!TypeOK
  BY <1>1, <1>2, SignInAtRest DEF F!TypeOK
<1>4. \A c \in Calls : x10[c] = F!Idle
  BY <1>1
<1>5. F!CallsAreWhole
  BY <1>4, SignInAtRest DEF F!CallsAreWhole, F!Waits
<1>6. F!ButtonsWait /\ F!CodeIsCovered
  BY <1>1 DEF F!ButtonsWait, F!CodeIsCovered
<1> QED
  BY <1>3, <1>5, <1>6 DEF F!Inv

\* A call becomes n.
LEMMA SignInGoing ==
  ASSUME F!TypeOK, NEW c \in Calls, NEW n \in F!Call, x10' = [x10 EXCEPT ![c] = n]
  PROVE  /\ x10' \in [Calls -> F!Call] /\ x10'[c] = n
         /\ \A k \in Calls : k # c => x10'[k] = x10[k]
BY DEF F!TypeOK

\* One more call is made, about the email that was typed last.
LEMMA SignInAskInv ==
  ASSUME F!Inv, NEW c \in Calls, NEW e \in Own \cup {None},
         NEW kind \in {"signIn", "register", "request", "confirm", "resend", "factor"},
         F!Ask(c, kind, e), e # None, x3' = e,
         x2 = "form" \/ (x3' = x3),
         \/ kind \in F!Waits /\ ~x6 /\ x6' = TRUE /\ UNCHANGED <<x7, x8>>
         \/ kind = "resend" /\ x7' = TRUE /\ UNCHANGED <<x6, x8>>
            /\ x3' = x3
         \/ kind = "factor" /\ x8' = TRUE /\ UNCHANGED <<x6, x7>>
            /\ x3' = x3
  PROVE  F!Inv'
<1>1. PICK n : n = [F!Idle EXCEPT !.kind = kind, !.email = e, !.mine = TRUE]
  OBVIOUS
<1>2. n = [kind |-> kind, answer |-> "none", email |-> e, mine |-> TRUE]
  <2>1. PICK a : a = [F!Idle EXCEPT !.kind = kind]
    OBVIOUS
  <2>2. a = [kind |-> kind, answer |-> "none", email |-> None, mine |-> FALSE]
    BY <2>1 DEF F!Idle
  <2>3. PICK b : b = [a EXCEPT !.email = e]
    OBVIOUS
  <2>4. b = [kind |-> kind, answer |-> "none", email |-> e, mine |-> FALSE]
    BY <2>2, <2>3
  <2>5. n = [b EXCEPT !.mine = TRUE]
    BY <1>1, <2>1, <2>3
  <2> QED
    BY <2>4, <2>5
<1>3. /\ n \in F!Call /\ n.kind = kind /\ n.answer = "none" /\ n.email = e /\ n.mine = TRUE
  BY <1>2 DEF F!Call
<1>4. /\ x10[c] = F!Idle /\ x10' = [x10 EXCEPT ![c] = n]
      /\ UNCHANGED <<x1, x2, x4, x5, x9, x11, x12, x13, x14>>
  BY <1>1 DEF F!Ask
<1>5. /\ x10' \in [Calls -> F!Call] /\ x10'[c] = n
      /\ \A k \in Calls : k # c => x10'[k] = x10[k]
  BY <1>3, <1>4, SignInGoing DEF F!Inv
<1>6. F!TypeOK'
  BY <1>4, <1>5 DEF F!Inv, F!TypeOK
<1>7. F!CallsAreWhole'
  <2>1. \A k \in Calls : x10[k].kind \in F!Waits => x6 /\ k # c
    BY <1>4, SignInAtRest DEF F!Inv, F!CallsAreWhole, F!Waits
  <2>2. x6 => x3' = x3 /\ x6'
    BY DEF F!Waits
  <2>3. kind \in F!Waits => x6' /\ ~x6
    BY DEF F!Waits
  <2>4. \A k \in Calls : /\ x10'[k].kind = "idle" => x10'[k].answer = "none"
                         /\ x10'[k].kind # "idle" => x10'[k].email # None
                         /\ x10'[k].answer = "sent" => x10'[k].email \in x11
    BY <1>3, <1>5 DEF F!Inv, F!CallsAreWhole
  <2>5. \A k \in Calls : x10'[k].kind \in F!Waits => x6' /\ x10'[k].email = x3'
    BY <1>3, <1>5, <2>1, <2>2, <2>3 DEF F!Inv, F!CallsAreWhole
  <2>6. ASSUME NEW k \in Calls, NEW d \in Calls,
               x10'[k].kind \in F!Waits, x10'[d].kind \in F!Waits
        PROVE  k = d
    <3>1. CASE kind \in F!Waits
      BY <1>5, <2>1, <2>3, <2>6, <3>1
    <3>2. CASE kind \notin F!Waits
      BY <1>3, <1>5, <2>6, <3>2 DEF F!Inv, F!CallsAreWhole
    <3> QED
      BY <3>1, <3>2
  <2> QED
    BY <1>4, <2>4, <2>5, <2>6 DEF F!CallsAreWhole
<1>8. F!ButtonsWait'
  <2>1. \A k \in Calls : x10[k].kind # "idle" => x10'[k] = x10[k]
    BY <1>4, <1>5, SignInAtRest
  <2>2. x6' => \/ x2' = "done" \/ x14' \/ \E k \in Calls : x10'[k].kind \in F!Waits
    BY <1>3, <1>4, <1>5, <2>1 DEF F!Inv, F!ButtonsWait, F!Waits
  <2>3. x7' => \E k \in Calls : x10'[k].kind = "resend"
    BY <1>3, <1>5, <2>1 DEF F!Inv, F!ButtonsWait, F!Waits
  <2>4. x8' => \/ x2' = "done" \/ x14'
               \/ \E k \in Calls : x10'[k].kind = "factor" /\ x10'[k].mine
    BY <1>3, <1>4, <1>5, <2>1 DEF F!Inv, F!ButtonsWait, F!Waits
  <2> QED
    BY <2>2, <2>3, <2>4 DEF F!ButtonsWait
<1>9. F!CodeIsCovered'
  <2>1. (\A k \in Calls : x10'[k].answer # "sent") => \A k \in Calls : x10[k].answer # "sent"
    BY <1>4, <1>5, SignInAtRest
  <2> QED
    BY <1>4, <2>1 DEF F!Inv, F!CodeIsCovered
<1> QED
  BY <1>6, <1>7, <1>8, <1>9 DEF F!Inv

LEMMA SignInUserInv ==
  ASSUME F!Inv, NEW c \in Calls,
         (\E e \in Own : F!Submit(c, e)) \/ F!Confirm(c) \/ F!Resend(c) \/ F!SubmitFactor(c)
  PROVE  F!Inv'
<1>1. ASSUME NEW e \in Own, F!Submit(c, e) PROVE F!Inv'
  <2>1. PICK kind \in {"request", "signIn", "register"} : F!Ask(c, kind, e)
    BY <1>1 DEF F!Submit
  <2>2. /\ x2 = "form" /\ ~x6 /\ x3' = e /\ x6' = TRUE
        /\ UNCHANGED <<x7, x8>>
    BY <1>1 DEF F!Submit
  <2>3. e # None
    BY ConstantsAreSound DEF F!TtlIsPositive
  <2> QED
    BY <2>1, <2>2, <2>3, SignInAskInv DEF F!Waits
<1>2. x3 \in Own \cup {None} /\ (x2 \in {"challenge", "code"} => x3 # None)
  BY DEF F!Inv, F!TypeOK, F!CodeIsCovered
<1>3. CASE F!Confirm(c)
  <2>1. /\ x2 = "code" /\ ~x6 /\ F!Ask(c, "confirm", x3) /\ x6' = TRUE
        /\ UNCHANGED <<x3, x7, x8>>
    BY <1>3 DEF F!Confirm
  <2> QED
    BY <1>2, <2>1, SignInAskInv DEF F!Waits
<1>4. CASE F!Resend(c)
  <2>1. /\ x2 = "code" /\ F!Ask(c, "resend", x3) /\ x7' = TRUE
        /\ UNCHANGED <<x3, x6, x8>>
    BY <1>4 DEF F!Resend
  <2> QED
    BY <1>2, <2>1, SignInAskInv
<1>5. CASE F!SubmitFactor(c)
  <2>1. /\ x2 = "challenge" /\ F!Ask(c, "factor", x3) /\ x8' = TRUE
        /\ UNCHANGED <<x3, x6, x7>>
    BY <1>5 DEF F!SubmitFactor
  <2> QED
    BY <1>2, <2>1, SignInAskInv
<1> QED
  BY <1>1, <1>3, <1>4, <1>5

\* The challenges that are left are no longer on the screen.
LEMMA SignInLeaveInv == ASSUME F!Inv, F!Leave PROVE F!Inv'
<1>1. /\ x2' = "form" /\ x8' = FALSE
      /\ x10' = [c \in Calls |-> IF x2 = "challenge"
                                  THEN [x10[c] EXCEPT !.mine = FALSE] ELSE x10[c]]
      /\ UNCHANGED <<x1, x3, x4, x5, x6, x7, x9, x11, x12,
                     x13, x14>>
  BY DEF F!Leave
<1>2. x10' \in [Calls -> F!Call] /\ \A c \in Calls : /\ x10'[c].kind = x10[c].kind
                                                     /\ x10'[c].answer = x10[c].answer
                                                     /\ x10'[c].email = x10[c].email
  <2>1. ASSUME NEW c \in Calls
        PROVE  x10'[c] \in F!Call /\ /\ x10'[c].kind = x10[c].kind
                                     /\ x10'[c].answer = x10[c].answer
                                     /\ x10'[c].email = x10[c].email
    <3>1. x10[c] \in F!Call
      BY DEF F!Inv, F!TypeOK
    <3>2. PICK n : n = [x10[c] EXCEPT !.mine = FALSE]
      OBVIOUS
    <3>3. n \in F!Call /\ n.kind = x10[c].kind /\ n.answer = x10[c].answer /\ n.email = x10[c].email
      BY <3>1, <3>2 DEF F!Call
    <3>4. x10'[c] = n \/ x10'[c] = x10[c]
      BY <1>1, <3>2
    <3> QED
      BY <3>1, <3>3, <3>4
  <2> QED
    BY <1>1, <2>1
<1>3. F!TypeOK'
  BY <1>1, <1>2 DEF F!Inv, F!TypeOK
<1>4. F!CallsAreWhole'
  BY <1>1, <1>2 DEF F!Inv, F!CallsAreWhole
<1>5. x2 \in {"challenge", "code"}
  BY DEF F!Leave
<1>6. F!ButtonsWait'
  BY <1>1, <1>2, <1>5 DEF F!Inv, F!ButtonsWait
<1>7. F!CodeIsCovered'
  BY <1>1 DEF F!Inv, F!CodeIsCovered
<1> QED
  BY <1>3, <1>4, <1>6, <1>7 DEF F!Inv

\* The API serves a call: a code it sends is told of by the answer.
LEMMA SignInServeInv == ASSUME F!Inv, NEW c \in Calls, F!Serve(c) PROVE F!Inv'
<1>1. PICK e : e = x10[c].email
  OBVIOUS
<1>2. PICK a \in {"session", "factor", "unverified", "sent"} :
         /\ x10' = [x10 EXCEPT ![c].answer = a]
         /\ x10[c].kind \in {"signIn", "confirm", "factor"} => a # "sent"
         /\ x10[c].kind \notin {"signIn", "confirm", "factor"} => a = "sent"
  <2>1. CASE x10[c].kind = "signIn"
    BY <2>1 DEF F!Serve
  <2>2. CASE x10[c].kind \in {"confirm", "factor"}
    BY <2>2 DEF F!Serve
  <2>3. CASE x10[c].kind \notin {"signIn", "confirm", "factor"}
    BY <2>3 DEF F!Serve
  <2> QED
    BY <2>1, <2>2, <2>3
<1>3. /\ x10[c].kind # "idle" /\ x10[c].answer = "none"
      /\ x11' = IF x10[c].kind \in {"register", "request", "resend"}
                  THEN x11 \cup {e} ELSE x11
      /\ UNCHANGED <<x1, x2, x3, x4, x5, x6, x7, x8,
                     x12, x13, x14>>
  BY <1>1 DEF F!Serve
<1>4. /\ x10[c] \in F!Call /\ e # None
  BY <1>1, <1>3 DEF F!Inv, F!TypeOK, F!CallsAreWhole
<1>5. e \in Own
  BY <1>1, <1>4 DEF F!Call
<1>6. PICK n : n = [x10[c] EXCEPT !.answer = a]
  OBVIOUS
<1>7. /\ n \in F!Call /\ n.kind = x10[c].kind /\ n.answer = a /\ n.email = e
      /\ n.mine = x10[c].mine
  BY <1>1, <1>4, <1>6 DEF F!Call
<1>8. /\ x10' \in [Calls -> F!Call] /\ x10'[c] = n
      /\ \A k \in Calls : k # c => x10'[k] = x10[k]
  <2>1. x10' = [x10 EXCEPT ![c] = n]
    BY <1>2, <1>6 DEF F!Inv, F!TypeOK
  <2> QED
    BY <1>7, <2>1, SignInGoing DEF F!Inv
<1>9. /\ x9' \in [Own -> 0..Ttl]
      /\ a # "sent" => \A f \in Own : x9'[f] = x9[f] \/ x9'[f] = 0
  <2>1. x9 \in [Own -> 0..Ttl] /\ 0 \in 0..Ttl /\ Ttl \in 0..Ttl
    BY ConstantsAreSound DEF F!Inv, F!TypeOK, F!TtlIsPositive
  <2>2. CASE x10[c].kind = "confirm"
    <3>1. x9' = [x9 EXCEPT ![e] = 0]
      BY <1>1, <2>2 DEF F!Serve
    <3> QED
      BY <2>1, <3>1
  <2>3. CASE x10[c].kind = "register"
    <3>1. x9' = [x9 EXCEPT ![e] = Ttl] /\ a = "sent"
      BY <1>1, <1>2, <2>3 DEF F!Serve
    <3> QED
      BY <2>1, <3>1
  <2>4. CASE x10[c].kind \in {"request", "resend"}
    <3>1. x9' \in {x9, [x9 EXCEPT ![e] = Ttl]} /\ a = "sent"
      BY <1>1, <1>2, <2>4 DEF F!Serve, F!MaySend
    <3> QED
      BY <2>1, <3>1
  <2>5. CASE x10[c].kind \notin {"confirm", "register", "request", "resend"}
    <3>1. x9' = x9
      BY <2>5 DEF F!Serve
    <3> QED
      BY <2>1, <3>1
  <2> QED
    BY <2>2, <2>3, <2>4, <2>5
<1>10. x11' \subseteq Own /\ x11 \subseteq x11'
  BY <1>3, <1>5 DEF F!Inv, F!TypeOK
<1>11. F!TypeOK'
  BY <1>3, <1>8, <1>9, <1>10 DEF F!Inv, F!TypeOK
<1>12. F!CallsAreWhole'
  <2>1. a = "sent" => e \in x11'
    BY <1>2, <1>3, <1>4 DEF F!Call
  <2>2. \A k \in Calls : x10'[k].kind = x10[k].kind /\ x10'[k].email = x10[k].email
    BY <1>1, <1>7, <1>8
  <2>3. \A k \in Calls : x10'[k].answer = "sent" => x10'[k].email \in x11'
    BY <1>7, <1>8, <1>10, <2>1 DEF F!Inv, F!CallsAreWhole
  <2>4. \A k \in Calls : x10'[k].kind = "idle" => x10'[k].answer = "none"
    BY <1>3, <1>8, <2>2 DEF F!Inv, F!CallsAreWhole
  <2> QED
    BY <1>3, <2>2, <2>3, <2>4 DEF F!Inv, F!CallsAreWhole
<1>13. F!ButtonsWait'
  <2>1. \A k \in Calls : x10'[k].kind = x10[k].kind /\ x10'[k].mine = x10[k].mine
    BY <1>7, <1>8
  <2> QED
    BY <1>3, <2>1 DEF F!Inv, F!ButtonsWait
<1>14. F!CodeIsCovered'
  <2>1. ASSUME x2 = "code", ~x12, \A k \in Calls : x10'[k].answer # "sent"
        PROVE  x5 >= x9'[x3]
    <3>1. a # "sent" /\ \A k \in Calls : x10[k].answer # "sent"
      BY <1>3, <1>7, <1>8, <2>1
    <3>2. x5 >= x9[x3] /\ x3 \in Own
      BY <2>1, <3>1 DEF F!Inv, F!CodeIsCovered, F!TypeOK
    <3>3. x9'[x3] = x9[x3] \/ x9'[x3] = 0
      BY <1>9, <3>1, <3>2
    <3>4. x5 \in 0..Ttl
      BY DEF F!Inv, F!TypeOK
    <3> QED
      BY <3>2, <3>3, <3>4, ConstantsAreSound DEF F!TtlIsPositive
  <2> QED
    BY <1>3, <1>10, <2>1 DEF F!Inv, F!CodeIsCovered
<1> QED
  BY <1>11, <1>12, <1>13, <1>14 DEF F!Inv

LEMMA SignInFailInv == ASSUME F!Inv, NEW c \in Calls, F!Fail(c) PROVE F!Inv'
<1>1. /\ x10[c].kind # "idle" /\ x10' = [x10 EXCEPT ![c].answer = "failed"]
      /\ UNCHANGED <<x1, x2, x3, x4, x5, x6, x7, x8,
                     x9, x11, x13, x14>>
  BY DEF F!Fail
<1>2. /\ x12' \in BOOLEAN
      /\ ~x12' => ~x12 /\ x10[c].answer # "sent"
  BY DEF F!Fail
<1>3. PICK n : n = [x10[c] EXCEPT !.answer = "failed"]
  OBVIOUS
<1>4. /\ n \in F!Call /\ n.kind = x10[c].kind /\ n.answer = "failed"
      /\ n.email = x10[c].email /\ n.mine = x10[c].mine
  BY <1>3 DEF F!Inv, F!TypeOK, F!Call
<1>5. /\ x10' \in [Calls -> F!Call] /\ x10'[c] = n
      /\ \A k \in Calls : k # c => x10'[k] = x10[k]
  <2>1. x10' = [x10 EXCEPT ![c] = n]
    BY <1>1, <1>3 DEF F!Inv, F!TypeOK
  <2> QED
    BY <1>4, <2>1, SignInGoing DEF F!Inv
<1>6. F!TypeOK'
  BY <1>1, <1>2, <1>5 DEF F!Inv, F!TypeOK
<1>7. \A k \in Calls : /\ x10'[k].kind = x10[k].kind /\ x10'[k].email = x10[k].email
                       /\ x10'[k].mine = x10[k].mine
                       /\ x10'[k].answer = "sent" => x10[k].answer = "sent"
  BY <1>4, <1>5
<1>8. F!CallsAreWhole' /\ F!ButtonsWait'
  <2>1. \A k \in Calls : x10'[k].kind = "idle" => x10'[k].answer = "none"
    BY <1>1, <1>4, <1>5 DEF F!Inv, F!CallsAreWhole
  <2> QED
    BY <1>1, <1>7, <2>1 DEF F!Inv, F!CallsAreWhole, F!ButtonsWait
<1>9. ~x12' /\ (\A k \in Calls : x10'[k].answer # "sent") =>
         \A k \in Calls : x10[k].answer # "sent"
  BY <1>2, <1>4, <1>5
<1>10. F!CodeIsCovered'
  BY <1>1, <1>2, <1>9 DEF F!Inv, F!CodeIsCovered
<1> QED
  BY <1>6, <1>8, <1>10 DEF F!Inv

LEMMA SignInTickInv == ASSUME F!Inv, F!Tick PROVE F!Inv'
<1>1. /\ x9' = [e \in Own |-> F!Less(x9[e])] /\ x5' = F!Less(x5)
      /\ UNCHANGED <<x1, x2, x3, x4, x6, x7, x8, x10,
                     x11, x12, x13, x14>>
  BY DEF F!Tick
<1>2. \A n \in 0..Ttl : F!Less(n) \in 0..Ttl /\ F!Less(n) <= n /\ (n = 0 => F!Less(n) = 0)
  BY ConstantsAreSound DEF F!Less, F!TtlIsPositive
<1>3. \A m, n \in 0..Ttl : m >= n => F!Less(m) >= F!Less(n)
  BY ConstantsAreSound DEF F!Less, F!TtlIsPositive
<1>4. x5 \in 0..Ttl /\ x9 \in [Own -> 0..Ttl]
  BY DEF F!Inv, F!TypeOK
<1>5. F!TypeOK'
  BY <1>1, <1>2, <1>4 DEF F!Inv, F!TypeOK
<1>6. F!CallsAreWhole' /\ F!ButtonsWait'
  BY <1>1 DEF F!Inv, F!CallsAreWhole, F!ButtonsWait
<1>7. x5' > 0 => x5 > 0
  BY <1>1, <1>2, <1>4, ConstantsAreSound DEF F!TtlIsPositive
<1>8. ASSUME x2 = "code", x5 >= x9[x3] PROVE x5' >= x9'[x3]
  <2>1. x3 \in Own
    BY <1>8 DEF F!Inv, F!TypeOK, F!CodeIsCovered
  <2> QED
    BY <1>1, <1>3, <1>4, <1>8, <2>1
<1>9. x4 = 0 => x5' = 0
  BY <1>1 DEF F!Inv, F!CodeIsCovered, F!Less
<1>10. F!CodeIsCovered'
  BY <1>1, <1>7, <1>8, <1>9 DEF F!Inv, F!CodeIsCovered
<1> QED
  BY <1>5, <1>6, <1>10 DEF F!Inv

\* A call ends.
LEMMA SignInEnding ==
  ASSUME F!Inv, NEW c \in Calls, x10' = [x10 EXCEPT ![c] = F!Idle]
  PROVE  /\ x10' \in [Calls -> F!Call] /\ x10'[c] = F!Idle
         /\ \A k \in Calls : k # c => x10'[k] = x10[k]
         /\ \A k \in Calls : x10'[k].kind # "idle" => k # c /\ x10'[k] = x10[k]
         /\ (\A k \in Calls : x10'[k].answer # "sent") /\ x10[c].answer # "sent" =>
               \A k \in Calls : x10[k].answer # "sent"
BY SignInGoing, SignInAtRest DEF F!Inv

\* What the page knows of its calls once call c has ended, and the button it
\* had disabled is enabled.
LEMMA SignInEndingCalls ==
  ASSUME F!Inv, NEW c \in Calls, x10' = [x10 EXCEPT ![c] = F!Idle],
         UNCHANGED <<x3, x11>>,
         x6' = x6 \/ x10[c].kind \in F!Waits
  PROVE  F!CallsAreWhole'
<1>1. /\ x10'[c] = F!Idle
      /\ \A k \in Calls : k # c => x10'[k] = x10[k]
  BY SignInEnding
<1>2. \A k \in Calls : /\ x10'[k].kind = "idle" => x10'[k].answer = "none"
                       /\ x10'[k].kind # "idle" => x10'[k].email # None
                       /\ x10'[k].answer = "sent" => x10'[k].email \in x11
  BY <1>1, SignInAtRest DEF F!Inv, F!CallsAreWhole
<1>3. \A k \in Calls : x10'[k].kind \in F!Waits => k # c /\ x10'[k] = x10[k]
  BY <1>1, SignInAtRest DEF F!Waits
<1>4. \A k \in Calls : x10'[k].kind \in F!Waits => x6' /\ x10'[k].email = x3'
  BY <1>3 DEF F!Inv, F!CallsAreWhole
<1>5. \A k, d \in Calls : x10'[k].kind \in F!Waits /\ x10'[d].kind \in F!Waits => k = d
  BY <1>3 DEF F!Inv, F!CallsAreWhole
<1> QED
  BY <1>2, <1>4, <1>5 DEF F!CallsAreWhole

\* What a login that follows the answer to call c leaves: the page, or what
\* else shows, which is not the screen for a code unless that was shown.
LEMMA SignInLoggedInInv ==
  ASSUME F!Inv, NEW c \in Calls, x10' = [x10 EXCEPT ![c] = F!Idle],
         x10[c].answer # "sent", x10[c].kind # "resend",
         NEW else \in {x2, "form"}, F!LoggedIn(else), UNCHANGED x8,
         x6' = x6 \/ (x10[c].kind \in F!Waits /\ x6' = FALSE)
  PROVE  F!Inv'
<1>1. /\ x2' = "done" \/ (x2' = else /\ x14' = TRUE)
      /\ x14' \in BOOLEAN
      /\ UNCHANGED <<x1, x3, x4, x5, x7, x9, x11, x12, x13>>
  BY DEF F!LoggedIn, F!Inv, F!TypeOK
<1>2. /\ x10' \in [Calls -> F!Call]
      /\ \A k \in Calls : k # c => x10'[k] = x10[k]
      /\ (\A k \in Calls : x10'[k].answer # "sent") => \A k \in Calls : x10[k].answer # "sent"
  BY SignInEnding
<1>3. F!TypeOK'
  BY <1>1, <1>2 DEF F!Inv, F!TypeOK
<1>4. F!CallsAreWhole'
  BY <1>1, SignInEndingCalls
<1>5. x2' = "done" \/ x14'
  BY <1>1
<1>6. \A k \in Calls : x10[k].kind = "resend" => x10'[k].kind = "resend"
  BY <1>2
<1>7. F!ButtonsWait'
  BY <1>1, <1>5, <1>6 DEF F!Inv, F!ButtonsWait
<1>8. x2' \in {"challenge", "code"} => x2' = x2
  BY <1>1
<1>9. F!CodeIsCovered'
  BY <1>1, <1>2, <1>8 DEF F!Inv, F!CodeIsCovered
<1> QED
  BY <1>3, <1>4, <1>7, <1>9 DEF F!Inv

\* Signed in, with a password or with a second factor.
LEMMA SignInSignedInInv ==
  ASSUME F!Inv, NEW c \in Calls, F!SignedIn(c) \/ F!FactorAccepted(c) PROVE F!Inv'
<1>1. /\ x10[c].kind \in {"signIn", "factor"} /\ x10[c].answer = "session"
      /\ x10' = [x10 EXCEPT ![c] = F!Idle] /\ F!LoggedIn(x2)
      /\ UNCHANGED <<x6, x8>>
  BY DEF F!SignedIn, F!FactorAccepted, F!Answered
<1> QED
  BY <1>1, SignInLoggedInInv

LEMMA SignInChallengedInv == ASSUME F!Inv, NEW c \in Calls, F!Challenged(c) PROVE F!Inv'
<1>1. /\ x10[c].kind = "signIn" /\ x10[c].answer = "factor"
      /\ x10' = [x10 EXCEPT ![c] = F!Idle]
      /\ x2' = "challenge" /\ x6' = FALSE /\ x8' = FALSE
      /\ UNCHANGED <<x1, x3, x4, x5, x7, x9, x11, x12, x13, x14>>
  BY DEF F!Challenged, F!Answered
<1>2. /\ x10' \in [Calls -> F!Call]
      /\ \A k \in Calls : k # c => x10'[k] = x10[k]
  BY <1>1, SignInEnding
<1>3. F!TypeOK'
  BY <1>1, <1>2 DEF F!Inv, F!TypeOK
<1>4. F!CallsAreWhole'
  BY <1>1, SignInEndingCalls DEF F!Waits
<1>5. \A k \in Calls : x10[k].kind = "resend" => x10'[k].kind = "resend"
  BY <1>1, <1>2
<1>6. F!ButtonsWait'
  BY <1>1, <1>5 DEF F!Inv, F!ButtonsWait
<1>7. x3 # None
  BY <1>1 DEF F!Inv, F!CallsAreWhole, F!Waits
<1>8. F!CodeIsCovered'
  BY <1>1, <1>7 DEF F!Inv, F!CodeIsCovered
<1> QED
  BY <1>3, <1>4, <1>6, <1>8 DEF F!Inv

\* The countdown is started: it lasts as long as a code, unless the seed was
\* that before.
LEMMA SignInSeededFacts ==
  ASSUME F!Inv, NEW s \in {0, Ttl}, F!Seeded(s)
  PROVE  /\ x4' \in {0, Ttl} /\ x5' \in 0..Ttl
         /\ x4' = 0 => x5' = 0
         /\ s = Ttl /\ s # x4 => x5' = Ttl
         /\ s = 0 => x5' = 0
<1>1. /\ x4 \in {0, Ttl} /\ x5 \in 0..Ttl /\ 0 \in 0..Ttl /\ Ttl \in 0..Ttl
      /\ x4 = 0 => x5 = 0
      /\ Ttl # 0
  BY ConstantsAreSound DEF F!Inv, F!TypeOK, F!CodeIsCovered, F!TtlIsPositive
<1>2. x4' = s /\ x5' = IF s = x4 THEN x5 ELSE s
  BY DEF F!Seeded
<1>3. x5' \in 0..Ttl
  BY <1>1, <1>2
<1>4. s = 0 => x5' = 0
  BY <1>1, <1>2
<1> QED
  BY <1>1, <1>2, <1>3, <1>4

LEMMA SignInCodeExpectedInv ==
  ASSUME F!Inv, x2 # "done", NEW c \in Calls, F!CodeExpected(c) PROVE F!Inv'
<1>1. PICK s : s = F!SeedOf(c)
  OBVIOUS
<1>2. /\ \/ x10[c].kind = "signIn" /\ x10[c].answer = "unverified"
         \/ x10[c].kind \in {"register", "request"} /\ x10[c].answer = "sent"
      /\ x10' = [x10 EXCEPT ![c] = F!Idle]
      /\ x2' = "code" /\ x6' = FALSE /\ F!Seeded(s) /\ x13' = FALSE
      /\ UNCHANGED <<x1, x3, x7, x8, x9, x11, x14>>
  BY <1>1 DEF F!CodeExpected, F!Answered
<1>3. /\ x12' \in BOOLEAN
      /\ ~x12' => x10[c].answer = "sent" /\ s # x4
  BY <1>1 DEF F!CodeExpected
<1>4. /\ s \in {0, Ttl}
      /\ x10[c].answer = "sent" => s = Ttl
      /\ x10[c].answer # "sent" => s = 0
  BY <1>1 DEF F!SeedOf
<1>5. /\ x4' \in {0, Ttl} /\ x5' \in 0..Ttl
      /\ x4' = 0 => x5' = 0
      /\ s = Ttl /\ s # x4 => x5' = Ttl
      /\ s = 0 => x5' = 0
  BY <1>2, <1>4, SignInSeededFacts
<1>6. /\ x10' \in [Calls -> F!Call]
      /\ \A k \in Calls : k # c => x10'[k] = x10[k]
  BY <1>2, SignInEnding
<1>7. F!TypeOK'
  BY <1>2, <1>3, <1>5, <1>6 DEF F!Inv, F!TypeOK
<1>8. F!CallsAreWhole'
  BY <1>2, SignInEndingCalls DEF F!Waits
<1>9. F!ButtonsWait'
  <2>1. \A k \in Calls : x10[k].kind \in {"resend", "factor"} => x10'[k] = x10[k]
    BY <1>2, <1>6
  <2>2. x7 => \E k \in Calls : x10'[k].kind = "resend"
    BY <2>1 DEF F!Inv, F!ButtonsWait
  <2>3. x8 /\ x2 # "done" /\ ~x14 =>
           \E k \in Calls : x10'[k].kind = "factor" /\ x10'[k].mine
    BY <2>1 DEF F!Inv, F!ButtonsWait
  <2>4. x2 # "done"
    OBVIOUS
  <2> QED
    BY <1>2, <2>2, <2>3, <2>4 DEF F!ButtonsWait
<1>10. x3 # None /\ x10[c].email = x3
  BY <1>2 DEF F!Inv, F!CallsAreWhole, F!Waits
<1>11. x10[c].answer = "sent" => x3 \in x11
  BY <1>10 DEF F!Inv, F!CallsAreWhole
<1>12. x5' > 0 => x3 \in x11
  BY <1>4, <1>5, <1>11
<1>13. ~x12' => x5' >= x9[x3]
  <2>1. x3 \in Own /\ x9[x3] \in 0..Ttl
    BY <1>10 DEF F!Inv, F!TypeOK
  <2> QED
    BY <1>3, <1>4, <1>5, <2>1, ConstantsAreSound DEF F!TtlIsPositive
<1>14. F!CodeIsCovered'
  BY <1>2, <1>5, <1>10, <1>12, <1>13 DEF F!CodeIsCovered
<1> QED
  BY <1>7, <1>8, <1>9, <1>14 DEF F!Inv

LEMMA SignInResentInv == ASSUME F!Inv, NEW c \in Calls, F!Resent(c) PROVE F!Inv'
<1>1. PICK other : other = (x2 # "code" \/ x10[c].email # x3)
  OBVIOUS
<1>2. /\ x10[c].kind = "resend" /\ x10[c].answer = "sent"
      /\ x10' = [x10 EXCEPT ![c] = F!Idle]
      /\ F!Seeded(Ttl) /\ x7' = FALSE
      /\ UNCHANGED <<x1, x2, x3, x6, x8, x9, x11, x14>>
  BY DEF F!Resent, F!Answered
<1>3. /\ x12' \in BOOLEAN /\ x13' \in BOOLEAN
      /\ ~x12' => x4 # Ttl
      /\ ~x13' => ~x13 /\ x2 = "code" /\ x10[c].email = x3
  BY DEF F!Resent
<1>4. /\ x4' \in {0, Ttl} /\ x5' \in 0..Ttl
      /\ x4' = 0 => x5' = 0
      /\ Ttl # x4 => x5' = Ttl
  BY <1>2, SignInSeededFacts
<1>5. /\ x10' \in [Calls -> F!Call]
      /\ \A k \in Calls : k # c => x10'[k] = x10[k]
  BY <1>2, SignInEnding
<1>6. F!TypeOK'
  BY <1>2, <1>3, <1>4, <1>5 DEF F!Inv, F!TypeOK
<1>7. F!CallsAreWhole'
  BY <1>2, SignInEndingCalls
<1>8. F!ButtonsWait'
  <2>1. \A k \in Calls : x10[k].kind \in F!Waits \cup {"factor"} => x10'[k] = x10[k]
    BY <1>2, <1>5 DEF F!Waits
  <2>2. x8 => \/ x14 \/ x2 = "done"
              \/ \E k \in Calls : x10'[k].kind = "factor" /\ x10'[k].mine
    BY <2>1 DEF F!Inv, F!ButtonsWait
  <2>3. x6 => \/ x2 = "done" \/ x14
              \/ \E k \in Calls : x10'[k].kind \in F!Waits
    BY <2>1 DEF F!Inv, F!ButtonsWait
  <2> QED
    BY <1>2, <2>2, <2>3 DEF F!ButtonsWait
<1>9. ~x13' => x3 \in x11
  BY <1>2, <1>3 DEF F!Inv, F!CallsAreWhole
<1>10. x2 = "code" /\ ~x12' => x5' >= x9[x3]
  <2>1. x2 = "code" => x3 \in Own /\ x9[x3] \in 0..Ttl
    BY DEF F!Inv, F!TypeOK, F!CodeIsCovered
  <2> QED
    BY <1>3, <1>4, <2>1, ConstantsAreSound DEF F!TtlIsPositive
<1>11. F!CodeIsCovered'
  BY <1>2, <1>4, <1>9, <1>10 DEF F!Inv, F!CodeIsCovered
<1> QED
  BY <1>6, <1>7, <1>8, <1>11 DEF F!Inv

LEMMA SignInConfirmedInv == ASSUME F!Inv, NEW c \in Calls, F!Confirmed(c) PROVE F!Inv'
<1>1. /\ x10[c].kind = "confirm" /\ x10[c].answer = "session"
      /\ x10' = [x10 EXCEPT ![c] = F!Idle] /\ x6' = FALSE /\ UNCHANGED x8
  BY DEF F!Confirmed, F!Answered
<1>2. CASE x1 = "login"
  <2>1. F!LoggedIn("form")
    BY <1>2 DEF F!Confirmed
  <2> QED
    BY <1>1, <2>1, SignInLoggedInInv DEF F!Waits
<1>3. CASE x1 # "login"
  <2>1. F!LoggedIn("form")
    BY <1>3 DEF F!Confirmed, F!LoggedIn
  <2> QED
    BY <1>1, <2>1, SignInLoggedInInv DEF F!Waits
<1> QED
  BY <1>2, <1>3

LEMMA SignInFailedInv == ASSUME F!Inv, NEW c \in Calls, F!Failed(c) PROVE F!Inv'
<1>1. /\ x10[c].answer = "failed" /\ x10' = [x10 EXCEPT ![c] = F!Idle]
      /\ x6' = (x6 /\ x10[c].kind \in {"resend", "factor"})
      /\ x7' = (x7 /\ x10[c].kind # "resend")
      /\ x8' = (x8 /\ ~(x10[c].kind = "factor" /\ x10[c].mine))
      /\ UNCHANGED <<x1, x2, x3, x4, x5, x9, x11, x12, x13, x14>>
  BY DEF F!Failed, F!Answered, F!Released
<1>2. /\ x10' \in [Calls -> F!Call] /\ x10'[c] = F!Idle
      /\ \A k \in Calls : k # c => x10'[k] = x10[k]
      /\ (\A k \in Calls : x10'[k].answer # "sent") => \A k \in Calls : x10[k].answer # "sent"
  BY <1>1, SignInEnding
<1>3. x6' \in BOOLEAN /\ x7' \in BOOLEAN /\ x8' \in BOOLEAN
  BY <1>1
<1>4. F!TypeOK'
  BY <1>1, <1>2, <1>3 DEF F!Inv, F!TypeOK
<1>5. F!CallsAreWhole'
  <2>1. CASE x10[c].kind \in F!Waits
    BY <1>1, <2>1, SignInEndingCalls
  <2>2. CASE x10[c].kind \in {"resend", "factor"}
    <3>1. x6' = x6
      BY <1>1, <2>2 DEF F!Inv, F!TypeOK
    <3> QED
      BY <1>1, <3>1, SignInEndingCalls
  <2>3. x10[c].kind # "idle"
    BY <1>1 DEF F!Inv, F!CallsAreWhole
  <2>4. x10[c].kind \in {"idle", "signIn", "register", "request", "confirm", "resend", "factor"}
    BY DEF F!Inv, F!TypeOK, F!Call
  <2> QED
    BY <2>1, <2>2, <2>3, <2>4 DEF F!Waits
<1>6. F!ButtonsWait'
  <2>1. x6' => \/ x2 = "done" \/ x14 \/ \E k \in Calls : x10'[k].kind \in F!Waits
    <3>1. ASSUME x6' PROVE \A k \in Calls : x10[k].kind \in F!Waits => x10'[k] = x10[k]
      BY <1>1, <1>2, <3>1 DEF F!Waits
    <3> QED
      BY <1>1, <3>1 DEF F!Inv, F!ButtonsWait
  <2>2. x7' => \E k \in Calls : x10'[k].kind = "resend"
    BY <1>1, <1>2 DEF F!Inv, F!ButtonsWait
  <2>3. x8' => \/ x2 = "done" \/ x14
               \/ \E k \in Calls : x10'[k].kind = "factor" /\ x10'[k].mine
    BY <1>1, <1>2 DEF F!Inv, F!ButtonsWait
  <2> QED
    BY <1>1, <2>1, <2>2, <2>3 DEF F!ButtonsWait
<1>7. F!CodeIsCovered'
  BY <1>1, <1>2 DEF F!Inv, F!CodeIsCovered
<1> QED
  BY <1>4, <1>5, <1>6, <1>7 DEF F!Inv

LEMMA SignInNextInv == ASSUME F!Inv, F!Next PROVE F!Inv'
<1>1. ASSUME NEW c \in Calls,
             \/ \E e \in Own : F!Submit(c, e)
             \/ F!Confirm(c) \/ F!Resend(c) \/ F!SubmitFactor(c) \/ F!Serve(c)
             \/ F!Fail(c) \/ F!SignedIn(c) \/ F!FactorAccepted(c) \/ F!Challenged(c)
             \/ F!CodeExpected(c) \/ F!Resent(c) \/ F!Confirmed(c) \/ F!Failed(c)
      PROVE  x2 # "done" => F!Inv'
  <2> HAVE x2 # "done"
  <2>1. CASE \/ \E e \in Own : F!Submit(c, e)
             \/ F!Confirm(c) \/ F!Resend(c) \/ F!SubmitFactor(c)
    BY <2>1, SignInUserInv
  <2>2. CASE F!Serve(c) \/ F!Fail(c)
    BY <2>2, SignInServeInv, SignInFailInv
  <2>3. CASE F!SignedIn(c) \/ F!FactorAccepted(c) \/ F!Challenged(c)
    BY <2>3, SignInSignedInInv, SignInChallengedInv
  <2>4. CASE F!CodeExpected(c) \/ F!Resent(c) \/ F!Confirmed(c) \/ F!Failed(c)
    BY <2>4, SignInCodeExpectedInv, SignInResentInv, SignInConfirmedInv,
       SignInFailedInv
  <2> QED
    BY <1>1, <2>1, <2>2, <2>3, <2>4
<1> QED
  BY <1>1, SignInLeaveInv, SignInTickInv DEF F!Next

LEMMA SignInStutterInv == ASSUME F!Inv, UNCHANGED F!vars PROVE F!Inv'
<1>1. /\ UNCHANGED <<x1, x2, x3, x4, x5, x6, x7, x8>>
      /\ UNCHANGED <<x9, x10, x11, x12, x13, x14>>
  BY DEF F!vars
<1>2. F!TypeOK'
  BY <1>1 DEF F!Inv, F!TypeOK
<1> QED
  BY <1>1, <1>2 DEF F!Inv, F!CallsAreWhole, F!ButtonsWait, F!CodeIsCovered

LEMMA SignInInvImplies ==
  ASSUME F!Inv PROVE F!TypeOK /\ F!CountdownIsTheCodes /\ F!ButtonsComeBack
<1>1. F!Quiet => \A c \in Calls : x10[c].kind = "idle" /\ x10[c].answer = "none"
  BY SignInAtRest DEF F!Quiet
<1>2. F!ButtonsComeBack
  BY <1>1 DEF F!Inv, F!ButtonsWait, F!ButtonsComeBack, F!Waits
<1>3. F!CountdownIsTheCodes
  BY <1>1 DEF F!Inv, F!CodeIsCovered, F!CountdownIsTheCodes
<1> QED
  BY <1>2, <1>3 DEF F!Inv

-----------------------------------------------------------------------------
(* Printed codes.                                                          *)

\* No call has begun at the start.
LEMMA CodeInitInv == ASSUME Q!Init PROVE Q!Inv
<1>1. Q!TypeOK
  BY ConstantsAreSound, SameSets
  DEF Q!OwnersAreSound, Q!BoundsAreSound, Q!Init, Q!TypeOK, Q!Job, Q!Idle
<1>2. \A c \in Own : Q!Recording(c) = {}
  BY DEF Q!Init, Q!Recording, Q!Idle
<1>3. \A c \in Own : Cardinality(Q!Recording(c)) = 0
  BY <1>2, FS_EmptySet
<1>4. Q!VisitsAddUp /\ Q!VisitsAreRecorded
  BY <1>3, SameSets DEF Q!Init, Q!VisitsAddUp, Q!VisitsAreRecorded
<1>5. Q!CallsAreWhole /\ Q!WritersAreOwners /\ Q!SlugsAreUnique /\ Q!LedToTheOwner
  BY
  DEF Q!Init, Q!CallsAreWhole, Q!WritersAreOwners, Q!SlugsAreUnique,
      Q!LedToTheOwner, Q!Of, Q!Idle
<1> QED
  BY <1>1, <1>4, <1>5 DEF Q!Inv

\* What becomes of the calls when one goes on to n.
LEMMA CodeGoing ==
  ASSUME Q!TypeOK, NEW h \in Calls, NEW n \in Q!Job, x5' = [x5 EXCEPT ![h] = n]
  PROVE  /\ x5' \in [Calls -> Q!Job] /\ x5'[h] = n
         /\ \A k \in Calls : k # h => x5'[k] = x5[k]
BY DEF Q!TypeOK

\* The recordings of a code are finitely many.
LEMMA CodeCountable ==
  ASSUME NEW c
  PROVE  IsFiniteSet(Q!Recording(c)) /\ Cardinality(Q!Recording(c)) \in Nat
<1>1. Q!Recording(c) \subseteq Calls
  BY DEF Q!Recording
<1> QED
  BY <1>1, FS_Subset, FS_CardinalityType, ConstantsAreSound, SameSets
  DEF Q!BoundsAreSound

\* Those of one more or one less are counted so.
LEMMA CodeCounting ==
  ASSUME Q!TypeOK, NEW h \in Calls, NEW n \in Q!Job,
         x5' = [x5 EXCEPT ![h] = n], NEW c
  PROVE  /\ Cardinality(Q!Recording(c)) \in Nat
         /\ n.pc = "record" /\ n.id = c /\ ~(x5[h].pc = "record" /\ x5[h].id = c) =>
               Cardinality(Q!Recording(c)') = Cardinality(Q!Recording(c)) + 1
         /\ ~(n.pc = "record" /\ n.id = c) /\ x5[h].pc = "record" /\ x5[h].id = c =>
               /\ Cardinality(Q!Recording(c)') = Cardinality(Q!Recording(c)) - 1
               /\ Cardinality(Q!Recording(c)) > 0
         /\ (n.pc = "record" /\ n.id = c <=> x5[h].pc = "record" /\ x5[h].id = c) =>
               Cardinality(Q!Recording(c)') = Cardinality(Q!Recording(c))
<1>1. /\ x5'[h] = n
      /\ \A k \in Calls : k # h => x5'[k] = x5[k]
  BY CodeGoing
<1>2. IsFiniteSet(Q!Recording(c)) /\ Cardinality(Q!Recording(c)) \in Nat
  BY CodeCountable
<1>3. ASSUME n.pc = "record", n.id = c, ~(x5[h].pc = "record" /\ x5[h].id = c)
      PROVE  Cardinality(Q!Recording(c)') = Cardinality(Q!Recording(c)) + 1
  <2>1. Q!Recording(c)' = Q!Recording(c) \cup {h} /\ h \notin Q!Recording(c)
    BY <1>1, <1>3 DEF Q!Recording
  <2> QED
    BY <1>2, <2>1, FS_AddElement
<1>4. ASSUME ~(n.pc = "record" /\ n.id = c), x5[h].pc = "record", x5[h].id = c
      PROVE  /\ Cardinality(Q!Recording(c)') = Cardinality(Q!Recording(c)) - 1
             /\ Cardinality(Q!Recording(c)) > 0
  <2>1. Q!Recording(c)' = Q!Recording(c) \ {h} /\ h \in Q!Recording(c)
    BY <1>1, <1>4 DEF Q!Recording
  <2>2. Cardinality(Q!Recording(c)) # 0
    BY <1>2, <2>1, FS_EmptySet
  <2>3. Cardinality(Q!Recording(c) \ {h}) = Cardinality(Q!Recording(c)) - 1
    BY <1>2, <2>1, FS_RemoveElement
  <2>4. Cardinality(Q!Recording(c)) > 0
    BY <1>2, <2>2
  <2> QED
    BY <2>1, <2>3, <2>4
<1>5. ASSUME n.pc = "record" /\ n.id = c <=> x5[h].pc = "record" /\ x5[h].id = c
      PROVE  Cardinality(Q!Recording(c)') = Cardinality(Q!Recording(c))
  <2>1. Q!Recording(c)' = Q!Recording(c)
    BY <1>1, <1>5 DEF Q!Recording
  <2> QED
    BY <2>1
<1> QED
  BY <1>2, <1>3, <1>4, <1>5

\* A call that begins and is not to record, with nothing written.
LEMMA CodeBeginInv ==
  ASSUME Q!Inv, NEW h \in Calls, NEW n \in Q!Job, x5[h].pc # "record",
         x5' = [x5 EXCEPT ![h] = n],
         UNCHANGED <<x1, x2, x3, x4, x6, x7, x8, x9>>,
         n.pc \in {"insert", "update", "remove"},
         n.pc = "insert" => n.who \in Q!Owners /\ n.slug \in Drafts,
         n.pc # "insert" => n.id \in x2 /\ n.who \in Q!Owners
                            /\ x1[n.id] # None /\ x1[n.id].owner = n.who
  PROVE  Q!Inv'
<1>1. /\ x5' \in [Calls -> Q!Job] /\ x5'[h] = n
      /\ \A k \in Calls : k # h => x5'[k] = x5[k]
  BY CodeGoing DEF Q!Inv
<1>2. \A c \in Own : Cardinality(Q!Recording(c)') = Cardinality(Q!Recording(c))
  BY CodeCounting DEF Q!Inv
<1>3. Q!TypeOK'
  BY <1>1 DEF Q!Inv, Q!TypeOK
<1>4. Q!CallsAreWhole' /\ Q!WritersAreOwners'
  BY <1>1 DEF Q!Inv, Q!CallsAreWhole, Q!WritersAreOwners
<1>5. Q!SlugsAreUnique' /\ Q!LedToTheOwner'
  BY DEF Q!Inv, Q!SlugsAreUnique, Q!LedToTheOwner, Q!Of
<1>6. Q!VisitsAddUp' /\ Q!VisitsAreRecorded'
  BY <1>2, SameSets DEF Q!Inv, Q!VisitsAddUp, Q!VisitsAreRecorded
<1> QED
  BY <1>3, <1>4, <1>5, <1>6 DEF Q!Inv

\* A slug that is drawn has no code.
LEMMA CodeDrawSlugInv ==
  ASSUME Q!Inv, NEW h \in Calls,
         NEW who \in Q!Owners, NEW s \in Drafts, Q!DrawSlug(h, who, s)
  PROVE  Q!Inv'
<1>1. PICK n : n = [pc |-> "insert", who |-> who, slug |-> s, id |-> None]
  OBVIOUS
<1>2. /\ n \in Q!Job /\ x5' = [x5 EXCEPT ![h] = n]
      /\ x5[h].pc # "record"
      /\ n.pc = "insert" /\ n.who = who /\ n.slug = s
      /\ UNCHANGED <<x1, x2, x3, x4, x6, x7, x8, x9>>
  BY <1>1, ConstantsAreSound
  DEF Q!DrawSlug, Q!Begin, Q!Job, Q!Idle, Q!OwnersAreSound
<1> QED
  BY <1>2, CodeBeginInv

\* A code that is found is its owner's.
LEMMA CodeFindInv ==
  ASSUME Q!Inv, NEW h \in Calls,
         NEW pc \in {"update", "remove"}, NEW who \in Q!Owners, NEW c \in Own,
         Q!Find(h, pc, who, c)
  PROVE  Q!Inv'
<1>1. PICK n : n = [pc |-> pc, who |-> who, slug |-> None, id |-> c]
  OBVIOUS
<1>2. /\ n \in Q!Job /\ x5' = [x5 EXCEPT ![h] = n] /\ x5[h].pc # "record"
      /\ n.pc = pc /\ n.who = who /\ n.id = c
      /\ x1[c] # None /\ x1[c].owner = who
      /\ UNCHANGED <<x1, x2, x3, x4, x6, x7, x8, x9>>
  BY <1>1 DEF Q!Find, Q!Begin, Q!Owned, Q!Job, Q!Idle
<1>3. c \in x2
  BY <1>2 DEF Q!Inv, Q!WritersAreOwners
<1> QED
  BY <1>2, <1>3, CodeBeginInv

\* A call that ends and does not record.
LEMMA CodeEnding ==
  ASSUME Q!Inv, NEW h \in Calls, Q!End(h), x5[h].pc # "record"
  PROVE  /\ x5' \in [Calls -> Q!Job] /\ x5'[h] = Q!Idle
         /\ \A k \in Calls : k # h => x5'[k] = x5[k]
         /\ \A c \in Own : Cardinality(Q!Recording(c)') = Cardinality(Q!Recording(c))
         /\ \A c \in Own : Cardinality(Q!Recording(c)) \in Nat
<1>1. Q!Idle \in Q!Job /\ Q!Idle.pc # "record"
  BY DEF Q!Idle, Q!Job
<1>2. Q!TypeOK /\ x5' = [x5 EXCEPT ![h] = Q!Idle]
  BY DEF Q!Inv, Q!End
<1>3. \A c \in Own : /\ Cardinality(Q!Recording(c)') = Cardinality(Q!Recording(c))
                     /\ Cardinality(Q!Recording(c)) \in Nat
  BY <1>1, <1>2, CodeCounting
<1> QED
  BY <1>1, <1>2, <1>3, CodeGoing

\* The slug is free when the code is inserted, whatever was drawn.
LEMMA CodeInsertInv ==
  ASSUME Q!Inv, NEW h \in Calls, Q!Insert(h)
  PROVE  Q!Inv'
<1>1. /\ x5' \in [Calls -> Q!Job] /\ x5'[h] = Q!Idle
      /\ \A k \in Calls : k # h => x5'[k] = x5[k]
      /\ \A c \in Own : Cardinality(Q!Recording(c)') = Cardinality(Q!Recording(c))
      /\ \A c \in Own : Cardinality(Q!Recording(c)) \in Nat
  BY CodeEnding DEF Q!Insert
<1>2. UNCHANGED <<x3, x4, x6, x7, x8, x9>>
  BY DEF Q!Insert
<1>3. Q!Idle.pc = "idle"
  BY DEF Q!Idle
<1>4. CASE UNCHANGED <<x1, x2>>
  <2>1. Q!TypeOK' /\ Q!CallsAreWhole' /\ Q!WritersAreOwners'
    BY <1>1, <1>2, <1>3, <1>4
    DEF Q!Inv, Q!TypeOK, Q!CallsAreWhole, Q!WritersAreOwners
  <2>2. Q!SlugsAreUnique' /\ Q!LedToTheOwner'
    BY <1>2, <1>4 DEF Q!Inv, Q!SlugsAreUnique, Q!LedToTheOwner, Q!Of
  <2>3. Q!VisitsAddUp' /\ Q!VisitsAreRecorded'
    BY <1>1, <1>2, <1>4, SameSets DEF Q!Inv, Q!VisitsAddUp, Q!VisitsAreRecorded
  <2> QED
    BY <2>1, <2>2, <2>3 DEF Q!Inv
<1>5. ASSUME Q!Of(x5[h].slug) = {}, NEW c \in Own \ x2, NEW expires \in BOOLEAN,
             x1' = [x1 EXCEPT ![c] =
                         [slug |-> x5[h].slug, owner |-> x5[h].who,
                          to |-> x5[h].who, active |-> TRUE, expires |-> expires]],
             x2' = x2 \cup {c}
      PROVE  Q!Inv'
  <2>1. PICK n : n = [slug |-> x5[h].slug, owner |-> x5[h].who, to |-> x5[h].who,
                      active |-> TRUE, expires |-> expires]
    OBVIOUS
  <2>2. x5[h].slug \in Drafts /\ x5[h].who \in Q!Owners
    BY DEF Q!Insert, Q!Inv, Q!CallsAreWhole, Q!TypeOK, Q!Job
  <2>3. /\ n \in Q!Code /\ n # None /\ n.slug = x5[h].slug /\ n.owner = n.to
        /\ x1' = [x1 EXCEPT ![c] = n]
    <3>1. n \in Q!Code
      BY <2>1, <2>2 DEF Q!Code
    <3>2. n.slug = x5[h].slug /\ n.owner = n.to
      BY <2>1
    <3> QED
      BY <1>5, <2>1, <3>1, <3>2, ConstantsAreSound DEF Q!NoneIsNoCode
  <2>4. /\ x1' \in [Own -> Q!Code \cup {None}] /\ x1'[c] = n
        /\ \A d \in Own : d # c => x1'[d] = x1[d]
    BY <2>3 DEF Q!Inv, Q!TypeOK
  <2>5. Q!TypeOK'
    BY <1>1, <1>2, <1>5, <2>4 DEF Q!Inv, Q!TypeOK
  <2>6. Q!CallsAreWhole'
    BY <1>1, <1>3, <1>5 DEF Q!Inv, Q!CallsAreWhole
  <2>7. Q!WritersAreOwners'
    <3>1. \A d \in Own : x1'[d] # None => d \in x2' /\ x1'[d].to = x1'[d].owner
      BY <1>5, <2>3, <2>4 DEF Q!Inv, Q!WritersAreOwners
    <3>2. \A k \in Calls : x5[k].pc = "update" => x5[k].id \in x2 /\ x5[k].id \in Own
      BY DEF Q!Inv, Q!CallsAreWhole, Q!TypeOK
    <3>3. \A k \in Calls : x5'[k].pc = "update" /\ x1'[x5'[k].id] # None =>
             x5'[k].who = x1'[x5'[k].id].owner
      BY <1>1, <1>3, <1>5, <2>4, <3>2 DEF Q!Inv, Q!WritersAreOwners
    <3> QED
      BY <3>1, <3>3 DEF Q!WritersAreOwners
  <2>8. \A s \in Drafts : Q!Of(s)' = IF s = n.slug THEN {c} ELSE Q!Of(s)
    <3>1. x1[c] = None
      BY <1>5 DEF Q!Inv, Q!WritersAreOwners
    <3>2. ASSUME NEW s \in Drafts, s = n.slug PROVE Q!Of(s)' = {c}
      <4>1. \A d \in Own : x1[d] = None \/ x1[d].slug # s
        BY <1>5, <2>3, <3>2 DEF Q!Of
      <4>2. \A d \in Own : x1'[d] # None /\ x1'[d].slug = s <=> d = c
        BY <2>3, <2>4, <3>2, <4>1
      <4> QED
        BY <1>5, <4>2 DEF Q!Of
    <3>3. ASSUME NEW s \in Drafts, s # n.slug PROVE Q!Of(s)' = Q!Of(s)
      BY <2>4, <3>1, <3>3 DEF Q!Of
    <3> QED
      BY <3>2, <3>3
  <2>9. Q!SlugsAreUnique'
    BY <2>8 DEF Q!Inv, Q!SlugsAreUnique
  <2>10. Q!LedToTheOwner'
    <3>1. \A s \in Drafts : s \notin x9 /\ s = n.slug => x8[s] = {}
      BY <1>5, <2>3 DEF Q!Inv, Q!LedToTheOwner
    <3>2. \A s \in Drafts : \A d \in Q!Of(s) : x1'[d] = x1[d]
      BY <1>5, <2>4 DEF Q!Of, Q!Inv, Q!WritersAreOwners
    <3> QED
      BY <1>2, <2>8, <3>1, <3>2 DEF Q!Inv, Q!LedToTheOwner
  <2>11. x4[c] = 0 /\ x6[c] = 0 /\ x7[c] = 0 /\ Cardinality(Q!Recording(c)) = 0
    <3>1. x4[c] \in Nat /\ x6[c] \in Nat /\ x7[c] \in Nat
          /\ Cardinality(Q!Recording(c)) \in Nat
      BY <1>1, ConstantsAreSound, SameSets
      DEF Q!Inv, Q!TypeOK, Q!BoundsAreSound
    <3> QED
      BY <1>5, <3>1, SameSets DEF Q!Inv, Q!VisitsAddUp
  <2>12. Q!VisitsAddUp'
    BY <1>1, <1>2, <1>5, <2>4, <2>11, SameSets DEF Q!Inv, Q!VisitsAddUp
  <2>13. Q!VisitsAreRecorded'
    BY <1>1, <1>2, <2>4, <2>11, SameSets DEF Q!Inv, Q!VisitsAreRecorded
  <2> QED
    BY <2>5, <2>6, <2>7, <2>9, <2>10, <2>12, <2>13 DEF Q!Inv
<1> QED
  BY <1>4, <1>5 DEF Q!Insert, Q!Free

\* Only its owner writes to a code, and sets a destination of its own.
LEMMA CodeUpdateInv ==
  ASSUME Q!Inv, NEW h \in Calls, Q!Update(h)
  PROVE  Q!Inv'
<1>1. /\ x5' \in [Calls -> Q!Job] /\ x5'[h] = Q!Idle
      /\ \A k \in Calls : k # h => x5'[k] = x5[k]
      /\ \A c \in Own : Cardinality(Q!Recording(c)') = Cardinality(Q!Recording(c))
      /\ \A c \in Own : Cardinality(Q!Recording(c)) \in Nat
  BY CodeEnding DEF Q!Update
<1>2. UNCHANGED <<x2, x3, x4, x6, x7, x8, x9>>
  BY DEF Q!Update
<1>3. Q!Idle.pc = "idle" /\ x5[h].id \in Own
  BY DEF Q!Idle, Q!Update, Q!Inv, Q!CallsAreWhole, Q!TypeOK
<1>4. /\ x1' \in [Own -> Q!Code \cup {None}]
      /\ \A c \in Own : x1[c] = None <=> x1'[c] = None
      /\ \A c \in Own : x1[c] # None => /\ x1'[c].slug = x1[c].slug
                                        /\ x1'[c].owner = x1[c].owner
                                        /\ x1'[c].to = x1'[c].owner
  <2>1. CASE x1' = x1
    BY <2>1 DEF Q!Inv, Q!TypeOK, Q!WritersAreOwners
  <2>2. ASSUME x1[x5[h].id] # None, NEW active \in BOOLEAN, NEW expires \in BOOLEAN,
               NEW to \in {x1[x5[h].id].to, x5[h].who},
               x1' = [x1 EXCEPT ![x5[h].id].active = active,
                             ![x5[h].id].expires = expires, ![x5[h].id].to = to]
        PROVE  /\ x1' \in [Own -> Q!Code \cup {None}]
               /\ \A d \in Own : x1[d] = None <=> x1'[d] = None
               /\ \A d \in Own : x1[d] # None => /\ x1'[d].slug = x1[d].slug
                                                 /\ x1'[d].owner = x1[d].owner
                                                 /\ x1'[d].to = x1'[d].owner
    <3> DEFINE c == x5[h].id
    <3>1. x1[c] \in Q!Code /\ to = x1[c].owner /\ x1[c].owner \in Q!Owners
      BY <1>3, <2>2 DEF Q!Inv, Q!TypeOK, Q!WritersAreOwners, Q!Update, Q!Code
    <3>2. PICK n : n = [slug |-> x1[c].slug, owner |-> x1[c].owner, to |-> to,
                        active |-> active, expires |-> expires]
      OBVIOUS
    <3>3. n \in Q!Code /\ n # None
      BY <3>1, <3>2, ConstantsAreSound DEF Q!Code, Q!NoneIsNoCode
    <3>4. PICK a : a = [x1[c] EXCEPT !.active = active]
      OBVIOUS
    <3>5. a = [slug |-> x1[c].slug, owner |-> x1[c].owner, to |-> x1[c].to,
               active |-> active, expires |-> x1[c].expires]
      BY <3>1, <3>4 DEF Q!Code
    <3>6. PICK b : b = [a EXCEPT !.expires = expires]
      OBVIOUS
    <3>7. b = [slug |-> x1[c].slug, owner |-> x1[c].owner, to |-> x1[c].to,
               active |-> active, expires |-> expires]
      BY <3>5, <3>6
    <3>8. n = [b EXCEPT !.to = to]
      BY <3>2, <3>7
    <3>9. x1' = [x1 EXCEPT ![c] = n]
      <4>1. x1' = [x1 EXCEPT ![c] = [[[x1[c] EXCEPT !.active = active]
                                             EXCEPT !.expires = expires] EXCEPT !.to = to]]
        BY <1>3, <2>2 DEF Q!Inv, Q!TypeOK
      <4> QED
        BY <3>4, <3>6, <3>8, <4>1
    <3>10. /\ x1' \in [Own -> Q!Code \cup {None}] /\ x1'[c] = n
           /\ \A d \in Own : d # c => x1'[d] = x1[d]
      BY <1>3, <3>3, <3>9 DEF Q!Inv, Q!TypeOK
    <3>11. n.slug = x1[c].slug /\ n.owner = x1[c].owner /\ n.to = n.owner
      BY <3>1, <3>2
    <3>12. \A d \in Own : x1[d] # None => x1[d].to = x1[d].owner
      BY DEF Q!Inv, Q!WritersAreOwners
    <3> QED
      BY <2>2, <3>3, <3>10, <3>11, <3>12
  <2> QED
    BY <2>1, <2>2 DEF Q!Update
<1>5. Q!TypeOK' /\ Q!CallsAreWhole'
  BY <1>1, <1>2, <1>3, <1>4 DEF Q!Inv, Q!TypeOK, Q!CallsAreWhole
<1>6. Q!WritersAreOwners'
  <2>1. \A k \in Calls : x5[k].pc = "update" => x5[k].id \in Own
    BY DEF Q!Inv, Q!CallsAreWhole, Q!TypeOK
  <2> QED
    BY <1>1, <1>2, <1>3, <1>4, <2>1 DEF Q!Inv, Q!WritersAreOwners
<1>7. \A s \in Drafts : Q!Of(s)' = Q!Of(s)
  BY <1>4 DEF Q!Of
<1>8. Q!SlugsAreUnique' /\ Q!LedToTheOwner'
  BY <1>2, <1>4, <1>7 DEF Q!Inv, Q!SlugsAreUnique, Q!LedToTheOwner, Q!Of
<1>9. Q!VisitsAddUp' /\ Q!VisitsAreRecorded'
  BY <1>1, <1>2, <1>4, SameSets DEF Q!Inv, Q!VisitsAddUp, Q!VisitsAreRecorded
<1> QED
  BY <1>5, <1>6, <1>8, <1>9 DEF Q!Inv

\* What is gone is no one's, and its slug is free.
LEMMA CodeRemoveInv ==
  ASSUME Q!Inv, NEW h \in Calls, Q!Remove(h)
  PROVE  Q!Inv'
<1>1. /\ x5' \in [Calls -> Q!Job] /\ x5'[h] = Q!Idle
      /\ \A k \in Calls : k # h => x5'[k] = x5[k]
      /\ \A c \in Own : Cardinality(Q!Recording(c)') = Cardinality(Q!Recording(c))
      /\ \A c \in Own : Cardinality(Q!Recording(c)) \in Nat
  BY CodeEnding DEF Q!Remove
<1>2. UNCHANGED <<x2, x3, x6, x7, x8>>
  BY DEF Q!Remove
<1>3. Q!Idle.pc = "idle" /\ x5[h].id \in Own
  BY DEF Q!Idle, Q!Remove, Q!Inv, Q!CallsAreWhole, Q!TypeOK
<1>4. CASE UNCHANGED <<x1, x4, x9>>
  <2>1. Q!TypeOK' /\ Q!CallsAreWhole' /\ Q!WritersAreOwners'
    BY <1>1, <1>2, <1>3, <1>4
    DEF Q!Inv, Q!TypeOK, Q!CallsAreWhole, Q!WritersAreOwners
  <2>2. Q!SlugsAreUnique' /\ Q!LedToTheOwner'
    BY <1>2, <1>4 DEF Q!Inv, Q!SlugsAreUnique, Q!LedToTheOwner, Q!Of
  <2>3. Q!VisitsAddUp' /\ Q!VisitsAreRecorded'
    BY <1>1, <1>2, <1>4, SameSets DEF Q!Inv, Q!VisitsAddUp, Q!VisitsAreRecorded
  <2> QED
    BY <2>1, <2>2, <2>3 DEF Q!Inv
<1>5. ASSUME x1[x5[h].id] # None, x1' = [x1 EXCEPT ![x5[h].id] = None],
             x4' = [x4 EXCEPT ![x5[h].id] = 0],
             x9' = x9 \cup {x1[x5[h].id].slug}
      PROVE  Q!Inv'
  <2> DEFINE c == x5[h].id
  <2>1. /\ x1' \in [Own -> Q!Code \cup {None}] /\ x1'[c] = None
        /\ \A d \in Own : d # c => x1'[d] = x1[d]
        /\ x4' \in [Own -> 0..Most] /\ x4'[c] = 0
        /\ \A d \in Own : d # c => x4'[d] = x4[d]
        /\ x1[c].slug \in Drafts
    BY <1>3, <1>5, ConstantsAreSound, SameSets
    DEF Q!Inv, Q!TypeOK, Q!BoundsAreSound, Q!Code
  <2>2. Q!TypeOK'
    BY <1>1, <1>2, <1>5, <2>1 DEF Q!Inv, Q!TypeOK
  <2>3. Q!CallsAreWhole'
    BY <1>1, <1>2, <1>3 DEF Q!Inv, Q!CallsAreWhole
  <2>4. Q!WritersAreOwners'
    <3>1. \A k \in Calls : x5[k].pc = "update" => x5[k].id \in Own
      BY DEF Q!Inv, Q!CallsAreWhole, Q!TypeOK
    <3> QED
      BY <1>1, <1>2, <1>3, <2>1, <3>1 DEF Q!Inv, Q!WritersAreOwners
  <2>5. \A s \in Drafts : Q!Of(s)' = Q!Of(s) \ {c}
    BY <1>3, <2>1 DEF Q!Of
  <2>6. Q!SlugsAreUnique'
    BY <2>5 DEF Q!Inv, Q!SlugsAreUnique
  <2>7. Q!LedToTheOwner'
    <3>1. \A s \in Drafts : s # x1[c].slug => c \notin Q!Of(s)
      BY DEF Q!Of
    <3>2. \A s \in Drafts : \A d \in Q!Of(s) \ {c} : x1'[d] = x1[d]
      BY <2>1 DEF Q!Of
    <3> QED
      BY <1>2, <1>5, <2>5, <3>1, <3>2 DEF Q!Inv, Q!LedToTheOwner
  <2>8. \A d \in Own : /\ x4[d] \in Nat /\ x7[d] \in Nat /\ x6[d] \in Nat
    BY ConstantsAreSound, SameSets DEF Q!Inv, Q!TypeOK, Q!BoundsAreSound
  <2>9. Q!VisitsAddUp' /\ Q!VisitsAreRecorded'
    BY <1>1, <1>2, <1>3, <2>1, <2>8, SameSets
    DEF Q!Inv, Q!VisitsAddUp, Q!VisitsAreRecorded
  <2> QED
    BY <2>2, <2>3, <2>4, <2>6, <2>7, <2>9 DEF Q!Inv
<1> QED
  BY <1>4, <1>5 DEF Q!Remove

\* A visit is led to where the owner of the code wants it.
LEMMA CodeVisitInv ==
  ASSUME Q!Inv, NEW h \in Calls,
         NEW s \in Drafts, Q!Visit(h, s)
  PROVE  Q!Inv'
<1>1. PICK c \in Q!Of(s) :
         /\ x6[c] < Most /\ Q!Begin(h, "record", None, None, c)
         /\ x6' = [x6 EXCEPT ![c] = @ + 1]
         /\ x8' = [x8 EXCEPT ![s] = @ \cup {x1[c].to}]
         /\ UNCHANGED <<x1, x2, x3, x4, x7, x9>>
  BY DEF Q!Visit
<1>2. PICK n : n = [pc |-> "record", who |-> None, slug |-> None, id |-> c]
  OBVIOUS
<1>3. c \in Own /\ x1[c] # None /\ x1[c] \in Q!Code /\ c \in x2
      /\ x1[c].to = x1[c].owner /\ x1[c].to \in Q!Owners
  BY <1>1 DEF Q!Of, Q!Inv, Q!TypeOK, Q!WritersAreOwners, Q!Code
<1>4. n \in Q!Job /\ x5' = [x5 EXCEPT ![h] = n] /\ x5[h].pc = "idle"
      /\ n.pc = "record" /\ n.id = c
  BY <1>1, <1>2, <1>3 DEF Q!Begin, Q!Job, Q!Idle
<1>5. /\ x5' \in [Calls -> Q!Job] /\ x5'[h] = n
      /\ \A k \in Calls : k # h => x5'[k] = x5[k]
  BY <1>4, CodeGoing DEF Q!Inv
<1>6. /\ Cardinality(Q!Recording(c)') = Cardinality(Q!Recording(c)) + 1
      /\ \A d \in Own : d # c => Cardinality(Q!Recording(d)') = Cardinality(Q!Recording(d))
      /\ \A d \in Own : Cardinality(Q!Recording(d)) \in Nat
  BY <1>3, <1>4, CodeCounting DEF Q!Inv
<1>7. /\ x6' \in [Own -> 0..Most] /\ x6'[c] = x6[c] + 1
      /\ \A d \in Own : d # c => x6'[d] = x6[d]
      /\ \A d \in Own : x4[d] \in Nat /\ x7[d] \in Nat /\ x6[d] \in Nat
  BY <1>1, <1>3, ConstantsAreSound, SameSets
  DEF Q!Inv, Q!TypeOK, Q!BoundsAreSound
<1>8. /\ x8' \in [Drafts -> SUBSET Q!Owners] /\ x8'[s] = x8[s] \cup {x1[c].owner}
      /\ \A z \in Drafts : z # s => x8'[z] = x8[z]
  BY <1>1, <1>3 DEF Q!Inv, Q!TypeOK
<1>9. Q!TypeOK'
  BY <1>1, <1>5, <1>7, <1>8 DEF Q!Inv, Q!TypeOK
<1>10. Q!CallsAreWhole' /\ Q!WritersAreOwners'
  BY <1>1, <1>3, <1>4, <1>5 DEF Q!Inv, Q!CallsAreWhole, Q!WritersAreOwners
<1>11. Q!SlugsAreUnique' /\ Q!LedToTheOwner'
  BY <1>1, <1>8 DEF Q!Inv, Q!SlugsAreUnique, Q!LedToTheOwner, Q!Of
<1>12. Q!VisitsAddUp' /\ Q!VisitsAreRecorded'
  <2>1. ASSUME NEW d \in Own
        PROVE  /\ x4'[d] + x7'[d] + Cardinality(Q!Recording(d)') <= x6'[d]
               /\ x1'[d] # None =>
                     x6'[d] = x4'[d] + x7'[d] + Cardinality(Q!Recording(d)')
    <3>1. /\ x4[d] + x7[d] + Cardinality(Q!Recording(d)) <= x6[d]
          /\ x1[d] # None =>
                x6[d] = x4[d] + x7[d] + Cardinality(Q!Recording(d))
      BY SameSets DEF Q!Inv, Q!VisitsAddUp, Q!VisitsAreRecorded
    <3>2. UNCHANGED <<x4, x7, x1>> /\ Cardinality(Q!Recording(d)) \in Nat
      BY <1>1, <1>6
    <3>3. CASE d = c
      BY <1>6, <1>7, <3>1, <3>2, <3>3
    <3>4. CASE d # c
      BY <1>6, <1>7, <3>1, <3>2, <3>4
    <3> QED
      BY <3>3, <3>4
  <2>2. \A d \in Own : /\ x1'[d] = None => x4'[d] = 0
                       /\ d \notin x2' => x6'[d] = 0
    BY <1>1, <1>3, <1>7, SameSets DEF Q!Inv, Q!VisitsAddUp
  <2>3. Q!VisitsAddUp'
    BY <2>1, <2>2, SameSets DEF Q!VisitsAddUp
  <2>4. Q!VisitsAreRecorded'
    BY <2>1, SameSets DEF Q!VisitsAreRecorded
  <2> QED
    BY <2>3, <2>4
<1> QED
  BY <1>9, <1>10, <1>11, <1>12 DEF Q!Inv

\* A call that recorded ends: the visit is recorded, or its recording failed.
LEMMA CodeRecordingEnds ==
  ASSUME Q!Inv, NEW h \in Calls,
         x5[h].pc = "record", Q!End(h), UNCHANGED <<x1, x2, x3, x6, x8, x9>>,
         \/ /\ x1[x5[h].id] # None /\ x7' = x7
            /\ x4' = [x4 EXCEPT ![x5[h].id] = x4[x5[h].id] + 1]
         \/ /\ x7' = [x7 EXCEPT ![x5[h].id] = @ + 1]
            /\ x4' = x4
  PROVE  Q!Inv'
<1>0. PICK c : c = x5[h].id
  OBVIOUS
<1>1. c \in Own /\ Q!Idle \in Q!Job /\ Q!Idle.pc = "idle"
  BY <1>0 DEF Q!Inv, Q!CallsAreWhole, Q!TypeOK, Q!Idle, Q!Job
<1>2. /\ x5' \in [Calls -> Q!Job] /\ x5'[h] = Q!Idle
      /\ \A k \in Calls : k # h => x5'[k] = x5[k]
  BY <1>1, CodeGoing DEF Q!Inv, Q!End
<1>3. /\ Cardinality(Q!Recording(c)') = Cardinality(Q!Recording(c)) - 1
      /\ \A d \in Own : d # c => Cardinality(Q!Recording(d)') = Cardinality(Q!Recording(d))
      /\ \A d \in Own : Cardinality(Q!Recording(d)) \in Nat
      /\ Cardinality(Q!Recording(c)) > 0
  <2>1. Q!TypeOK /\ x5' = [x5 EXCEPT ![h] = Q!Idle] /\ Q!Idle.pc # "record"
    BY <1>1 DEF Q!Inv, Q!End
  <2> QED
    BY <1>0, <1>1, <2>1, CodeCounting
<1>4. \A d \in Own : x4[d] \in Nat /\ x7[d] \in Nat /\ x6[d] \in 0..Most
  BY ConstantsAreSound, SameSets DEF Q!Inv, Q!TypeOK, Q!BoundsAreSound
<1>5. /\ x4[c] + x7[c] + Cardinality(Q!Recording(c)) <= x6[c]
      /\ x4[c] + 1 \in 0..Most /\ x7[c] + 1 \in 0..Most
  <2>1. x4[c] + x7[c] + Cardinality(Q!Recording(c)) <= x6[c]
    BY <1>1, SameSets DEF Q!Inv, Q!VisitsAddUp
  <2> QED
    BY <1>1, <1>3, <1>4, <2>1, ConstantsAreSound, SameSets DEF Q!BoundsAreSound
<1>6. CASE /\ x1[c] # None /\ x7' = x7
           /\ x4' = [x4 EXCEPT ![c] = x4[c] + 1]
  <2>1. /\ x4' \in [Own -> 0..Most] /\ x4'[c] = x4[c] + 1
        /\ \A d \in Own : d # c => x4'[d] = x4[d]
    BY <1>1, <1>5, <1>6 DEF Q!Inv, Q!TypeOK
  <2>2. Q!TypeOK'
    BY <1>2, <1>6, <2>1 DEF Q!Inv, Q!TypeOK
  <2>3. Q!VisitsAddUp' /\ Q!VisitsAreRecorded'
    <3>1. ASSUME NEW d \in Own
          PROVE  x4'[d] + x7'[d] + Cardinality(Q!Recording(d)')
                    = x4[d] + x7[d] + Cardinality(Q!Recording(d))
      <4>1. x4[d] \in Nat /\ x7[d] \in Nat /\ Cardinality(Q!Recording(d)) \in Nat
        BY <1>3, <1>4
      <4>2. CASE d = c
        BY <1>3, <2>1, <1>6, <4>1, <4>2
      <4>3. CASE d # c
        BY <1>3, <2>1, <1>6, <4>1, <4>3
      <4> QED
        BY <4>2, <4>3
    <3>2. \A d \in Own : x1'[d] = None => x4'[d] = 0
      BY <1>1, <1>6, <2>1, SameSets DEF Q!Inv, Q!VisitsAddUp
    <3> QED
      BY <3>1, <3>2, SameSets DEF Q!Inv, Q!VisitsAddUp, Q!VisitsAreRecorded
  <2> QED
    BY <2>2, <2>3, <1>2, <1>1
    DEF Q!Inv, Q!CallsAreWhole, Q!WritersAreOwners, Q!SlugsAreUnique,
        Q!LedToTheOwner, Q!Of
<1>7. CASE /\ x7' = [x7 EXCEPT ![c] = @ + 1]
           /\ x4' = x4
  <2>1. /\ x7' \in [Own -> 0..Most] /\ x7'[c] = x7[c] + 1
        /\ \A d \in Own : d # c => x7'[d] = x7[d]
    BY <1>1, <1>5, <1>7 DEF Q!Inv, Q!TypeOK
  <2>2. Q!TypeOK'
    BY <1>2, <1>7, <2>1 DEF Q!Inv, Q!TypeOK
  <2>3. Q!VisitsAddUp' /\ Q!VisitsAreRecorded'
    <3>1. ASSUME NEW d \in Own
          PROVE  x4'[d] + x7'[d] + Cardinality(Q!Recording(d)')
                    = x4[d] + x7[d] + Cardinality(Q!Recording(d))
      <4>1. x4[d] \in Nat /\ x7[d] \in Nat /\ Cardinality(Q!Recording(d)) \in Nat
        BY <1>3, <1>4
      <4>2. CASE d = c
        BY <1>3, <2>1, <1>7, <4>1, <4>2
      <4>3. CASE d # c
        BY <1>3, <2>1, <1>7, <4>1, <4>3
      <4> QED
        BY <4>2, <4>3
    <3>2. \A d \in Own : x1'[d] = None => x4'[d] = 0
      BY <1>1, <1>7, <2>1, SameSets DEF Q!Inv, Q!VisitsAddUp
    <3> QED
      BY <3>1, <3>2, SameSets DEF Q!Inv, Q!VisitsAddUp, Q!VisitsAreRecorded
  <2> QED
    BY <2>2, <2>3, <1>2, <1>1
    DEF Q!Inv, Q!CallsAreWhole, Q!WritersAreOwners, Q!SlugsAreUnique,
        Q!LedToTheOwner, Q!Of
<1> QED
  BY <1>0, <1>6, <1>7

\* So it is when the call records, and when it is cut.
LEMMA CodeRecordInv ==
  ASSUME Q!Inv, NEW h \in Calls, Q!Record(h)
  PROVE  Q!Inv'
BY CodeRecordingEnds DEF Q!Record, Q!Recorded

LEMMA CodeCutInv ==
  ASSUME Q!Inv, NEW h \in Calls, Q!Cut(h)
  PROVE  Q!Inv'
<1>1. CASE x5[h].pc = "record"
  BY <1>1, CodeRecordingEnds DEF Q!Cut
<1>2. CASE x5[h].pc # "record"
  <2>1. /\ x5' \in [Calls -> Q!Job] /\ x5'[h] = Q!Idle
        /\ \A k \in Calls : k # h => x5'[k] = x5[k]
        /\ \A c \in Own : Cardinality(Q!Recording(c)') = Cardinality(Q!Recording(c))
    BY <1>2, CodeEnding DEF Q!Cut
  <2>2. UNCHANGED <<x1, x2, x3, x4, x6, x7, x8, x9>>
    BY <1>2 DEF Q!Cut
  <2>3. Q!Idle.pc = "idle"
    BY DEF Q!Idle
  <2>4. Q!TypeOK' /\ Q!CallsAreWhole' /\ Q!WritersAreOwners'
    BY <2>1, <2>2, <2>3
    DEF Q!Inv, Q!TypeOK, Q!CallsAreWhole, Q!WritersAreOwners
  <2>5. Q!SlugsAreUnique' /\ Q!LedToTheOwner'
    BY <2>2 DEF Q!Inv, Q!SlugsAreUnique, Q!LedToTheOwner, Q!Of
  <2>6. Q!VisitsAddUp' /\ Q!VisitsAreRecorded'
    BY <2>1, <2>2, SameSets DEF Q!Inv, Q!VisitsAddUp, Q!VisitsAreRecorded
  <2> QED
    BY <2>4, <2>5, <2>6 DEF Q!Inv
<1> QED
  BY <1>1, <1>2

\* What is unchanged stays counted.
LEMMA CodeSame ==
  ASSUME Q!Inv, UNCHANGED <<x1, x2, x4, x5, x6, x7, x8, x9>>,
         x3' \in {0, 1}
  PROVE  Q!Inv'
<1>1. \A c \in Own : Q!Recording(c)' = Q!Recording(c)
  BY DEF Q!Recording
<1>2. Q!VisitsAddUp' /\ Q!VisitsAreRecorded'
  BY <1>1, SameSets DEF Q!Inv, Q!VisitsAddUp, Q!VisitsAreRecorded
<1> QED
  BY <1>2
  DEF Q!Inv, Q!TypeOK, Q!CallsAreWhole, Q!WritersAreOwners, Q!SlugsAreUnique,
      Q!LedToTheOwner, Q!Of

\* A step keeps the invariant.
LEMMA CodeNextInv ==
  ASSUME Q!Inv, Q!Next PROVE Q!Inv'
<1>1. CASE Q!Expire
  BY <1>1, CodeSame DEF Q!Expire
<1>2. ASSUME NEW h \in Calls, NEW who \in Q!Owners, NEW s \in Drafts, Q!DrawSlug(h, who, s)
      PROVE  Q!Inv'
  BY <1>2, CodeDrawSlugInv
<1>3. ASSUME NEW h \in Calls, NEW who \in Q!Owners, NEW c \in Own,
             Q!Find(h, "update", who, c) \/ Q!Find(h, "remove", who, c)
      PROVE  Q!Inv'
  BY <1>3, CodeFindInv
<1>4. ASSUME NEW h \in Calls, NEW s \in Drafts, Q!Visit(h, s) PROVE Q!Inv'
  BY <1>4, CodeVisitInv
<1>5. ASSUME NEW h \in Calls, Q!Insert(h) \/ Q!Update(h) \/ Q!Remove(h) \/ Q!Record(h) \/ Q!Cut(h)
      PROVE  Q!Inv'
  BY <1>5, CodeInsertInv, CodeUpdateInv, CodeRemoveInv, CodeRecordInv,
     CodeCutInv
<1> QED
  BY <1>1, <1>2, <1>3, <1>4, <1>5 DEF Q!Next

\* So does no step.
LEMMA CodeStutterInv == ASSUME Q!Inv, UNCHANGED Q!vars PROVE Q!Inv'
BY CodeSame DEF Q!vars, Q!Inv, Q!TypeOK

\* No two codes have one slug, and what it led to is one owner's.
LEMMA CodeInvImplies == ASSUME Q!Inv PROVE Q!TypeOK /\ Q!LinksKeepTheirOwner /\ Q!VisitsAreRecorded
<1>1. ASSUME NEW Y, \A a, b \in Y : a = b
      PROVE  Cardinality(Y) <= 1
  <2>1. CASE Y = {}
    BY <2>1, FS_EmptySet
  <2>2. CASE Y # {}
    <3>1. PICK a \in Y : Y = {a}
      BY <1>1, <2>2
    <3> QED
      BY <3>1, FS_Singleton
  <2> QED
    BY <2>1, <2>2
<1>2. ASSUME NEW s \in Drafts PROVE Cardinality(Q!Of(s)) <= 1
  BY <1>1 DEF Q!Inv, Q!SlugsAreUnique
<1>3. ASSUME NEW s \in Drafts, s \notin x9 PROVE Cardinality(x8[s]) <= 1
  <2>1. \A o, p \in x8[s] : o = p
    BY <1>3 DEF Q!Inv, Q!LedToTheOwner, Q!SlugsAreUnique
  <2> QED
    BY <1>1, <2>1
<1> QED
  BY <1>2, <1>3, SameSets DEF Q!Inv, Q!LinksKeepTheirOwner

-----------------------------------------------------------------------------
(* What the run explores, for every value of the constants.                *)

\* The part that moves keeps the invariant its own module states, and the
\* form keeps its own whether it moves or not.
Parts ==
    /\ Inv
    /\ part = "mailbox" => M!Inv
    /\ part = "lists" => L!Inv
    /\ part = "editors" => E!Inv
    /\ part = "settings" => S!Inv
    /\ part = "photo" => P!Inv
    /\ part = "times" => T!Inv
    /\ part = "signIn" => F!Inv
    /\ part = "codes" => Q!Inv

\* Each part begins in a state its invariant holds of.
LEMMA PartsBegin == PartInit => Parts
BY InitInv, MailboxInitInv, ListInitInv, EditorInitInv, SettingsInitInv, PhotoInitInv,
   EventInitInv, SignInInitInv, CodeInitInv
DEF PartInit, Parts

\* A step is one of the part that moves, or none.
LEMMA PartMoves ==
  ASSUME [PartNext]_<<part, vars, xVars>>
  PROVE  /\ part' = part
         /\ [Next]_vars
         /\ part = "mailbox" => [M!Next]_(M!vars)
         /\ part = "lists" => [L!Next]_(L!vars)
         /\ part = "editors" => [E!Next]_(E!vars)
         /\ part = "settings" => [S!Next]_(S!vars)
         /\ part = "photo" => [P!Next]_(P!vars)
         /\ part = "times" => [T!Next]_(T!vars)
         /\ part = "signIn" => [F!Next]_(F!vars)
         /\ part = "codes" => [Q!Next]_(Q!vars)
<1>1. CASE PartNext
  BY <1>1 DEF PartNext
<1>2. CASE UNCHANGED <<part, vars, xVars>>
  <2>1. UNCHANGED <<x1, x2, x3, x4, x5, x6, x7, x8, x9, x10, x11, x12, x13, x14>>
    BY <1>2 DEF xVars
  <2>2. UNCHANGED M!vars /\ UNCHANGED L!vars
    BY <2>1 DEF M!vars, L!vars
  <2>3. UNCHANGED E!vars /\ UNCHANGED S!vars
    BY <2>1 DEF E!vars, S!vars
  <2>4. UNCHANGED P!vars /\ UNCHANGED T!vars
    BY <2>1 DEF P!vars, T!vars
  <2>5. UNCHANGED F!vars /\ UNCHANGED Q!vars
    BY <2>1 DEF F!vars, Q!vars
  <2> QED
    BY <1>2, <2>2, <2>3, <2>4, <2>5
<1> QED
  BY <1>1, <1>2

\* A step keeps the invariant of the part that moves.
LEMMA PartsStep ==
  ASSUME Parts, [PartNext]_<<part, vars, xVars>> PROVE Parts'
<1>1. part' = part
  BY PartMoves
<1>2. Inv'
  BY PartMoves, NextInv, StutterInv DEF Parts
<1>3. ASSUME part = "mailbox" PROVE M!Inv'
  BY <1>3, PartMoves, MailboxNextInv, MailboxStutterInv DEF Parts
<1>4. ASSUME part = "lists" PROVE L!Inv'
  BY <1>4, PartMoves, ListNextInv, ListStutterInv DEF Parts
<1>5. ASSUME part = "editors" PROVE E!Inv'
  BY <1>5, PartMoves, EditorNextInv, EditorStutterInv DEF Parts
<1>6. ASSUME part = "settings" PROVE S!Inv'
  BY <1>6, PartMoves, SettingsNextInv, SettingsStutterInv DEF Parts
<1>7. ASSUME part = "photo" PROVE P!Inv'
  BY <1>7, PartMoves, PhotoNextInv, PhotoStutterInv DEF Parts
<1>8. ASSUME part = "times" PROVE T!Inv'
  BY <1>8, PartMoves, EventNextInv, EventStutterInv DEF Parts
<1>9. ASSUME part = "signIn" PROVE F!Inv'
  BY <1>9, PartMoves, SignInNextInv, SignInStutterInv DEF Parts
<1>10. ASSUME part = "codes" PROVE Q!Inv'
  BY <1>10, PartMoves, CodeNextInv, CodeStutterInv DEF Parts
<1> QED
  BY <1>1, <1>2, <1>3, <1>4, <1>5, <1>6, <1>7, <1>8, <1>9, <1>10 DEF Parts

(* Whichever component moves, its invariant holds in every state the run   *)
(* can explore, for every value of the constants.                          *)
THEOREM PartsInvariance == PartSpec => []Parts
<1>1. PartInit => Parts
  BY PartsBegin
<1>2. Parts /\ [PartNext]_<<part, vars, xVars>> => Parts'
  BY PartsStep
<1> QED
  BY <1>1, <1>2, PTL DEF PartSpec

(* The variables of whichever component moves stay in their types.         *)
THEOREM TypesCorrect == PartSpec => []TypesOK
<1>1. Parts => TypesOK
  BY MailboxInvImplies, ListInvImplies, EditorInvImplies, SettingsInvImplies,
     PhotoInvImplies, EventInvImplies, SignInInvImplies, CodeInvImplies
  DEF Parts, TypesOK, Inv
<1> QED
  BY <1>1, PartsInvariance, PTL

(* Whatever the order of opening, typing, submitting, closing and the      *)
(* answers, failed or lost: a form or dialog is closed by the call of      *)
(* another only after one was closed while its call was in flight, and the *)
(* API takes one twice only if the answer to the first was lost.           *)
THEOREM FormsAnswerForThemselves == PartSpec => []DialogsAreTheirOwn
<1>1. Parts => DialogsAreTheirOwn
  BY EditorInvImplies DEF Parts, DialogsAreTheirOwn, Inv
<1> QED
  BY <1>1, PartsInvariance, PTL

(* What the user did not change is saved as it was: the attachments of a   *)
(* message, the other fields of a row, and the times of an event, in every *)
(* zone that is within half a day of UTC and changes its offset once, but  *)
(* for what Explained names; and an event ends after it starts.            *)
THEOREM SavingKeeps == PartSpec => []WhatIsWrittenStays
<1>1. Parts => WhatIsWrittenStays
  BY EditorInvImplies, EventInvImplies DEF Parts, WhatIsWrittenStays, Inv
<1> QED
  BY <1>1, PartsInvariance, PTL

(* However many calls are in flight and in whatever order they are served  *)
(* and answered: once none is, the list, the mailbox and the profile on    *)
(* the screen are what the API has, and the countdown is that of the code  *)
(* that was sent last - but in the cases each property excuses.            *)
THEOREM ScreensAreTrue == PartSpec => []PagesTellTheTruth
<1>1. Parts => PagesTellTheTruth
  BY MailboxInvImplies, ListInvImplies, SettingsInvImplies, SignInInvImplies
  DEF Parts, PagesTellTheTruth
<1> QED
  BY <1>1, PartsInvariance, PTL

(* Two actions on one row are in flight together only if its buttons were  *)
(* enabled early, a message is deleted for good outside the trash for the  *)
(* named reasons only, and every button that was disabled comes back.      *)
THEOREM ButtonsActOnce == PartSpec => []ButtonsDoWhatTheySay
<1>1. Parts => ButtonsDoWhatTheySay
  BY MailboxInvImplies, ListInvImplies, SignInInvImplies DEF Parts, ButtonsDoWhatTheySay
<1> QED
  BY <1>1, PartsInvariance, PTL

(* However uploads, changes, visits and the erasure of the account overlap *)
(* or are cut: the photo an account names is in the store and little else  *)
(* is, a printed code leads where one owner wants it to, and visits are    *)
(* counted once each, or not at all where the recording was cut.           *)
THEOREM PhotosAndCodesLast == PartSpec => []PhotosAndLinksLast
<1>1. Parts => PhotosAndLinksLast
  BY PhotoInvImplies, CodeInvImplies DEF Parts, PhotosAndLinksLast
<1> QED
  BY <1>1, PartsInvariance, PTL
=============================================================================
