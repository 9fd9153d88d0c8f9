------------------------------ MODULE MCPages -------------------------------
(***************************************************************************)
(* Model checking of the pages of the browser application, and of what     *)
(* they share with the API: forms, lists, the mailbox, the settings, sign- *)
(* in, the times of events, photos and QR codes. No two are on the screen  *)
(* at once, so one run explores them one at a time: the part chosen at the *)
(* start moves, the others stay where they began or have no state.         *)
(*                                                                         *)
(* x1, x2, ... are the variables of the part that moves, whichever it is,  *)
(* in the order in which its module declares them, and null where it has   *)
(* fewer.                                                                  *)
(***************************************************************************)
EXTENDS Compose, Integers, TLC

CONSTANTS
    Tabs,       \* folders the mailbox has a tab for
    Most,       \* what is counted, is counted up to this (a bound)
    Ttl,        \* steps of the clock a code lives
    Days,       \* days an event may be moved to
    Hours,      \* hours of the day it may begin at
    Zones       \* time zones, each with its change of the clocks

VARIABLES
    part,       \* the component that moves
    x1, x2, x3, x4, x5, x6, x7, x8, x9, x10, x11, x12, x13, x14  \* its variables

\* A zone without summer time, and two whose clocks go forward and back.
WorldZones == {[before |-> 0, after |-> 0, change |-> 0],
               [before |-> -5, after |-> -4, change |-> 55],
               [before |-> 2, after |-> 1, change |-> 49]}

M == INSTANCE MailPage WITH
        Messages <- Own, Tabs <- Tabs, home <- x1,
        folder <- x2, listed <- x3, ticked <- x4, reader <- x5,
        bulkBusy <- x6, call <- x7, crossed <- x8, stale <- x9,
        restored <- x10, outside <- x11, clicked <- x12
L == INSTANCE Lists WITH Rows <- Own, page <- x1, server <- x2, shown <- x3,
                         hidden <- x4, view <- x5, busy <- x6, form <- x7,
                         call <- x8, answers <- x9, passed <- x10,
                         newest <- x11, astray <- x12, released <- x13,
                         unseen <- x14
E == INSTANCE Editors WITH Rows <- Own, editor <- x1, kind <- x2,
                           stored <- x3, copy <- x4, form <- x5, call <- x6,
                           bent <- x7, taken <- x8, unsure <- x9,
                           abandoned <- x10, robbed <- x11
S == INSTANCE SettingsPage WITH
        Photos <- Drafts, Most <- Most, account <- x1, profile <- x2,
        step <- x3, call <- x4, shownCodes <- x5, astray <- x6
P == INSTANCE Photo WITH Photos <- Own \cup Foreign, Handlers <- Calls,
                         files <- x1, named <- x2, photo <- x3, erased <- x4,
                         job <- x5, cut <- x6, lost <- x7, kept <- x8,
                         late <- x9, given <- x10
T == INSTANCE EventTimes WITH
        Days <- Days, Hours <- Hours, Zones <- Zones,
        event <- x1, form <- x2, moved <- x3
F == INSTANCE SignInForm WITH
        Emails <- Own, Ttl <- Ttl, page <- x1, screen <- x2, who <- x3,
        seed <- x4, left <- x5, busy <- x6, resendBusy <- x7,
        factorBusy <- x8, life <- x9, call <- x10, asked <- x11, odd <- x12,
        crossed <- x13, unfound <- x14
Q == INSTANCE NdyQr WITH Codes <- Own, Slugs <- Drafts, Users <- Foreign,
                         Clients <- Drafts, Handlers <- Calls, Most <- Most,
                         code <- x1, used <- x2, now <- x3, scans <- x4,
                         job <- x5, visits <- x6, unrecorded <- x7,
                         led <- x8, freed <- x9

xVars == <<x1, x2, x3, x4, x5, x6, x7, x8, x9, x10, x11, x12, x13, x14>>

ASSUME ConstantsAreSound ==
    /\ FilesAreSomeones /\ NoneIsNoForm /\ M!TabsAreFolders
    /\ M!NoneIsNoMessage /\ L!NoneIsNoRow /\ E!NoneIsNoForm
    /\ S!NoneIsNoPhoto /\ P!NoneIsNoPhoto /\ T!ZonesAreSound
    /\ T!TimesAreSound /\ F!TtlIsPositive /\ Q!OwnersAreSound
    /\ Q!BoundsAreSound /\ Q!NoneIsNoCode

PartInit ==
    /\ Init
    /\ \/ /\ part \in {"compose"}
          /\ x1 = None /\ x2 = None /\ x3 = None /\ x4 = None /\ x5 = None
          /\ x6 = None /\ x7 = None /\ x8 = None /\ x9 = None /\ x10 = None
          /\ x11 = None /\ x12 = None /\ x13 = None /\ x14 = None
       \/ /\ part = "mailbox" /\ M!Init
          /\ x13 = None /\ x14 = None
       \/ /\ part = "lists" /\ L!Init
       \/ /\ part = "editors" /\ E!Init
          /\ x12 = None /\ x13 = None /\ x14 = None
       \/ /\ part = "settings" /\ S!Init
          /\ x7 = None /\ x8 = None /\ x9 = None /\ x10 = None /\ x11 = None
          /\ x12 = None /\ x13 = None /\ x14 = None
       \/ /\ part = "photo" /\ P!Init
          /\ x11 = None /\ x12 = None /\ x13 = None /\ x14 = None
       \/ /\ part = "times" /\ T!Init
          /\ x4 = None /\ x5 = None /\ x6 = None /\ x7 = None /\ x8 = None
          /\ x9 = None /\ x10 = None /\ x11 = None /\ x12 = None
          /\ x13 = None /\ x14 = None
       \/ /\ part = "signIn" /\ F!Init
       \/ /\ part = "codes" /\ Q!Init
          /\ x10 = None /\ x11 = None /\ x12 = None /\ x13 = None
          /\ x14 = None

PartNext ==
    \/ part = "compose" /\ Next /\ UNCHANGED <<part, xVars>>
    \/ part = "mailbox" /\ M!Next
          /\ UNCHANGED <<part, vars, x13, x14>>
    \/ part = "lists" /\ L!Next
          /\ UNCHANGED <<part, vars>>
    \/ part = "editors" /\ E!Next
          /\ UNCHANGED <<part, vars, x12, x13, x14>>
    \/ part = "settings" /\ S!Next
          /\ UNCHANGED <<part, vars, x7, x8, x9, x10, x11, x12, x13, x14>>
    \/ part = "photo" /\ P!Next
          /\ UNCHANGED <<part, vars, x11, x12, x13, x14>>
    \/ part = "times" /\ T!Next
          /\ UNCHANGED <<part, vars, x4, x5, x6, x7, x8, x9, x10, x11, x12,
                         x13, x14>>
    \/ part = "signIn" /\ F!Next
          /\ UNCHANGED <<part, vars>>
    \/ part = "codes" /\ Q!Next
          /\ UNCHANGED <<part, vars, x10, x11, x12, x13, x14>>

PartSpec == PartInit /\ [][PartNext]_<<part, vars, xVars>>

(* The variables of the component that moves stay in their types.          *)
TypesOK ==
    /\ TypeOK
    /\ part = "mailbox" => M!TypeOK
    /\ part = "lists" => L!TypeOK
    /\ part = "editors" => E!TypeOK
    /\ part = "settings" => S!TypeOK
    /\ part = "photo" => P!TypeOK
    /\ part = "times" => T!TypeOK
    /\ part = "signIn" => F!TypeOK
    /\ part = "codes" => Q!TypeOK

(* A form is closed by the call of another only after one was closed while *)
(* its call was in flight, and one form is taken twice by the API only if  *)
(* the answer to the first was lost.                                       *)
DialogsAreTheirOwn ==
    /\ FormsAreTheirOwn
    /\ part = "editors" => E!DialogsAreTheirOwn

(* Saving keeps what the user did not change: the attachments of a         *)
(* message, the other fields of a row, and the times of an event, which    *)
(* ends after it starts.                                                   *)
WhatIsWrittenStays ==
    /\ AttachmentsStay
    /\ part = "editors" => E!OnlyTypedIsChanged
    /\ part = "times" => T!UntouchedEventsStay /\ T!EventsEndAfterTheyStart

(* When no call is in flight a page shows what the API has - a list, a     *)
(* mailbox, the profile - and the countdown for a code is that code's, but *)
(* for answers that crossed or were lost.                                  *)
PagesTellTheTruth ==
    /\ part = "lists" => L!ListsTellTheTruth
    /\ part = "mailbox" => M!PageSettles
    /\ part = "settings" => S!ProfileIsTrue /\ S!CodesAreShown
    /\ part = "signIn" => F!CountdownIsTheCodes

(* What a button does is done once and where it was meant, and the button  *)
(* comes back: two actions on a row, and deleting for good outside the     *)
(* trash, are for named reasons only.                                      *)
ButtonsDoWhatTheySay ==
    /\ part = "lists" => L!RowsActOnce
    /\ part = "mailbox" => M!ErasedFromTrash
    /\ part = "signIn" => F!ButtonsComeBack

(* The photo of an account is in the store and little else is; a printed   *)
(* code leads where one owner wants it to, and every visit is recorded,    *)
(* but for what was cut, lost or overlapped.                               *)
PhotosAndLinksLast ==
    /\ part = "photo" => P!PhotoIsThere /\ P!NothingIsLeftOver
    /\ part = "codes" => Q!LinksKeepTheirOwner /\ Q!VisitsAreRecorded

(* Only safety is checked: what the parts call by these names is permuted. *)
Symmetry == Permutations(Own) \cup Permutations(Calls)
=============================================================================
