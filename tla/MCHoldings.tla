----------------------------- MODULE MCHoldings -----------------------------
(***************************************************************************)
(* Model checking of what users hold: documents to sign, mail, files,      *)
(* memberships, purchases, points and bridge requests, events and          *)
(* notifications. These components share no table and call nothing of each *)
(* other, so one run explores them one at a time: the part chosen at the   *)
(* start moves, the others stay where they began or have no state.         *)
(*                                                                         *)
(* x1, x2, ... are the variables of the part that moves, whichever it is,  *)
(* in the order in which its module declares them, and null where it has   *)
(* fewer.                                                                  *)
(***************************************************************************)
EXTENDS Signature, TLC

CONSTANTS
    Sizes, Quota,           \* of Drive
    Members,                \* the users of Membership
    Txs,                    \* of Purchases
    Cap,                    \* of Rewards
    Amounts, DailyCap, Least, Reserve, Rates,   \* of Bridge
    Events, Take, LastTime, \* of EventLog
    Alerts, Mailed          \* of Notifications

VARIABLES
    part,       \* the component that moves
    x1, x2, x3, x4, x5, x6, x7, x8, x9  \* its variables

M == INSTANCE Mail WITH Writers <- Users, Emails <- Signatures,
                        Lists <- (SUBSET Users) \ {{}}, email <- x1,
                        folder <- x2, job <- x3, used <- x4, kept <- x5,
                        altered <- x6, from <- x7, cut <- x8
D == INSTANCE Drive WITH Files <- Signatures, size <- x1, blob <- x2,
                         job <- x3, crowded <- x4, torn <- x5
S == INSTANCE Membership WITH
        Users <- Members, Subs <- Slots, Rows <- Signatures, configured <- x1,
        stripe <- x2, unanswered <- x3, processed <- x4, row <- x5,
        job <- x6, crossed <- x7, lost <- x8, early <- x9
P == INSTANCE Purchases WITH status <- x1, job <- x2, claimed <- x3, torn <- x4
R == INSTANCE Rewards WITH Events <- Signatures, enabled <- x1, log <- x2,
                           old <- x3, ledger <- x4, job <- x5, shared <- x6,
                           torn <- x7
B == INSTANCE Bridge WITH Requests <- Signatures, policy <- x1, request <- x2,
                          old <- x3, job <- x4
E == INSTANCE EventLog WITH
        Sources <- Signatures, now <- x1, row <- x2, rewarded <- x3,
        job <- x4, cursor <- x5, given <- x6, cut <- x7
N == INSTANCE Notifications WITH
        Admins <- Users, row <- x1, job <- x2, mailed <- x3, cut <- x4

xVars == <<x1, x2, x3, x4, x5, x6, x7, x8, x9>>

ASSUME ConstantsAreSound ==
    /\ M!WritersAreUsers /\ M!NoneIsNoValue
    /\ D!SizesArePositive /\ D!NoneIsNoFile /\ D!FilesAreFinite
    /\ S!NoneIsNoValue /\ P!NoneIsNoTx
    /\ R!NoneIsNoEvent /\ R!CapIsPositive /\ R!HandlersAreFinite
    /\ B!AmountsArePositive /\ B!PolicyIsSound /\ B!BoundsAreFinite
    /\ E!IdsAreOrdered /\ E!NoneIsNoEvent /\ N!MailedAreAlerts

PartInit ==
    /\ Init
    /\ \/ /\ part \in {"signatures"}
          /\ x1 = None /\ x2 = None /\ x3 = None /\ x4 = None /\ x5 = None
          /\ x6 = None /\ x7 = None /\ x8 = None /\ x9 = None
       \/ /\ part = "mail" /\ M!Init
          /\ x9 = None
       \/ /\ part = "drive" /\ D!Init
          /\ x6 = None /\ x7 = None /\ x8 = None /\ x9 = None
       \/ /\ part = "memberships" /\ S!Init
       \/ /\ part = "purchases" /\ P!Init
          /\ x5 = None /\ x6 = None /\ x7 = None /\ x8 = None /\ x9 = None
       \/ /\ part = "rewards" /\ R!Init
          /\ x8 = None /\ x9 = None
       \/ /\ part = "bridge" /\ B!Init
          /\ x5 = None /\ x6 = None /\ x7 = None /\ x8 = None /\ x9 = None
       \/ /\ part = "events" /\ E!Init
          /\ x8 = None /\ x9 = None
       \/ /\ part = "notifications" /\ N!Init
          /\ x5 = None /\ x6 = None /\ x7 = None /\ x8 = None /\ x9 = None

PartNext ==
    \/ part = "signatures" /\ Next /\ UNCHANGED <<part, xVars>>
    \/ part = "mail" /\ M!Next
          /\ UNCHANGED <<part, vars, x9>>
    \/ part = "drive" /\ D!Next
          /\ UNCHANGED <<part, vars, x6, x7, x8, x9>>
    \/ part = "memberships" /\ S!Next
          /\ UNCHANGED <<part, vars>>
    \/ part = "purchases" /\ P!Next
          /\ UNCHANGED <<part, vars, x5, x6, x7, x8, x9>>
    \/ part = "rewards" /\ R!Next
          /\ UNCHANGED <<part, vars, x8, x9>>
    \/ part = "bridge" /\ B!Next
          /\ UNCHANGED <<part, vars, x5, x6, x7, x8, x9>>
    \/ part = "events" /\ E!Next
          /\ UNCHANGED <<part, vars, x8, x9>>
    \/ part = "notifications" /\ N!Next
          /\ UNCHANGED <<part, vars, x5, x6, x7, x8, x9>>

PartSpec == PartInit /\ [][PartNext]_<<part, vars, xVars>>

(* The variables of the component that moves stay in their types.          *)
TypesOK ==
    /\ TypeOK
    /\ part = "mail" => M!TypeOK
    /\ part = "drive" => D!TypeOK
    /\ part = "memberships" => S!TypeOK
    /\ part = "purchases" => P!TypeOK
    /\ part = "rewards" => R!TypeOK
    /\ part = "bridge" => B!TypeOK
    /\ part = "events" => E!TypeOK
    /\ part = "notifications" => N!TypeOK

(* What is kept stays readable: a delivered message stays as it was sent   *)
(* in every mailbox whose owner has not deleted it, unless one of them has *)
(* had it in DRAFTS; a draft becomes one message at most, and is not lost  *)
(* but by a sending cut short; and a file that is listed opens, unless a   *)
(* deletion was cut short.                                                 *)
ContentStays ==
    /\ part = "mail" => M!DeliveredStays /\ M!DraftsAreSentOnce
    /\ part = "drive" => D!ListedOpens

(* A user has one active membership, unless two calls crossed between      *)
(* cancelling what is active and creating the new row.                     *)
OneActiveUnlessCrossed == part = "memberships" => S!OneActiveUnlessCrossed

(* A row says what was reported of it: once its events are answered a      *)
(* subscription has the row Stripe says it has, unless one was recorded    *)
(* and then lost or came out of order; a purchase stands at the stage its  *)
(* first webhook reported, unless that was cut short.                      *)
RowsMirrorReports ==
    /\ part = "memberships" => S!SettledMirrorsStripe
    /\ part = "purchases" => P!StandsWhereReported

(* The three limits that are read before they are used - the daily cap of  *)
(* a reward, what a user may bridge in a day, the storage quota - hold but *)
(* for what calls that overlapped can add.                                 *)
LimitsHoldButForTheRace ==
    /\ part = "rewards" => R!CapHoldsButForTheRace
    /\ part = "bridge" => B!LimitHoldsButForTheRace
    /\ part = "drive" => D!QuotaHoldsButForTheRace

(* What is reported ends where it belongs - an event in the log and with   *)
(* the reward engine, a credited event in the ledger, an alert with every  *)
(* administrator - unless the report was cut or overlapped another of the  *)
(* same. And a consumer of the log is given no event twice, and misses one *)
(* only if it was being inserted when one it was given became visible.     *)
EventsAreAccountedFor ==
    /\ part = "rewards" => R!LogAgreesWithLedger
    /\ part = "events" => E!LoggedOnceAndForwarded /\ E!GapsComeOfOverlap
    /\ part = "notifications" => N!NotifiedOnceUnlessCut

(* Only safety is checked: what the parts call by these names is permuted. *)
Symmetry == Permutations(Users) \cup Permutations(Slots)
                \cup Permutations(Signatures) \cup Permutations(Handlers)
=============================================================================
