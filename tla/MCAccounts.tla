----------------------------- MODULE MCAccounts -----------------------------
(***************************************************************************)
(* Model checking of what acts for an account, of the ways into it and of  *)
(* its standing: the agents' actions, login by QR code, device approval,   *)
(* second factors, sign-in methods, the OAuth provider and the browser,    *)
(* workspaces, the verification level and the trust score. Each explores   *)
(* rows of its own, and what one does to the tables of another is part of  *)
(* that other's module, so one run explores them one at a time: the part   *)
(* chosen at the start moves, the others stay where they began or have no  *)
(* state. Second factors are explored twice, with two backup codes and     *)
(* with two challenges.                                                    *)
(*                                                                         *)
(* x1, x2, ... are the variables of the part that moves, whichever it is,  *)
(* in the order in which its module declares them, and null where it has   *)
(* fewer.                                                                  *)
(***************************************************************************)
EXTENDS ActionEngine, TLC

CONSTANTS
    Pair,       \* values to be permuted
    Other,      \* more of them
    Few,        \* values that are not permuted
    More,       \* more of them
    Lone,       \* values of kinds of which one is enough
    Reviewers,  \* who reviews business requests, of Workspaces
    Offered,    \* roles that invites offer, of Workspaces
    MaxDevices, MaxRevoked, Changes,    \* bounds of TrustScore
    Copies, Main    \* of BrowserSession

VARIABLES
    part,       \* the component that moves
    x1, x2, x3, x4, x5, x6, x7, x8, x9, x10, x11, x12, x13  \* its variables

\* Users of a workspace, and who reviews.
People == Pair \cup Reviewers

Q == INSTANCE QrLoginProofs WITH
        Tokens <- Few, Users <- Pair, Polls <- Lone, Exchanges <- Other,
        Apps <- Handlers, status <- x1, overdue <- x2, owner <- x3,
        issued <- x4, job <- x5, wire <- x6, phase <- x7, conn <- x8,
        sessions <- x9, signedIn <- x10
D == INSTANCE DeviceApproval WITH
        Users <- Pair, Asked <- Few, status <- x1, owner <- x2,
        overdue <- x3, job <- x4, decided <- x5
F == INSTANCE TwoFactorProofs WITH
        Secrets <- Pair, Codes <- Other, Challenges <- Few, secret <- x1,
        enabled <- x2, sms <- x3, backup <- x4, challenge <- x5, stale <- x6,
        job <- x7, issued <- x8, proven <- x9, contested <- x10,
        bought <- x11, sessions <- x12
G == INSTANCE TwoFactorProofs WITH
        Secrets <- Pair, Codes <- Few, Challenges <- Other, secret <- x1,
        enabled <- x2, sms <- x3, backup <- x4, challenge <- x5, stale <- x6,
        job <- x7, issued <- x8, proven <- x9, contested <- x10,
        bought <- x11, sessions <- x12
I == INSTANCE Accounts WITH
        Users <- Pair, Identities <- Other, Keys <- Few,
        Rows <- More, made <- x1, password <- x2, linked <- x3,
        passkey <- x4, row <- x5, stale <- x6, job <- x7, uses <- x8,
        excused <- x9
O == INSTANCE OAuthProviderProofs WITH
        Clients <- Few, Public <- Few, Scopes <- Pair, Codes <- Lone,
        Tokens <- Other, active <- x1, grant <- x2, code <- x3,
        overdue <- x4, token <- x5, job <- x6, approved <- x7, granted <- x8,
        contested <- x9, exchanged <- x10, late <- x11
W == INSTANCE Workspaces WITH
        Users <- People, Spaces <- Other, Requests <- Few, Invites <- Few,
        space <- x1, member <- x2, default <- x3, request <- x4,
        invite <- x5, late <- x6, job <- x7, made <- x8, joined <- x9,
        contested <- x10
A == INSTANCE Assurance WITH
        Users <- Few, Codes <- Pair, Requests <- Other, level <- x1,
        code <- x2, email <- x3, sms <- x4, identity <- x5, vouched <- x6,
        review <- x7, profile <- x8, job <- x9, granted <- x10, raced <- x11,
        torn <- x12, contested <- x13
T == INSTANCE TrustScore WITH fact <- x1, changed <- x2
B == INSTANCE BrowserSession WITH
        Calls <- Handlers, Rows <- Pair,
        jar <- x1, live <- x2, call <- x3, refresh <- x4, inFlight <- x5,
        logout <- x6, signIn <- x7, ui <- x8, issued <- x9, endedBy <- x10,
        overlapped <- x11, out <- x12, loggedIn <- x13

xVars == <<x1, x2, x3, x4, x5, x6, x7, x8, x9, x10, x11, x12, x13>>

ASSUME ConstantsAreSound ==
    /\ Q!NoneIsNoValue /\ Q!HandlersDisjoint /\ D!NoneIsNoUser /\ F!NoneIsNoRow /\ G!NoneIsNoRow
    /\ I!NoneIsNoUser /\ O!ClientsAreSound
    /\ B!CopiesAreSound /\ B!NoneIsNoValue
    /\ W!ReviewersAreUsers /\ W!NoneIsNoValue /\ W!OfferedAreRoles
    /\ A!NoneIsNoValue /\ T!BoundsAreNumbers

PartInit ==
    /\ Init
    /\ \/ /\ part \in {"actions"}
          /\ x1 = None /\ x2 = None /\ x3 = None /\ x4 = None /\ x5 = None
          /\ x6 = None /\ x7 = None /\ x8 = None /\ x9 = None /\ x10 = None
          /\ x11 = None /\ x12 = None /\ x13 = None
       \/ /\ part = "logins" /\ Q!Init
          /\ x11 = None /\ x12 = None /\ x13 = None
       \/ /\ part = "devices" /\ D!Init
          /\ x6 = None /\ x7 = None /\ x8 = None /\ x9 = None /\ x10 = None
          /\ x11 = None /\ x12 = None /\ x13 = None
       \/ /\ part = "codes" /\ F!Init
          /\ x13 = None
       \/ /\ part = "challenges" /\ G!Init
          /\ x13 = None
       \/ /\ part = "ways" /\ I!Init
          /\ x10 = None /\ x11 = None /\ x12 = None /\ x13 = None
       \/ /\ part = "oauth" /\ O!Init
          /\ x12 = None /\ x13 = None
       \/ /\ part = "workspaces" /\ W!Init
          /\ x11 = None /\ x12 = None /\ x13 = None
       \/ /\ part = "assurance" /\ A!Init
       \/ /\ part = "trust" /\ T!Init
          /\ x3 = None /\ x4 = None /\ x5 = None /\ x6 = None /\ x7 = None
          /\ x8 = None /\ x9 = None /\ x10 = None /\ x11 = None /\ x12 = None
          /\ x13 = None
       \/ /\ part = "browser" /\ B!Init

PartNext ==
    \/ part = "actions" /\ Next /\ UNCHANGED <<part, xVars>>
    \/ part = "logins" /\ Q!Next
          /\ UNCHANGED <<part, vars, x11, x12, x13>>
    \/ part = "devices" /\ D!Next
          /\ UNCHANGED <<part, vars, x6, x7, x8, x9, x10, x11, x12, x13>>
    \/ part = "codes" /\ F!Next
          /\ UNCHANGED <<part, vars, x13>>
    \/ part = "challenges" /\ G!Next
          /\ UNCHANGED <<part, vars, x13>>
    \/ part = "ways" /\ I!Next
          /\ UNCHANGED <<part, vars, x10, x11, x12, x13>>
    \/ part = "oauth" /\ O!Next
          /\ UNCHANGED <<part, vars, x12, x13>>
    \/ part = "workspaces" /\ W!Next
          /\ UNCHANGED <<part, vars, x11, x12, x13>>
    \/ part = "assurance" /\ A!Next
          /\ UNCHANGED <<part, vars>>
    \/ part = "trust" /\ T!Next
          /\ UNCHANGED <<part, vars, x3, x4, x5, x6, x7, x8, x9, x10, x11,
                         x12, x13>>
    \/ part = "browser" /\ B!Next
          /\ UNCHANGED <<part, vars>>

PartSpec == PartInit /\ [][PartNext]_<<part, vars, xVars>>

(* The variables of the component that moves stay in their types.          *)
TypesOK ==
    /\ TypeOK
    /\ part = "logins" => Q!TypeOK
    /\ part = "devices" => D!TypeOK
    /\ part = "codes" => F!TypeOK
    /\ part = "challenges" => G!TypeOK
    /\ part = "ways" => I!TypeOK
    /\ part = "oauth" => O!TypeOK
    /\ part = "workspaces" => W!TypeOK
    /\ part = "assurance" => A!TypeOK
    /\ part = "trust" => T!TypeOK
    /\ part = "browser" => B!TypeOK

(* A login by QR code and the approval of a new device both implement the  *)
(* one-time ticket: QrLogin and DeviceApproval say how, and what does not  *)
(* move is a ticket that stays open.                                       *)
Ticket == INSTANCE LoginTicket WITH
        Tickets <- Few, Users <- Pair,
        ticket <- CASE part = "logins" -> Q!ticketOf
                    [] part = "devices" -> D!ticketOf
                    [] OTHER -> [t \in Few |-> "open"],
        holder <- CASE part = "logins" -> x3
                    [] part = "devices" -> D!holderOf
                    [] OTHER -> [t \in Few |-> None],
        sessions <- IF part = "logins" THEN x9 ELSE [t \in Few |-> 0],
        signedIn <- IF part = "logins" THEN x10 ELSE [t \in Few |-> None]

TicketsAreImplemented == Ticket!Spec

(* What can be used once is used once: a backup code and a challenge, the  *)
(* state of a redirect, a login exchange, a WebAuthn challenge. And an     *)
(* authenticator is on only with a secret that was proven, unless two set- *)
(* ups overlapped.                                                         *)
UsedOnce ==
    /\ part = "codes" => F!FactorsBuyOneSession /\ F!FactorWasProven
    /\ part = "challenges" =>
          G!FactorsBuyOneSession /\ G!FactorWasProven
    /\ part = "ways" => I!RowsWorkOnce

(* There is a way into every account, but for those that lost a passkey,   *)
(* had two unlinkings overlap or were created by a call cut short.         *)
SomeWayIn == part = "ways" => I!SomeWayIn

(* Behind every token from a code is one exchange and consent to its       *)
(* scopes.                                                                 *)
TokensWereConsented == part = "oauth" => O!TokensWereConsented

(* A grant holds all and only what was consented to, unless two consents   *)
(* overlapped; and no token from a code is live without its grant, but for *)
(* what was outstanding when the grant was revoked.                        *)
AccessFollowsGrant ==
    part = "oauth" => O!NoConsentIsLost /\ O!AccessFollowsGrant

(* Nobody is in a workspace but its owner and those who accepted an invite *)
(* to it, in the role it offered; and a user has one personal workspace,   *)
(* unless two calls that make it overlapped.                               *)
MembersWereInvited ==
    part = "workspaces" =>
        W!MembersWereInvited /\ W!OnePersonalUnlessContested

(* What became of an invite or a request is what its row tells, unless two *)
(* calls on it overlapped.                                                 *)
OutcomesAreTold == part = "workspaces" => W!OutcomesAreTold

(* Every account at level three had its identity approved, or an approval  *)
(* is being committed; and no level falls unless two changes of it         *)
(* overlapped.                                                             *)
LevelsAreEarnedAndKept ==
    [][part = "assurance" => A!LevelThreeIsReviewed' /\ A!LevelRises]_xVars

(* The stored trust profile catches up with the facts when no              *)
(* recomputation was cut short or overlapped another.                      *)
ProfileCatchesUp == part = "assurance" => A!ProfileCatchesUp

(* The trust score is monotone in what speaks for an account, and          *)
(* forgives.                                                               *)
ScoreIsCurrentConfidence == part = "trust" => T!ScoreIsCurrentConfidence

(* The browser and its session keep in step: a logout nothing overlapped   *)
(* is not undone by a call still on its way, a login that found its        *)
(* session takes, and a copy of the fetch code does not race itself.       *)
BrowserKeepsInStep ==
    part = "browser" =>
        B!SignedOutStaysOut /\ B!LoginTakes /\ B!NoCopyRacesItself

(* Only safety is checked: what the parts call by these names is permuted. *)
Symmetry == Permutations(Pair) \cup Permutations(Other) \cup Permutations(Handlers)
=============================================================================
