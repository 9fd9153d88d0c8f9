--------------------------- MODULE BrowserSession ---------------------------
(***************************************************************************)
(* The web app's side of a session: the cookie jar, the calls that retry   *)
(* once behind a shared refresh, and the tab's own idea of being signed    *)
(* in.  The same fetch code exists twice, in lib/api.ts and in             *)
(* lib/ndyspace-api.ts, each with a `refreshInFlight` of its own.          *)
(*                                                                         *)
(* A call is sent with the cookies of that moment and answered later;      *)
(* answers arrive in any order and Set-Cookie takes effect on arrival.     *)
(* An access token is good until it and its cookie expire together.        *)
(***************************************************************************)
EXTENDS Naturals, FiniteSets

CONSTANTS
    Copies,     \* the copies of the fetch code
    Main,       \* the copy in lib/api.ts
    Calls,      \* authedFetch calls outstanding at once (a bound)
    Rows,       \* supply of Session rows (a bound)
    None        \* null

\* What is assumed of the constants.
CopiesAreSound == Main \in Copies
NoneIsNoValue ==
    /\ None \notin Copies \cup Calls \cup Rows
    /\ Copies \cap {"logout", "elsewhere", "unheard"} = {}

VARIABLES
    jar,        \* the cookies: which row each token belongs to
    live,       \* rows that the server would still rotate
    call,       \* call[c]: an authedFetch
    refresh,    \* refresh[c]: the POST /auth/refresh that call c started
    inFlight,   \* refreshInFlight of each copy: the call that started it
    logout,     \* the POST /auth/logout
    signIn,     \* the request that ends in a fresh session
    ui,         \* AuthContext's status
    issued,     \* history: rows ever issued
    endedBy,    \* history: what made a row end
    overlapped, \* history: another request that sets cookies ran beside the
                \* last logout
    out,        \* history: the row signed out by a logout nothing overlapped,
                \* no sign-in since
    loggedIn    \* history: the last login() found a session while no other
                \* resolveAuth() was unanswered, no logout since

tab == <<call, refresh, inFlight, ui>>
history == <<issued, endedBy, overlapped, out, loggedIn>>
vars == <<tab, jar, live, logout, signIn, history>>

Jar == [access : Rows \cup {None}, refresh : Rows \cup {None}]

Call == [pc : {"idle", "sent", "wait", "again"}, copy : Copies \cup {None},
         why : {"data", "mount", "login"}, good : BOOLEAN, on : Calls \cup {None}]

Refresh == [pc : {"idle", "sent", "checked", "issued", "refused"},
            row : Rows \cup {None}, new : Rows \cup {None}]

Message == [pc : {"idle", "sent", "answered"}, row : Rows \cup {None}]

NoCall == [pc |-> "idle", copy |-> None, why |-> "data", good |-> FALSE, on |-> None]
NoRefresh == [pc |-> "idle", row |-> None, new |-> None]
NoMessage == [pc |-> "idle", row |-> None]

TypeOK ==
    /\ jar \in Jar
    /\ live \subseteq issued /\ issued \subseteq Rows
    /\ call \in [Calls -> Call]
    /\ refresh \in [Calls -> Refresh]
    /\ inFlight \in [Copies -> Calls \cup {None}]
    /\ logout \in Message /\ signIn \in Message
    /\ ui \in {"loading", "unauthenticated", "authenticated"}
    /\ endedBy \in [Rows -> Copies \cup {None, "logout", "elsewhere", "unheard"}]
    /\ overlapped \in BOOLEAN /\ loggedIn \in BOOLEAN
    /\ out \in Rows \cup {None}

Send(c, copy, why, good) ==
    call' = [call EXCEPT ![c] = [pc |-> "sent", copy |-> copy, why |-> why,
                                 good |-> good, on |-> None]]

Idle(c) == call[c].pc = "idle" /\ refresh[c].pc = "idle"

(* The page has just loaded: the provider's mount effect asks who is       *)
(* signed in, with the cookies of an earlier visit or with none.           *)
Init ==
    \E r \in Rows, c \in Calls, visited, fresh \in BOOLEAN :
        LET row == IF visited THEN r ELSE None
            token == IF visited /\ fresh THEN r ELSE None
        IN /\ jar = [access |-> token, refresh |-> row]
           /\ issued = {row} \ {None} /\ live = issued
           /\ call = [[k \in Calls |-> NoCall] EXCEPT ![c] =
                         [NoCall EXCEPT !.pc = "sent", !.copy = Main,
                                        !.why = "mount", !.good = token # None]]
           /\ refresh = [k \in Calls |-> NoRefresh]
           /\ inFlight = [k \in Copies |-> None]
           /\ logout = NoMessage /\ signIn = NoMessage
           /\ ui = "loading"
           /\ endedBy = [k \in Rows |-> None]
           /\ overlapped = FALSE /\ out = None /\ loggedIn = FALSE

-----------------------------------------------------------------------------
(* authedFetch() and refreshOnce().                                        *)

\* A mutant of Asking: every call that fails signs the tab out.
AskingAny(cs) == cs

\* The calls that resolveAuth() made.
Asking(cs) == {c \in cs : call[c].pc # "idle" /\ call[c].why # "data"}

\* What the callers of the calls in cs make of their end: only resolveAuth()
\* has an effect of its own, on AuthContext's state.
Settle(cs, ok) ==
    /\ ui' = IF Asking(cs) = {} THEN ui
             ELSE IF ok THEN "authenticated" ELSE "unauthenticated"
    /\ loggedIn' = IF \E c \in Asking(cs) : call[c].why = "login"
                   THEN ok /\ Asking(Calls \ cs) = {} ELSE loggedIn

StartCall(c, copy) ==
    /\ ui = "authenticated" /\ Idle(c)
    /\ Send(c, copy, "data", jar.access # None)
    /\ UNCHANGED <<jar, live, refresh, inFlight, logout, signIn, ui, history>>

Answered(c) ==
    /\ call[c].pc \in {"sent", "again"} /\ call[c].good
    /\ call' = [call EXCEPT ![c] = NoCall]
    /\ Settle({c}, TRUE)
    /\ UNCHANGED <<jar, live, refresh, inFlight, logout, signIn, issued, endedBy,
                   overlapped, out>>

\* The network fails, or the answer is an error of another kind.
Fails(c) ==
    /\ call[c].pc \in {"sent", "again"}
    /\ call' = [call EXCEPT ![c] = NoCall]
    /\ Settle({c}, FALSE)
    /\ UNCHANGED <<jar, live, refresh, inFlight, logout, signIn, issued, endedBy,
                   overlapped, out>>

\* A mutant of Sharing: every call refreshes for itself.
SharingNothing(copy) == None

\* The refresh that a call of this copy joins.
Sharing(copy) == inFlight[copy]

Unauthorized(c) ==
    LET copy == call[c].copy
        shared == Sharing(copy)
    IN /\ call[c].pc = "sent" /\ ~call[c].good
       /\ IF shared # None
          THEN /\ call' = [call EXCEPT ![c].pc = "wait", ![c].on = shared]
               /\ UNCHANGED <<refresh, inFlight, overlapped>>
          ELSE /\ call' = [call EXCEPT ![c].pc = "wait", ![c].on = c]
               /\ refresh' = [refresh EXCEPT ![c] =
                                 [pc |-> "sent", row |-> jar.refresh, new |-> None]]
               /\ inFlight' = [inFlight EXCEPT ![copy] = c]
               /\ overlapped' = (overlapped \/ logout.pc # "idle")
       /\ UNCHANGED <<jar, live, logout, signIn, ui, issued, endedBy, out, loggedIn>>

\* Every call that waits on the refresh of c is told of its end.
Waiting(c) == {k \in Calls : call[k].pc = "wait" /\ call[k].on = c}

EndRefresh(c) ==
    /\ refresh' = [refresh EXCEPT ![c] = NoRefresh]
    /\ inFlight' = [inFlight EXCEPT ![call[c].copy] = None]

Refreshed(c) ==
    LET new == refresh[c].new
    IN /\ refresh[c].pc = "issued"
       /\ jar' = [access |-> new, refresh |-> new]
       /\ call' = [k \in Calls |-> IF k \in Waiting(c)
                                   THEN [call[k] EXCEPT !.pc = "again", !.good = TRUE,
                                                        !.on = None]
                                   ELSE call[k]]
       /\ EndRefresh(c)
       /\ UNCHANGED <<live, logout, signIn, ui, history>>

\* Refused by the server, or never answered: what the server did stays done.
NotRefreshed(c) ==
    /\ refresh[c].pc # "idle"
    /\ call' = [k \in Calls |-> IF k \in Waiting(c) THEN NoCall ELSE call[k]]
    /\ Settle(Waiting(c), FALSE)
    /\ EndRefresh(c)
    /\ endedBy' = IF refresh[c].pc = "issued"
                  THEN [endedBy EXCEPT ![refresh[c].row] = "unheard"] ELSE endedBy
    /\ UNCHANGED <<jar, live, logout, signIn, issued, overlapped, out>>

-----------------------------------------------------------------------------
(* POST /auth/refresh on the server.                                       *)

CheckRow(c) ==
    /\ refresh[c].pc = "sent"
    /\ refresh' = [refresh EXCEPT ![c].pc =
                       IF refresh[c].row \in live THEN "checked" ELSE "refused"]
    /\ UNCHANGED <<jar, live, call, inFlight, logout, signIn, ui, history>>

Rotate(c) ==
    LET row == refresh[c].row
    IN /\ refresh[c].pc = "checked"
       /\ \E new \in Rows \ issued :
             /\ live' = (live \ {row}) \cup {new}
             /\ issued' = issued \cup {new}
             /\ refresh' = [refresh EXCEPT ![c].pc = "issued", ![c].new = new]
       /\ endedBy' = [endedBy EXCEPT ![row] = call[c].copy]
       /\ UNCHANGED <<jar, call, inFlight, logout, signIn, ui, overlapped, out, loggedIn>>

\* The row is revoked and nothing is issued in its place.
RotateFails(c) ==
    /\ refresh[c].pc = "checked"
    /\ live' = live \ {refresh[c].row}
    /\ endedBy' = [endedBy EXCEPT ![refresh[c].row] = "unheard"]
    /\ refresh' = [refresh EXCEPT ![c].pc = "refused"]
    /\ UNCHANGED <<jar, call, inFlight, logout, signIn, ui, issued, overlapped, out,
                   loggedIn>>

-----------------------------------------------------------------------------
(* Signing out and in.                                                     *)

Busy == \E c \in Calls : refresh[c].pc # "idle"

Logout ==
    /\ ui = "authenticated" /\ logout.pc = "idle"
    /\ logout' = [pc |-> "sent", row |-> jar.refresh]
    /\ ui' = "unauthenticated"
    /\ loggedIn' = FALSE
    /\ overlapped' = (Busy \/ signIn.pc # "idle")
    /\ UNCHANGED <<jar, live, call, refresh, inFlight, signIn, issued, endedBy, out>>

\* A mutant of HandleLogout: the cookies are cleared, the row is left.
HandleLogoutCookies ==
    /\ logout.pc = "sent"
    /\ logout' = [logout EXCEPT !.pc = "answered"]
    /\ UNCHANGED <<tab, jar, live, signIn, history>>

HandleLogout ==
    /\ logout.pc = "sent"
    /\ logout' = [logout EXCEPT !.pc = "answered"]
    /\ live' = live \ {logout.row}
    /\ endedBy' = IF logout.row \in live
                  THEN [endedBy EXCEPT ![logout.row] = "logout"] ELSE endedBy
    /\ UNCHANGED <<tab, jar, signIn, issued, overlapped, out, loggedIn>>

LoggedOut ==
    /\ logout.pc = "answered"
    /\ jar' = [access |-> None, refresh |-> None]
    /\ out' = IF overlapped THEN None ELSE logout.row
    /\ logout' = NoMessage
    /\ UNCHANGED <<tab, live, signIn, issued, endedBy, overlapped, loggedIn>>

\* Best-effort: a lost request or answer is not tried again.
LogoutLost ==
    /\ logout.pc # "idle"
    /\ logout' = NoMessage
    /\ UNCHANGED <<tab, jar, live, signIn, history>>

StartSignIn ==
    /\ ui # "authenticated" /\ signIn.pc = "idle"
    /\ signIn' = [pc |-> "sent", row |-> None]
    /\ out' = None
    /\ overlapped' = (overlapped \/ logout.pc # "idle")
    /\ UNCHANGED <<tab, jar, live, logout, issued, endedBy, loggedIn>>

HandleSignIn ==
    /\ signIn.pc = "sent"
    /\ \E new \in Rows \ issued :
          /\ signIn' = [pc |-> "answered", row |-> new]
          /\ live' = live \cup {new}
          /\ issued' = issued \cup {new}
    /\ UNCHANGED <<tab, jar, logout, endedBy, overlapped, out, loggedIn>>

\* The cookies are set and the form calls login().
SignedIn(c) ==
    /\ signIn.pc = "answered" /\ Idle(c)
    /\ jar' = [access |-> signIn.row, refresh |-> signIn.row]
    /\ signIn' = NoMessage
    /\ Send(c, Main, "login", TRUE)
    /\ UNCHANGED <<live, refresh, inFlight, logout, ui, history>>

SignInFails ==
    /\ signIn.pc # "idle"
    /\ signIn' = NoMessage
    /\ UNCHANGED <<tab, jar, live, logout, history>>

-----------------------------------------------------------------------------
AccessExpires ==
    /\ jar.access # None
    /\ jar' = [jar EXCEPT !.access = None]
    /\ UNCHANGED <<tab, live, logout, signIn, history>>

\* The session ends on the server: revoked from another device, or expired.
RowEnds(r) ==
    /\ r \in live
    /\ live' = live \ {r}
    /\ endedBy' = [endedBy EXCEPT ![r] = "elsewhere"]
    /\ UNCHANGED <<tab, jar, logout, signIn, issued, overlapped, out, loggedIn>>

Next ==
    \/ \E c \in Calls :
          \/ \E copy \in Copies : StartCall(c, copy)
          \/ Answered(c) \/ Fails(c) \/ Unauthorized(c)
          \/ Refreshed(c) \/ NotRefreshed(c)
          \/ CheckRow(c) \/ Rotate(c) \/ RotateFails(c)
          \/ SignedIn(c)
    \/ Logout \/ HandleLogout \/ LoggedOut \/ LogoutLost
    \/ StartSignIn \/ HandleSignIn \/ SignInFails
    \/ AccessExpires
    \/ \E r \in Rows : RowEnds(r)

Spec == Init /\ [][Next]_vars

-----------------------------------------------------------------------------
(* Properties.                                                             *)

(* A copy of the fetch code never races itself: a refresh is not refused   *)
(* because another refresh of the same copy has just rotated the row, which*)
(* is what refreshInFlight is for.                                         *)
NoCopyRacesItself ==
    \A c \in Calls :
        (refresh[c].pc = "refused" /\ refresh[c].row # None)
            => endedBy[refresh[c].row] # call[c].copy

(* A logout that was answered, with no refresh or sign-in beside it, leaves*)
(* the browser without cookies and the session it presented revoked, until *)
(* the next sign-in: no call still on its way brings either back.          *)
SignedOutStaysOut ==
    out # None => /\ jar = [access |-> None, refresh |-> None]
                  /\ out \notin live

(* login() re-syncs the tab with the session just issued: once it has found*)
(* it, the tab says signed in until it signs out, unless the mount effect's*)
(* answer was still to come.                                               *)
LoginTakes == loggedIn => ui = "authenticated"

-----------------------------------------------------------------------------
(* What the proofs about this module rest on: an invariant that is         *)
(* inductive.                                                              *)

\* The rows the browser knows of were issued, and no other has an end.
Known ==
    /\ {jar.refresh, logout.row, out} \subseteq issued \cup {None}
    /\ \A r \in Rows \ issued : endedBy[r] = None

\* A refresh is the one its copy shares; the call that started it waits for
\* it; and its row was not rotated by that copy before.
Refreshing(c) ==
    LET ref == refresh[c]
    IN /\ call[c].pc # "idle" => call[c].copy \in Copies
       /\ ref.pc # "idle" =>
             /\ call[c].pc = "wait" /\ call[c].on = c
             /\ inFlight[call[c].copy] = c
             /\ ref.row \in issued \cup {None}
       /\ ref.pc \in {"checked", "issued"} => ref.row # None
       /\ ref.pc \in {"sent", "checked", "refused"} /\ ref.row # None =>
             endedBy[ref.row] # call[c].copy

\* A row the browser has not been told of.
Fresh(r) ==
    /\ r \in issued /\ r # jar.refresh /\ endedBy[r] \notin Copies
    /\ \A c \in Calls : refresh[c].pc # "idle" => refresh[c].row # r

\* So are the rows that answers bring, each of them another.
Brought ==
    /\ \A c \in Calls : refresh[c].pc = "issued" =>
          /\ Fresh(refresh[c].new)
          /\ signIn.pc = "answered" => refresh[c].new # signIn.row
          /\ \A d \in Calls \ {c} : refresh[d].pc = "issued" =>
                refresh[c].new # refresh[d].new
    /\ signIn.pc = "answered" => Fresh(signIn.row)

\* While the browser has the token of a row that a copy rotated, that copy
\* still waits for the answer.
Rotated ==
    jar.refresh # None /\ endedBy[jar.refresh] \in Copies =>
        \E c \in Calls : /\ refresh[c].pc = "issued" /\ refresh[c].row = jar.refresh
                         /\ call[c].copy = endedBy[jar.refresh]

\* Beside a logout that nothing overlapped, and after it, no cookie is on its
\* way.
Leaving ==
    /\ logout.pc # "idle" /\ ~overlapped =>
          signIn.pc = "idle" /\ \A c \in Calls : refresh[c].pc = "idle"
    /\ logout.pc = "answered" => logout.row \notin live
    /\ out # None =>
          /\ signIn.pc = "idle"
          /\ \A c \in Calls : refresh[c].pc # "idle" => refresh[c].row = None

\* Once a login found its session, no other resolveAuth() is unanswered but
\* for a later login's.
Entering == loggedIn => \A c \in Asking(Calls) : call[c].why = "login"

Inv == /\ TypeOK
       /\ Known
       /\ \A c \in Calls : Refreshing(c)
       /\ Brought
       /\ Rotated
       /\ Leaving
       /\ Entering
       /\ SignedOutStaysOut
       /\ LoginTakes
=============================================================================
