----------------------------- MODULE SignInForm -----------------------------
(***************************************************************************)
(* The form with which one signs in or registers, and the page on which a  *)
(* forgotten password is reset: two screens that ask for a code sent by    *)
(* email, with a countdown and a button to send another.                   *)
(*                                                                         *)
(* The countdown is started by a change of its seed, which is all that the *)
(* API answers: the lifetime of any code.  The API and the page count the  *)
(* same time, the page from the answer on.  A page is either of the two,   *)
(* until it ends signed in or with the password set.                       *)
(***************************************************************************)
EXTENDS Naturals, FiniteSets

CONSTANTS
    Emails,     \* accounts that are tried
    Calls,      \* calls of the page in flight at once (a bound)
    Ttl,        \* how long a code works: 299 s in the API
    None        \* null

TtlIsPositive == Ttl \in Nat \ {0} /\ None \notin Emails

VARIABLES
    page,       \* "login" or "reset"
    screen,     \* what it shows: code is pendingVerificationEmail # null, or
                \* the stage of that name
    who,        \* the email that was typed last
    seed,       \* verificationExpirySeed, expirySeed
    left,       \* secondsLeft
    busy,       \* busy
    resendBusy, \* resendBusy
    factorBusy, \* busy of TwoFactorChallengeForm
    life,       \* how long the code of each account still works
    call,       \* call[c]: what was asked, and its answer
    asked,      \* history: accounts for which the page had a code sent
    odd,        \* history: the countdown may end early (see below)
    crossed,    \* history: it was started by an answer for another account
    unfound     \* history: login() found no session after a success

vars == <<page, screen, who, seed, left, busy, resendBusy, factorBusy, life,
          call, asked, odd, crossed, unfound>>

\* mine: the challenge it answers is still on the screen.
Call == [kind : {"idle", "signIn", "register", "request", "confirm", "resend",
                 "factor"},
         answer : {"none", "session", "factor", "unverified", "sent", "failed"},
         email : Emails \cup {None}, mine : BOOLEAN]

Idle == [kind |-> "idle", answer |-> "none", email |-> None, mine |-> FALSE]

TypeOK ==
    /\ page \in {"login", "reset"}
    /\ screen \in {"form", "challenge", "code", "done"}
    /\ who \in Emails \cup {None} /\ seed \in {0, Ttl} /\ left \in 0..Ttl
    /\ busy \in BOOLEAN /\ resendBusy \in BOOLEAN /\ factorBusy \in BOOLEAN
    /\ life \in [Emails -> 0..Ttl] /\ call \in [Calls -> Call]
    /\ asked \subseteq Emails
    /\ odd \in BOOLEAN /\ crossed \in BOOLEAN /\ unfound \in BOOLEAN

Init ==
    /\ page \in {"login", "reset"} /\ screen = "form" /\ who = None
    /\ seed = 0 /\ left = 0
    /\ busy = FALSE /\ resendBusy = FALSE /\ factorBusy = FALSE
    /\ life = [e \in Emails |-> 0] /\ call = [c \in Calls |-> Idle]
    /\ asked = {} /\ odd = FALSE /\ crossed = FALSE /\ unfound = FALSE

-----------------------------------------------------------------------------
(* The user.                                                               *)

Ask(c, kind, e) ==
    /\ call[c] = Idle
    /\ call' = [call EXCEPT ![c] = [Idle EXCEPT !.kind = kind, !.email = e,
                                                !.mine = TRUE]]
    /\ UNCHANGED <<page, screen, seed, left, life, asked, odd, crossed, unfound>>

\* handleSubmit, handleRequestCode
Submit(c, e) ==
    /\ screen = "form" /\ ~busy
    /\ \E kind \in IF page = "reset" THEN {"request"} ELSE {"signIn", "register"} :
          Ask(c, kind, e)
    /\ who' = e /\ busy' = TRUE
    /\ UNCHANGED <<resendBusy, factorBusy>>

\* handleConfirmVerification, handleResetPassword
Confirm(c) ==
    /\ screen = "code" /\ ~busy
    /\ Ask(c, "confirm", who)
    /\ busy' = TRUE
    /\ UNCHANGED <<who, resendBusy, factorBusy>>

\* handleResendVerification, handleResend
Resend(c) ==
    /\ screen = "code" /\ ~resendBusy /\ left = 0
    /\ Ask(c, "resend", who)
    /\ resendBusy' = TRUE
    /\ UNCHANGED <<who, busy, factorBusy>>

\* TwoFactorChallengeForm.handleSubmit
SubmitFactor(c) ==
    /\ screen = "challenge" /\ ~factorBusy
    /\ Ask(c, "factor", who)
    /\ factorBusy' = TRUE
    /\ UNCHANGED <<who, busy, resendBusy>>

\* The challenge is cancelled, or one goes back to sign in, whatever is in
\* flight.
Leave ==
    /\ page = "login" /\ screen \in {"challenge", "code"}
    /\ screen' = "form" /\ factorBusy' = FALSE
    /\ call' = [c \in Calls |-> IF screen = "challenge"
                                THEN [call[c] EXCEPT !.mine = FALSE] ELSE call[c]]
    /\ UNCHANGED <<page, who, seed, left, busy, resendBusy, life, asked, odd,
                   crossed, unfound>>

-----------------------------------------------------------------------------
(* The API, and time.                                                      *)

\* A code is sent to who has an account that needs one; anybody is told so.
MaySend(e) == life' \in {life, [life EXCEPT ![e] = Ttl]}

Serve(c) ==
    LET e == call[c].email IN
    /\ call[c].kind # "idle" /\ call[c].answer = "none"
    /\ \E a \in CASE call[c].kind = "signIn" -> {"session", "factor", "unverified"}
                  [] call[c].kind \in {"confirm", "factor"} -> {"session"}
                  [] OTHER -> {"sent"} :
          call' = [call EXCEPT ![c].answer = a]
    /\ call[c].kind = "confirm" => life[e] > 0
    /\ CASE call[c].kind = "confirm" -> life' = [life EXCEPT ![e] = 0]
         [] call[c].kind = "register" -> life' = [life EXCEPT ![e] = Ttl]
         [] call[c].kind \in {"request", "resend"} -> MaySend(e)
         [] OTHER -> life' = life
    /\ asked' = IF call[c].kind \in {"register", "request", "resend"}
                THEN asked \cup {e} ELSE asked
    /\ UNCHANGED <<page, screen, who, seed, left, busy, resendBusy, factorBusy,
                   odd, crossed, unfound>>

\* A wrong password or code, or no answer: it may have been served.
Fail(c) ==
    /\ call[c].kind # "idle" /\ call[c].answer # "failed"
    /\ call' = [call EXCEPT ![c].answer = "failed"]
    /\ odd' = (odd \/ call[c].answer = "sent")
    /\ UNCHANGED <<page, screen, who, seed, left, busy, resendBusy, factorBusy,
                   life, asked, crossed, unfound>>

Less(n) == IF n = 0 THEN 0 ELSE n - 1

Tick ==
    /\ life' = [e \in Emails |-> Less(life[e])] /\ left' = Less(left)
    /\ UNCHANGED <<page, screen, who, seed, busy, resendBusy, factorBusy, call,
                   asked, odd, crossed, unfound>>

-----------------------------------------------------------------------------
(* The answers.                                                            *)

Answered(c, kinds, answer) ==
    /\ call[c].kind \in kinds /\ call[c].answer = answer
    /\ call' = [call EXCEPT ![c] = Idle]

\* useCountdown: it starts anew when the seed changes.
Seeded(s) ==
    /\ seed' = s
    /\ left' = IF s = seed THEN left ELSE s

\* login(): the page is left if it finds the session, and else shows what is
\* given.
LoggedIn(else) ==
    /\ \/ screen' = "done" /\ unfound' = unfound
       \/ screen' = else /\ unfound' = TRUE
    /\ UNCHANGED <<page, who, seed, left, resendBusy, life, asked, odd, crossed>>

\* The button stays disabled: the page is about to be left.
SignedIn(c) ==
    /\ Answered(c, {"signIn"}, "session") /\ LoggedIn(screen)
    /\ UNCHANGED <<busy, factorBusy>>

FactorAccepted(c) ==
    /\ Answered(c, {"factor"}, "session") /\ LoggedIn(screen)
    /\ UNCHANGED <<busy, factorBusy>>

Challenged(c) ==
    /\ Answered(c, {"signIn"}, "factor")
    /\ screen' = "challenge" /\ busy' = FALSE /\ factorBusy' = FALSE
    /\ UNCHANGED <<page, who, seed, left, resendBusy, life, asked, odd, crossed,
                   unfound>>

\* A mutant of SeedOf: a sign-in, which sends no code, leaves the countdown.
SeedOfCode(c) == IF call[c].answer = "sent" THEN Ttl ELSE seed

\* "expiresInSeconds" of the answer, 0 when it has none.
SeedOf(c) == IF call[c].answer = "sent" THEN Ttl ELSE 0

\* The screen for the code is shown.
CodeExpected(c) ==
    /\ \/ Answered(c, {"signIn"}, "unverified")
       \/ Answered(c, {"register", "request"}, "sent")
    /\ screen' = "code" /\ busy' = FALSE
    /\ Seeded(SeedOf(c))
    /\ odd' = (call[c].answer # "sent" \/ SeedOf(c) = seed) /\ crossed' = FALSE
    /\ UNCHANGED <<page, who, resendBusy, factorBusy, life, asked, unfound>>

Resent(c) ==
    /\ Answered(c, {"resend"}, "sent")
    /\ Seeded(Ttl) /\ resendBusy' = FALSE
    /\ LET other == screen # "code" \/ call[c].email # who IN
       /\ odd' = (seed = Ttl \/ other) /\ crossed' = (crossed \/ other)
    /\ UNCHANGED <<page, screen, who, busy, factorBusy, life, asked, unfound>>

\* The code was right: one is signed in, or the password is set.
Confirmed(c) ==
    /\ Answered(c, {"confirm"}, "session") /\ busy' = FALSE
    /\ IF page = "login" THEN LoggedIn("form")
       ELSE /\ screen' = "done"
            /\ UNCHANGED <<page, who, seed, left, resendBusy, life, asked, odd,
                           crossed, unfound>>
    /\ UNCHANGED factorBusy

\* A mutant of Released: only a success enables the button.
ReleasedNever(c) == busy

\* busy after call c has failed.
Released(c) == busy /\ call[c].kind \in {"resend", "factor"}

Failed(c) ==
    /\ Answered(c, {call[c].kind}, "failed")
    /\ busy' = Released(c)
    /\ resendBusy' = (resendBusy /\ call[c].kind # "resend")
    /\ factorBusy' = (factorBusy /\ ~(call[c].kind = "factor" /\ call[c].mine))
    /\ UNCHANGED <<page, screen, who, seed, left, life, asked, odd, crossed,
                   unfound>>

Next ==
    \/ /\ screen # "done"
       /\ \/ Leave
          \/ \E c \in Calls :
                \/ \E e \in Emails : Submit(c, e)
                \/ Confirm(c) \/ Resend(c) \/ SubmitFactor(c) \/ Serve(c)
                \/ Fail(c) \/ SignedIn(c) \/ FactorAccepted(c) \/ Challenged(c)
                \/ CodeExpected(c) \/ Resent(c) \/ Confirmed(c) \/ Failed(c)
    \/ Tick

Spec == Init /\ [][Next]_vars

-----------------------------------------------------------------------------
(* Properties.                                                             *)

Quiet == \A c \in Calls : call[c] = Idle

(* The countdown on the screen is that of the account's own code: it runs  *)
(* only if the page had one sent, unless the answer for another account    *)
(* started it; and it does not end before the code does, unless the last   *)
(* answer left the seed as it was, was lost, or told of no code.           *)
CountdownIsTheCodes ==
    screen = "code" =>
        /\ left > 0 /\ ~crossed => who \in asked
        /\ Quiet /\ ~odd => left >= life[who]

(* No button stays disabled when no call is in flight, unless a success    *)
(* was followed by a login() that found no session.                        *)
ButtonsComeBack ==
    Quiet /\ screen # "done" /\ ~unfound => ~busy /\ ~resendBusy /\ ~factorBusy

(* What useCountdown says of the two screens: they "need it to reset to a  *)
(* fresh window on every resend".  When the answer to a resend comes the   *)
(* countdown starts anew.                                                  *)
CountdownRestarts ==
    [][\A c \in Calls : Resent(c) => left' = Ttl]_vars
-----------------------------------------------------------------------------
(* The inductive invariant.  What disables the buttons of the form is one  *)
(* call about the email that was typed last; a button that is disabled     *)
(* waits for a call, or for the page to be left; and the countdown covers  *)
(* the code unless the answer that tells of it is still on its way.        *)

Waits == {"signIn", "register", "request", "confirm"}

CallsAreWhole ==
    /\ \A c \in Calls :
          /\ call[c].kind = "idle" => call[c].answer = "none"
          /\ call[c].kind # "idle" => call[c].email # None
          /\ call[c].answer = "sent" => call[c].email \in asked
          /\ call[c].kind \in Waits => busy /\ call[c].email = who
    /\ \A c, d \in Calls : call[c].kind \in Waits /\ call[d].kind \in Waits => c = d

ButtonsWait ==
    /\ busy => \/ screen = "done" \/ unfound
               \/ \E c \in Calls : call[c].kind \in Waits
    /\ resendBusy => \E c \in Calls : call[c].kind = "resend"
    /\ factorBusy => \/ screen = "done" \/ unfound
                     \/ \E c \in Calls : call[c].kind = "factor" /\ call[c].mine

CodeIsCovered ==
    /\ seed = 0 => left = 0
    /\ screen \in {"challenge", "code"} => who # None
    /\ screen = "code" =>
          /\ left > 0 /\ ~crossed => who \in asked
          /\ ~odd /\ (\A c \in Calls : call[c].answer # "sent") =>
                left >= life[who]

Inv == TypeOK /\ CallsAreWhole /\ ButtonsWait /\ CodeIsCovered
=============================================================================
