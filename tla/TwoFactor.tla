----------------------------- MODULE TwoFactor ------------------------------
(***************************************************************************)
(* The second factor of one account (rows of different accounts never      *)
(* meet): setting up, confirming and disabling an authenticator app, its   *)
(* backup codes, and the challenge a password sign-in trades for a session.*)
(*                                                                         *)
(* A call reads the user once, works with that row across its awaits, and  *)
(* commits without looking again - except where it redeems a backup code   *)
(* or a challenge, which are conditional updates.                          *)
(***************************************************************************)
EXTENDS Naturals

CONSTANTS
    Secrets,    \* supply of authenticator secrets (a bound)
    Codes,      \* supply of backup codes, one for each set of eight (a bound)
    Challenges, \* supply of challenge tokens (a bound)
    Handlers,   \* calls in progress at once (a bound)
    None        \* null

\* What an instance of this module assumes of its constants.
NoneIsNoRow == None \notin Secrets \cup Codes \cup Challenges

VARIABLES
    secret,     \* User.totpSecretEncrypted
    enabled,    \* User.totpEnabledAt is set
    sms,        \* User.smsEnabledAt is set
    backup,     \* the TotpBackupCode table; a deleted code counts as used
    challenge,  \* User.twoFactorChallengeTokenHash
    stale,      \* challenges past twoFactorChallengeExpiresAt
    job,        \* job[h]: what handler h is doing and what it has read
    issued,     \* history: secrets and challenges handed out so far
    proven,     \* history: the secret the last confirmation verified a code of
    contested,  \* history: two set-ups were in progress at once
    bought,     \* history: what each backup code was spent on
    sessions    \* history: sessions issued for each challenge

account == <<secret, enabled, sms, backup, challenge, stale>>
history == <<issued, proven, contested, bought, sessions>>
vars == <<account, job, history>>

\* What a code may have bought: a session, 2FA off, or not yet anything.
Purchases == {"nothing", "pending", "session", "disabled", "cut"}

Job == [pc : {"idle", "begin", "confirm", "disable", "verify", "redeem",
              "issue", "challenge"},
        secret : Secrets \cup {None}, code : Codes \cup {None},
        challenge : Challenges \cup {None}, sms : BOOLEAN]

Idle == [pc |-> "idle", secret |-> None, code |-> None, challenge |-> None,
         sms |-> FALSE]

TypeOK ==
    /\ secret \in Secrets \cup {None}
    /\ enabled \in BOOLEAN
    /\ sms \in BOOLEAN
    /\ backup \in [Codes -> {"none", "unused", "used"}]
    /\ challenge \in Challenges \cup {None}
    /\ stale \subseteq Challenges
    /\ job \in [Handlers -> Job]
    /\ issued \subseteq Secrets \cup Challenges
    /\ proven \in Secrets \cup {None}
    /\ contested \in BOOLEAN
    /\ bought \in [Codes -> [by : Purchases, challenge : Challenges \cup {None}]]
    /\ sessions \in [Challenges -> Nat]

Init ==
    /\ secret = None /\ enabled = FALSE /\ sms \in BOOLEAN
    /\ backup = [c \in Codes |-> "none"]
    /\ challenge = None /\ stale = {}
    /\ job = [h \in Handlers |-> Idle]
    /\ issued = {} /\ proven = None /\ contested = FALSE
    /\ bought = [c \in Codes |-> [by |-> "nothing", challenge |-> None]]
    /\ sessions = [c \in Challenges |-> 0]

Goto(h, pc) == job' = [job EXCEPT ![h].pc = pc]

End(h) == job' = [job EXCEPT ![h] = Idle]

-----------------------------------------------------------------------------
(* The authenticator app.                                                  *)

SettingUp == {h \in Handlers : job[h].pc \in {"begin", "confirm", "disable"}}

Contest == contested' = (contested \/ SettingUp # {})

\* A mutant of MayBegin: an enabled authenticator may be set up again.
MayBeginAgain == TRUE

MayBegin == ~enabled

\* beginSetup(): the user is read ...
ReadBegin(h) ==
    /\ job[h].pc = "idle" /\ MayBegin
    /\ Goto(h, "begin") /\ Contest
    /\ UNCHANGED <<account, issued, proven, bought, sessions>>

\* ... and gets a new secret, whatever happened since.
Begin(h, s) ==
    /\ job[h].pc = "begin" /\ s \notin issued
    /\ secret' = s
    /\ issued' = issued \cup {s}
    /\ End(h)
    /\ UNCHANGED <<enabled, sms, backup, challenge, stale,
                   proven, contested, bought, sessions>>

\* confirmSetup(): the user is read, a code of the secret read is verified ...
ReadConfirm(h) ==
    /\ job[h].pc = "idle" /\ ~enabled /\ secret # None
    /\ job' = [job EXCEPT ![h] = [Idle EXCEPT !.pc = "confirm", !.secret = secret]]
    /\ Contest
    /\ UNCHANGED <<account, issued, proven, bought, sessions>>

\* ... and one transaction enables the authenticator and adds backup codes.
Confirm(h, c) ==
    /\ job[h].pc = "confirm" /\ backup[c] = "none"
    /\ enabled' = TRUE
    /\ backup' = [backup EXCEPT ![c] = "unused"]
    /\ proven' = job[h].secret
    /\ End(h)
    /\ UNCHANGED <<secret, sms, challenge, stale, issued, contested, bought, sessions>>

(* verifyCodeOrBackupCode(): the app's code, or a backup code that a       *)
(* conditional update finds unused.                                        *)
Spend(c, ch) ==
    /\ backup[c] = "unused"
    /\ backup' = [backup EXCEPT ![c] = "used"]
    /\ bought' = [bought EXCEPT ![c] = [by |-> "pending", challenge |-> ch]]

ByApp == UNCHANGED <<backup, bought>>

\* disable(): the user is read, password and code are checked ...
ReadDisable(h) ==
    /\ job[h].pc = "idle" /\ enabled /\ secret # None
    /\ \/ ByApp /\ Goto(h, "disable")
       \/ \E c \in Codes : /\ Spend(c, None)
                           /\ job' = [job EXCEPT ![h] = [Idle EXCEPT
                                         !.pc = "disable", !.code = c]]
    /\ Contest
    /\ UNCHANGED <<secret, enabled, sms, challenge, stale, issued, proven, sessions>>

\* What handler h has spent, if it was a backup code, bought this.
Bought(h, what) ==
    bought' = IF job[h].code = None THEN bought
              ELSE [bought EXCEPT ![job[h].code].by = what]

\* ... and one transaction clears the authenticator and its backup codes.
Disable(h) ==
    /\ job[h].pc = "disable"
    /\ secret' = None /\ enabled' = FALSE
    /\ backup' = [c \in Codes |-> IF backup[c] = "none" THEN "none" ELSE "used"]
    /\ Bought(h, "disabled")
    /\ End(h)
    /\ UNCHANGED <<sms, challenge, stale, issued, proven, contested, sessions>>

-----------------------------------------------------------------------------
(* The challenge.                                                          *)

\* login(): the password is right and a second factor is on ...
PasswordAccepted(h) ==
    /\ job[h].pc = "idle" /\ (enabled \/ sms)
    /\ Goto(h, "challenge")
    /\ UNCHANGED <<account, history>>

\* ... issueChallenge(): the token replaces the one before.
IssueChallenge(h, ch) ==
    /\ job[h].pc = "challenge" /\ ch \notin issued
    /\ challenge' = ch
    /\ issued' = issued \cup {ch}
    /\ End(h)
    /\ UNCHANGED <<secret, enabled, sms, backup, stale,
                   proven, contested, bought, sessions>>

Usable(ch) == ch # None /\ ch \notin stale

\* verifyChallenge(): the user is found by the token ...
ReadChallenge(h) ==
    /\ job[h].pc = "idle" /\ Usable(challenge)
    /\ job' = [job EXCEPT ![h] = [Idle EXCEPT !.pc = "verify",
                                     !.challenge = challenge, !.sms = sms,
                                     !.secret = IF enabled THEN secret ELSE None]]
    /\ UNCHANGED <<account, history>>

\* ... a code is verified: the app's, a backup code, or one sent by SMS ...
Verify(h) ==
    /\ job[h].pc = "verify"
    /\ \/ /\ job[h].secret # None \/ job[h].sms
          /\ ByApp /\ Goto(h, "redeem")
       \/ /\ job[h].secret # None
          /\ \E c \in Codes : /\ Spend(c, job[h].challenge)
                              /\ job' = [job EXCEPT ![h].pc = "redeem", ![h].code = c]
    /\ UNCHANGED <<secret, enabled, sms, challenge, stale,
                   issued, proven, contested, sessions>>

\* A mutant of Redeemable: the token read is redeemed, whatever became of it.
RedeemableAsRead(ch) == TRUE

\* updateMany({where: {id, twoFactorChallengeTokenHash}})
Redeemable(ch) == challenge = ch

\* ... and only then the challenge is redeemed, by whoever comes first.
Redeem(h) ==
    /\ job[h].pc = "redeem"
    /\ IF Redeemable(job[h].challenge)
       THEN challenge' = None /\ Goto(h, "issue")
       ELSE End(h) /\ UNCHANGED challenge
    /\ UNCHANGED <<secret, enabled, sms, backup, stale, history>>

IssueSession(h) ==
    /\ job[h].pc = "issue"
    /\ sessions' = [sessions EXCEPT ![job[h].challenge] = @ + 1]
    /\ Bought(h, "session")
    /\ End(h)
    /\ UNCHANGED <<account, issued, proven, contested>>

\* SMS 2FA is turned on or off (module Assurance).
ToggleSms ==
    /\ sms' = ~sms
    /\ UNCHANGED <<secret, enabled, backup, challenge, stale, job, history>>

Lapse ==
    /\ Usable(challenge)
    /\ stale' = stale \cup {challenge}
    /\ UNCHANGED <<secret, enabled, sms, backup, challenge, job, history>>

\* A query throws or the process restarts.
Stop(h) ==
    /\ job[h].pc # "idle"
    /\ Bought(h, "cut")
    /\ End(h)
    /\ UNCHANGED <<account, issued, proven, contested, sessions>>

Next ==
    \/ ToggleSms \/ Lapse
    \/ \E h \in Handlers :
          \/ ReadBegin(h) \/ ReadConfirm(h) \/ ReadDisable(h) \/ Disable(h)
          \/ PasswordAccepted(h) \/ ReadChallenge(h) \/ Verify(h)
          \/ Redeem(h) \/ IssueSession(h) \/ Stop(h)
          \/ \E s \in Secrets : Begin(h, s)
          \/ \E c \in Codes : Confirm(h, c)
          \/ \E ch \in Challenges : IssueChallenge(h, ch)

Spec == Init /\ [][Next]_vars

-----------------------------------------------------------------------------
(* Properties.                                                             *)

(* An authenticator is on only with the secret a code of which confirmed   *)
(* it, and with backup codes added no more than once - as long as no two   *)
(* set-ups overlapped, when the code may enable a secret nobody has proven *)
(* or none at all.                                                         *)
FactorWasProven ==
    ~contested =>
        /\ enabled => secret # None /\ secret = proven
        /\ \A c, d \in Codes : backup[c] = "unused" /\ backup[d] = "unused" => c = d

(* A challenge buys one session, and a backup code is spent for nothing    *)
(* only if the call was cut, or its challenge was redeemed or replaced     *)
(* between the two updates.                                                *)
FactorsBuyOneSession ==
    /\ \A ch \in Challenges : sessions[ch] <= 1
    /\ \A c \in Codes :
          /\ bought[c].by = "pending"
          /\ \A h \in Handlers : job[h].code # c
          => bought[c].challenge # challenge
=============================================================================
