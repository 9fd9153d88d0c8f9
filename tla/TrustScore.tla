----------------------------- MODULE TrustScore -----------------------------
(***************************************************************************)
(* TrustService.computeScore(): the 0-100 confidence in an account, worked *)
(* out from the facts there are about it.  Assurance models how the trust  *)
(* profile is recomputed and stored; this module models what is computed.  *)
(* Its steps are the ways in which the facts change: other services do so, *)
(* and time passes.                                                        *)
(***************************************************************************)
EXTENDS Integers, FiniteSets, FiniteSetsExt

CONSTANTS
    MaxDevices,     \* registered devices (a bound)
    MaxRevoked,     \* devices revoked within the window (a bound)
    Changes         \* how far from where it began an account goes (a bound)

\* What is assumed of the constants.
BoundsAreNumbers == {MaxDevices, MaxRevoked, Changes} \subseteq Nat /\ MaxDevices # 0

VARIABLES
    fact,       \* what the database says of the account
    changed     \* how many changes there have been

vars == <<fact, changed>>

\* Facts that are either so or not, and speak for the account.
Held == {"totp", "sms", "passkey", "codes", "business", "thirdParty", "aged", "active"}

Facts == [held : SUBSET Held,
          level : 0..3,                 \* User.verificationLevel
          devices : 0..MaxDevices,
          pending : BOOLEAN,            \* a device approval is undecided
          reuse : {"never", "past", "recent"},  \* OAUTH_TOKEN_REUSE_DETECTED
          revoked : 0..MaxRevoked,      \* DEVICE_REVOKED in the window
          suspended : BOOLEAN]

TypeOK == fact \in Facts /\ changed \in 0..Changes

Newcomer == [held |-> {}, level |-> 0, devices |-> 0, pending |-> FALSE,
             reuse |-> "never", revoked |-> 0, suspended |-> FALSE]

Assured == [Newcomer EXCEPT !.held = Held, !.level = 3, !.devices = 1]

Init == fact \in {Newcomer, Assured} /\ changed = 0

-----------------------------------------------------------------------------
(* computeScore().                                                         *)

Has(f, h) == f.held \cap h # {}

IdentityAssurance(f) == 6 * f.level

AccountSecurity(f) ==
    (IF Has(f, {"totp", "sms"}) THEN 6 ELSE 0) + (IF Has(f, {"passkey"}) THEN 4 ELSE 0)
        + (IF Has(f, {"codes"}) THEN 2 ELSE 0)

\* A mutant of Resolved: an account with no device has none unresolved.
ResolvedVacuously(f) == ~f.pending

Resolved(f) == f.devices > 0 /\ ~f.pending

DeviceTrust(f) == (IF f.devices > 0 THEN 3 ELSE 0) + (IF Resolved(f) THEN 3 ELSE 0)

VerifiedClaims(f) ==
    (IF Has(f, {"business"}) THEN 5 ELSE 0) + (IF Has(f, {"thirdParty"}) THEN 3 ELSE 0)

\* The bonus for sustained activity asks for no reuse of a token, ever.
AccountHistory(f) ==
    (IF Has(f, {"aged"}) THEN 3 ELSE 0)
        + (IF Has(f, {"active"}) /\ f.reuse = "never" THEN 3 ELSE 0)

\* A mutant of Penalties: a reuse counts for ever.
PenaltiesForEver(f) ==
    (IF f.reuse # "never" THEN 30 ELSE 0) + Min({9, 3 * f.revoked})

Penalties(f) == (IF f.reuse = "recent" THEN 30 ELSE 0) + Min({9, 3 * f.revoked})

RawScore(f) ==
    50 + IdentityAssurance(f) + AccountSecurity(f) + DeviceTrust(f)
       + VerifiedClaims(f) + AccountHistory(f) - Penalties(f)

Score(f) == IF f.suspended THEN 0 ELSE Max({0, Min({100, RawScore(f)})})

-----------------------------------------------------------------------------
(* How the facts change.                                                   *)

Change(f) == changed < Changes /\ changed' = changed + 1 /\ fact' = f

Gain(h) == Change([fact EXCEPT !.held = @ \cup {h}])

\* A factor is disabled, the last code used, a claim taken back.  An
\* account does not grow younger, nor its sign-ins fewer.
Lose(h) == h \notin {"aged", "active"} /\ Change([fact EXCEPT !.held = @ \ {h}])

ReachLevel(n) == Change([fact EXCEPT !.level = n])

RegisterDevice == fact.devices < MaxDevices /\ Change([fact EXCEPT !.devices = @ + 1])

RevokeDevice ==
    /\ fact.devices > 0 /\ fact.revoked < MaxRevoked
    /\ Change([fact EXCEPT !.devices = @ - 1, !.revoked = @ + 1])

\* A device approval is asked for, or the last one undecided is decided.
ApprovalsChange == Change([fact EXCEPT !.pending = ~@])

ReuseToken == Change([fact EXCEPT !.reuse = "recent"])

\* penaltyDecayDays pass with nothing new.
WindowPasses ==
    Change([fact EXCEPT !.reuse = IF @ = "never" THEN @ ELSE "past", !.revoked = 0])

SuspensionChanges == Change([fact EXCEPT !.suspended = ~@])

Next ==
    \/ \E h \in Held : Gain(h) \/ Lose(h)
    \/ \E n \in 1..3 : ReachLevel(n)
    \/ RegisterDevice \/ RevokeDevice \/ ApprovalsChange
    \/ ReuseToken \/ WindowPasses \/ SuspensionChanges

Spec == Init /\ [][Next]_vars

-----------------------------------------------------------------------------
(* Properties.                                                             *)

\* Accounts about which one thing more speaks, or one thing less tells
\* against.
Improved(f) ==
    {[f EXCEPT !.held = @ \cup {h}] : h \in Held}
        \cup {[f EXCEPT !.level = n] : n \in f.level..3}
        \cup {[f EXCEPT !.devices = n] : n \in f.devices..MaxDevices}
        \cup {[f EXCEPT !.revoked = n] : n \in 0..f.revoked}
        \cup {[f EXCEPT !.pending = FALSE], [f EXCEPT !.suspended = FALSE]}
        \cup {[f EXCEPT !.reuse = r] : r \in IF f.reuse = "recent" THEN {"never", "past"}
                                                                 ELSE {"never", f.reuse}}

\* The account once the window has passed over what is held against it.
Forgiven(f) == [f EXCEPT !.revoked = 0, !.reuse = IF @ = "never" THEN @ ELSE "past"]

(* The score is current confidence: nothing that speaks for an account     *)
(* lowers it, nobody starts but at the baseline, a token that was reused   *)
(* costs 30 and revoked devices 9 at most, a clean window restores all but *)
(* the bonus for activity, and the limits of the scale are not what keeps  *)
(* an account that is not suspended within them.                           *)
ScoreIsCurrentConfidence ==
    /\ \A g \in Improved(fact) : Score(g) >= Score(fact)
    /\ Score(Newcomer) = 50
    /\ RawScore(fact) \in 11..100
    /\ ~fact.suspended =>
          LET clean == Score([fact EXCEPT !.reuse = "never", !.revoked = 0])
          IN /\ clean - Score(Forgiven(fact)) \in {0, 3}
             /\ clean - Score(fact) <= 42
=============================================================================
