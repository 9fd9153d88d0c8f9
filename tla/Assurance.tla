------------------------------ MODULE Assurance ------------------------------
(***************************************************************************)
(* How verified an account is.  Three services raise                       *)
(* User.verificationLevel - e-mail confirmation, SMS set-up and the manual *)
(* identity review - and the last two then have TrustService recompute the *)
(* trust profile's tier from it.                                           *)
(*                                                                         *)
(* Each handler reads the user, decides, and writes by id in a later step; *)
(* between them lies another query or a call to the SMS provider.  Abort   *)
(* is a failed check, a query that throws or a restart.                    *)
(***************************************************************************)
EXTENDS Naturals

CONSTANTS
    Users,      \* accounts
    Requests,   \* supply of IdentityVerificationRequest rows (a bound)
    Codes,      \* e-mail verification codes
    Handlers,   \* calls that may be in progress at once (a bound)
    None        \* null

Tier == {"UNVERIFIED", "BASIC", "VERIFIED", "TRUSTED"}

\* What is assumed of the constants.
NoneIsNoValue == None \notin Users \cup Requests \cup Codes \cup Tier

VARIABLES
    level,      \* User.verificationLevel
    code,       \* the outstanding e-mail verification code, or None
    email,      \* emailVerifiedAt is set
    sms,        \* smsEnabledAt is set
    identity,   \* identityVerifiedAt is set
    vouched,    \* has a business_verified claim somebody stood behind
    review,     \* the IdentityVerificationRequest table
    profile,    \* TrustProfile.tier, or None without a row
    job,        \* job[h]: what handler h is doing and what it has read
    granted,    \* history: requests an approval of which was committed
    raced,      \* history: accounts two level changes of which overlapped
    torn,       \* history: accounts a recomputation of which was aborted or
                \* overlapped another or a change of the level
    contested   \* history: requests that two reviews had open at once

facts == <<code, email, sms, identity, vouched>>
history == <<granted, raced, torn, contested>>
vars == <<level, facts, review, profile, job, history>>

Level == 0..3

Request == [user   : Users \cup {None},
            status : {"none", "PENDING", "APPROVED", "REJECTED"}]

Job == [pc   : {"idle", "send", "confirm", "sms", "disable", "askUser",
                "askCreate", "approve", "reject", "recompute", "upsert"},
        user : Users \cup {None},
        req  : Requests \cup {None},
        code : Codes \cup {None},
        seen : Level]

Idle == [pc |-> "idle", user |-> None, req |-> None, code |-> None, seen |-> 0]

TypeOK ==
    /\ level \in [Users -> Level]
    /\ code \in [Users -> Codes \cup {None}]
    /\ email \in [Users -> BOOLEAN] /\ sms \in [Users -> BOOLEAN]
    /\ identity \in [Users -> BOOLEAN] /\ vouched \in [Users -> BOOLEAN]
    /\ review \in [Requests -> Request]
    /\ profile \in [Users -> Tier \cup {None}]
    /\ job \in [Handlers -> Job]
    /\ granted \subseteq Requests /\ contested \subseteq Requests
    /\ raced \subseteq Users /\ torn \subseteq Users

(* An account made through a social provider is born with a verified       *)
(* e-mail address and level 0.  Nothing here writes a business_verified    *)
(* claim: either value is possible.                                        *)
Init ==
    /\ level = [u \in Users |-> 0]
    /\ code = [u \in Users |-> None]
    /\ email \in [Users -> BOOLEAN]
    /\ sms = [u \in Users |-> FALSE]
    /\ identity = [u \in Users |-> FALSE]
    /\ vouched \in [Users -> BOOLEAN]
    /\ review = [q \in Requests |-> [user |-> None, status |-> "none"]]
    /\ profile = [u \in Users |-> None]
    /\ job = [h \in Handlers |-> Idle]
    /\ granted = {} /\ contested = {} /\ raced = {} /\ torn = {}

End(h) == job' = [job EXCEPT ![h] = Idle]

Goto(h, pc) == job' = [job EXCEPT ![h].pc = pc]

Busy(u, pcs) == {h \in Handlers : job[h].user = u /\ job[h].pc \in pcs}

Changing == {"confirm", "sms", "approve"}
Recomputing == {"recompute", "upsert"}

StartJob(h, u, q, pc) ==
    job' = [job EXCEPT ![h] = [Idle EXCEPT !.pc = pc, !.user = u, !.req = q]]

(* Handler h has read what it needs about u to go on to change its level.  *)
StartChange(h, u, q, c, pc) ==
    /\ job' = [job EXCEPT ![h] = [pc |-> pc, user |-> u, req |-> q, code |-> c,
                                  seen |-> level[u]]]
    /\ raced' = IF Busy(u, Changing) # {} THEN raced \cup {u} ELSE raced
    /\ torn' = IF Busy(u, Changing \cup Recomputing) # {} THEN torn \cup {u}
               ELSE torn

-----------------------------------------------------------------------------
(* E-mail.                                                                 *)

\* register() and the resend endpoints: the user is read ...
StartSend(h, u) ==
    /\ job[h].pc = "idle"
    /\ ~email[u]
    /\ StartJob(h, u, None, "send")
    /\ UNCHANGED <<level, facts, review, profile, history>>

\* ... and gets a code, which replaces the one before.
SendCode(h, c) ==
    /\ job[h].pc = "send"
    /\ code' = [code EXCEPT ![job[h].user] = c]
    /\ End(h)
    /\ UNCHANGED <<level, email, sms, identity, vouched, review, profile, history>>

\* confirmEmailVerification: the user is read by e-mail, its code compared ...
StartConfirm(h, u) ==
    /\ job[h].pc = "idle"
    /\ code[u] # None
    /\ StartChange(h, u, None, code[u], "confirm")
    /\ UNCHANGED <<level, facts, review, profile, granted, contested>>

\* A mutant of LevelByEmail: the level read is not looked at.
LevelByEmailAlways(seen, now) == 1

\* A mutant of LevelByEmail: the level is raised by one.
LevelByEmailNext(seen, now) == now + 1

LevelByEmail(seen, now) == IF seen = 0 THEN 1 ELSE now

(* ... and updated if it still has that code.                              *)
Confirm(h) ==
    LET u == job[h].user
    IN /\ job[h].pc = "confirm"
       /\ code[u] = job[h].code
       /\ level' = [level EXCEPT ![u] = LevelByEmail(job[h].seen, @)]
       /\ email' = [email EXCEPT ![u] = TRUE]
       /\ code' = [code EXCEPT ![u] = None]
       /\ End(h)
       /\ UNCHANGED <<sms, identity, vouched, review, profile, history>>

-----------------------------------------------------------------------------
(* Phone.                                                                  *)

\* confirmSetup(): the user is read, the SMS provider checks the code ...
StartSms(h, u) ==
    /\ job[h].pc = "idle"
    /\ ~sms[u]
    /\ StartChange(h, u, None, None, "sms")
    /\ UNCHANGED <<level, facts, review, profile, granted, contested>>

LevelBySms(seen, now) == IF seen \in {0, 1} THEN 2 ELSE now

\* A mutant of EnableSms: the profile is not recomputed.
EnableSmsOnly(h) ==
    LET u == job[h].user
    IN /\ job[h].pc = "sms"
       /\ level' = [level EXCEPT ![u] = LevelBySms(job[h].seen, @)]
       /\ sms' = [sms EXCEPT ![u] = TRUE]
       /\ End(h)
       /\ UNCHANGED <<code, email, identity, vouched, review, profile, history>>

(* ... and the user is updated, with a level decided from what was read.   *)
EnableSms(h) ==
    LET u == job[h].user
    IN /\ job[h].pc = "sms"
       /\ level' = [level EXCEPT ![u] = LevelBySms(job[h].seen, @)]
       /\ sms' = [sms EXCEPT ![u] = TRUE]
       /\ Goto(h, "recompute")
       /\ UNCHANGED <<code, email, identity, vouched, review, profile, history>>

\* disable(): read, compare the password, update; the level stays.
StartDisable(h, u) ==
    /\ job[h].pc = "idle"
    /\ sms[u]
    /\ StartJob(h, u, None, "disable")
    /\ UNCHANGED <<level, facts, review, profile, history>>

DisableSms(h) ==
    /\ job[h].pc = "disable"
    /\ sms' = [sms EXCEPT ![job[h].user] = FALSE]
    /\ End(h)
    /\ UNCHANGED <<level, code, email, identity, vouched, review, profile, history>>

-----------------------------------------------------------------------------
(* Identity review.                                                        *)

\* createRequest(): no pending request ...
StartAsk(h, u) ==
    /\ job[h].pc = "idle"
    /\ \A q \in Requests : review[q] # [user |-> u, status |-> "PENDING"]
    /\ StartJob(h, u, None, "askUser")
    /\ UNCHANGED <<level, facts, review, profile, history>>

\* ... not verified yet ...
AskUser(h) ==
    /\ job[h].pc = "askUser"
    /\ level[job[h].user] # 3
    /\ Goto(h, "askCreate")
    /\ UNCHANGED <<level, facts, review, profile, history>>

AskCreate(h, q) ==
    /\ job[h].pc = "askCreate"
    /\ review[q].status = "none"
    /\ review' = [review EXCEPT ![q] = [user |-> job[h].user,
                                        status |-> "PENDING"]]
    /\ End(h)
    /\ UNCHANGED <<level, facts, profile, history>>

Reviewing(q) == {h \in Handlers : job[h].req = q /\
                                  job[h].pc \in {"approve", "reject"}}

\* A mutant of Reviewable: a resolved request may be reviewed again.
ReviewableAgain(q) == review[q].status # "none"

\* getPendingOrThrow()
Reviewable(q) == review[q].status = "PENDING"

StartApprove(h, q) ==
    /\ job[h].pc = "idle"
    /\ Reviewable(q)
    /\ StartChange(h, review[q].user, q, None, "approve")
    /\ contested' = IF Reviewing(q) # {} THEN contested \cup {q} ELSE contested
    /\ UNCHANGED <<level, facts, review, profile, granted>>

StartReject(h, q) ==
    /\ job[h].pc = "idle"
    /\ Reviewable(q)
    /\ StartJob(h, None, q, "reject")
    /\ contested' = IF Reviewing(q) # {} THEN contested \cup {q} ELSE contested
    /\ UNCHANGED <<level, facts, review, profile, granted, raced, torn>>

(* approve(): one transaction over the user, the claim and the request.    *)
CommitApproval(h) ==
    LET u == job[h].user  q == job[h].req
    IN /\ job[h].pc = "approve"
       /\ level' = [level EXCEPT ![u] = 3]
       /\ identity' = [identity EXCEPT ![u] = TRUE]
       /\ review' = [review EXCEPT ![q].status = "APPROVED"]
       /\ granted' = granted \cup {q}
       /\ Goto(h, "recompute")
       /\ UNCHANGED <<code, email, sms, vouched, profile, raced, torn, contested>>

CommitRejection(h) ==
    /\ job[h].pc = "reject"
    /\ review' = [review EXCEPT ![job[h].req].status = "REJECTED"]
    /\ End(h)
    /\ UNCHANGED <<level, facts, profile, history>>

-----------------------------------------------------------------------------
(* TrustService.recompute                                                  *)

TierOf(l, v) == IF l \in {0, 1} THEN "UNVERIFIED" ELSE
                IF l = 2 THEN "BASIC" ELSE
                IF v THEN "TRUSTED" ELSE "VERIFIED"

ReadUser(h) ==
    /\ job[h].pc = "recompute"
    /\ job' = [job EXCEPT ![h].pc = "upsert", ![h].seen = level[job[h].user]]
    /\ UNCHANGED <<level, facts, review, profile, history>>

UpsertProfile(h) ==
    LET u == job[h].user
    IN /\ job[h].pc = "upsert"
       /\ profile' = [profile EXCEPT ![u] = TierOf(job[h].seen, vouched[u])]
       /\ End(h)
       /\ UNCHANGED <<level, facts, review, history>>

Abort(h) ==
    /\ job[h].pc # "idle"
    /\ End(h)
    /\ torn' = IF job[h].pc \in Recomputing THEN torn \cup {job[h].user}
               ELSE torn
    /\ UNCHANGED <<level, facts, review, profile, granted, raced, contested>>

-----------------------------------------------------------------------------
HandlerStep(h) ==
    \/ \E u \in Users :
          \/ StartSend(h, u) \/ StartConfirm(h, u)
          \/ StartSms(h, u) \/ StartDisable(h, u) \/ StartAsk(h, u)
    \/ \E c \in Codes : SendCode(h, c)
    \/ \E q \in Requests :
          AskCreate(h, q) \/ StartApprove(h, q) \/ StartReject(h, q)
    \/ Confirm(h) \/ EnableSms(h) \/ DisableSms(h) \/ AskUser(h)
    \/ CommitApproval(h) \/ CommitRejection(h)
    \/ ReadUser(h) \/ UpsertProfile(h) \/ Abort(h)

Next == \E h \in Handlers : HandlerStep(h)

Spec == Init /\ [][Next]_vars

-----------------------------------------------------------------------------
(* Properties.                                                             *)

(* A level only ever moves forward, as long as no two of the three         *)
(* services were changing it at once.                                      *)
LevelRises == \A u \in Users \ raced : level'[u] >= level[u]

(* Level 3 has an approved identity request of that very account behind    *)
(* it, whatever overlapped, and - unless two reviews of it or two changes  *)
(* overlapped - the request says so and the level is still 3.              *)
LevelThreeIsReviewed ==
    /\ \A u \in Users : level[u] = 3 =>
          identity[u] /\ \E q \in granted : review[q].user = u
    /\ \A q \in Requests \ contested :
          /\ q \in granted <=> review[q].status = "APPROVED"
          /\ q \in granted /\ review[q].user \notin raced
                => level[review[q].user] = 3

(* The profile catches up: when nothing of the account is in progress its  *)
(* tier is that of its level - unless a recomputation was aborted, or      *)
(* overlapped another or a change ("recomputing from scratch is always     *)
(* safe and always correct").  E-mail confirmation, which recomputes       *)
(* nothing, may not change the tier.                                       *)
ProfileCatchesUp ==
    \A u \in Users \ torn :
        Busy(u, Recomputing) = {} =>
            TierOf(level[u], vouched[u]) =
                IF profile[u] = None THEN "UNVERIFIED" ELSE profile[u]

(* What confirmSetup's comment says: it "never downgrades a user already   *)
(* at LEVEL_3".                                                            *)
SmsNeverDowngrades ==
    [][\A u \in Users : level[u] = 3 => level'[u] = 3]_vars

-----------------------------------------------------------------------------
(* What the proofs about this module rest on: an invariant that is         *)
(* inductive.                                                              *)

\* What a call is about, and what it read that still holds unless another
\* overlapped it.
Working(h) ==
    LET j == job[h]
    IN /\ j.pc \notin {"idle", "reject"} => j.user \in Users
       /\ j.pc \in Changing /\ j.user \notin raced => j.seen = level[j.user]
       /\ j.pc = "upsert" /\ j.user \notin torn => j.seen = level[j.user]
       /\ j.pc \in {"approve", "reject"} =>
             /\ j.req \in Requests /\ review[j.req].status # "none"
             /\ Reviewable(j.req) \/ j.req \in contested
       /\ j.pc = "approve" => j.user = review[j.req].user

\* Two calls that change the same thing overlapped.
Apart(g, h) ==
    LET i == job[g]  j == job[h]
    IN /\ i.pc \in Changing /\ j.pc \in Changing
             => i.user # j.user \/ i.user \in raced
       /\ i.pc \in Changing \cup Recomputing /\ j.pc \in Changing \cup Recomputing
             => i.user # j.user \/ i.user \in torn
       /\ i.pc \in {"approve", "reject"} /\ j.pc \in {"approve", "reject"}
             => i.req # j.req \/ i.req \in contested

\* A request that was made, and one that was granted, is somebody's.
Asked ==
    \A q \in Requests :
        /\ review[q].status # "none" => review[q].user \in Users
        /\ q \in granted => review[q].status # "none"

Inv == /\ TypeOK
       /\ Asked
       /\ raced \subseteq torn
       /\ \A h \in Handlers : Working(h)
       /\ \A g, h \in Handlers : g # h => Apart(g, h)
       /\ LevelThreeIsReviewed
       /\ ProfileCatchesUp
=============================================================================
