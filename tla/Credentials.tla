----------------------------- MODULE Credentials -----------------------------
(***************************************************************************)
(* The refresh credentials of the Core API and everything that creates,    *)
(* rotates or revokes them: Session rows (the dashboard) and               *)
(* OAuthRefreshToken rows (connected products), the Device rows both are   *)
(* tagged with, account suspension and deletion.                           *)
(*                                                                         *)
(* Each request runs as a handler that yields at every `await`: one        *)
(* database statement (or one $transaction) is one atomic step, so a value *)
(* a handler has read may be stale by the time it is used.                 *)
(*                                                                         *)
(* A row and the opaque refresh token it stores the hash of are one thing  *)
(* here.  Time is nondeterministic: a live row may expire at any moment,   *)
(* so may the 15-minute access token signed beside a session.              *)
(***************************************************************************)
EXTENDS Naturals

CONSTANTS
    Users,      \* accounts
    Devices,    \* client-generated x-device-id values
    Rows,       \* supply of Session / OAuthRefreshToken rows (a bound)
    Handlers,   \* requests that may be in progress at once (a bound)
    Sweepers,   \* accounts that may call "sign out all devices" (a bound)
    None        \* null

ASSUME NoneIsNoValue == None \notin Users \cup Devices \cup Rows

VARIABLES
    row,        \* the two token tables, keyed by row id
    device,     \* device[u][d]: state of the Device row (userId, deviceId)
    suspended,  \* User.suspended
    deleted,    \* User.deletedAt is set
    verified,   \* User.emailVerifiedAt is set
    access,     \* accounts holding an unexpired access token (a stateless JWT)
    pass,       \* <<u, p>>: an unredeemed one-time pass of kind p
    job,        \* job[h]: what handler h is doing and what it has read so far
    sweep,      \* sweep[u]: progress of u's "sign out all devices"
    forked,     \* history: families two refreshes of which have overlapped
    straggler   \* history: rows inserted under a device already revoked

vars == <<row, device, suspended, deleted, verified, access, pass, job, sweep,
          forked, straggler>>

Kinds == {"session", "oauth"}

(* "session": a two-factor challenge, a social exchange code or an approved *)
(* QR request; "oauth": an authorization code; "verify": an emailed code.  *)
Passes == {"session", "oauth", "verify"}

(* A free row is one that was never inserted.  family is familyId on an    *)
(* OAuthRefreshToken; a Session has no such column, there it is a history  *)
(* of which sign-in the row descends from.                                 *)
Row == [state  : {"free", "live", "expired", "revoked"},
        kind   : Kinds,
        user   : Users \cup {None},
        device : Devices \cup {None},
        family : Rows \cup {None}]

FreeRow == [state |-> "free", kind |-> "session", user |-> None,
            device |-> None, family |-> None]

Job == [pc   : {"idle", "rotate", "resolve", "unrevoke", "create",
                "kill", "dropDevice"},
        user : Users \cup {None},
        kind : Kinds,
        dev  : Devices \cup {None},
        src  : Rows \cup {None}]

Idle == [pc |-> "idle", user |-> None, kind |-> "session", dev |-> None,
         src |-> None]

Sweep == [on       : BOOLEAN,         \* a sign-out-all call is in progress
          sessions : BOOLEAN,         \* its session.updateMany has run
          devices  : {"read", "txn", "done"},
          list     : SUBSET Devices,  \* device ids its findMany returned
          before   : SUBSET Rows]     \* history: rows it must have swept

NoSweep == [on |-> FALSE, sessions |-> FALSE, devices |-> "read",
            list |-> {}, before |-> {}]

TypeOK ==
    /\ row \in [Rows -> Row]
    /\ device \in [Users -> [Devices -> {"unseen", "active", "revoked"}]]
    /\ suspended \in [Users -> BOOLEAN]
    /\ deleted \in [Users -> BOOLEAN]
    /\ verified \in [Users -> BOOLEAN]
    /\ access \subseteq Users
    /\ pass \subseteq Users \X Passes
    /\ job \in [Handlers -> Job]
    /\ sweep \in [Users -> Sweep]
    /\ forked \subseteq Rows
    /\ straggler \subseteq Rows

Init ==
    /\ row = [r \in Rows |-> FreeRow]
    /\ device = [u \in Users |-> [d \in Devices |-> "unseen"]]
    /\ suspended = [u \in Users |-> FALSE]
    /\ deleted = [u \in Users |-> FALSE]
    /\ verified \in [Users -> BOOLEAN]
    /\ access = {}
    /\ pass = {}
    /\ job = [h \in Handlers |-> Idle]
    /\ sweep = [u \in Users |-> NoSweep]
    /\ forked = {}
    /\ straggler = {}

-----------------------------------------------------------------------------
Live(r) == row[r].state = "live"

OwnedBy(u, ks) == {r \in Rows : row[r].user = u /\ row[r].kind \in ks}

Tagged(u, ds) == {r \in Rows : row[r].user = u /\ row[r].device \in ds}

Family(f) == {r \in Rows : row[r].family = f}

\* A mutant of Revoked: the rows are deleted instead.
RevokedByDelete(S) == [r \in Rows |-> IF r \in S THEN [state |-> "gone"]
                                      ELSE row[r]]

\* updateMany({where: {..., revokedAt: null}, data: {revokedAt: now}})
Revoked(S) == [r \in Rows |->
                 IF r \in S /\ row[r].state \in {"live", "expired"}
                 THEN [row[r] EXCEPT !.state = "revoked"]
                 ELSE row[r]]

\* JwtAuthGuard: a signed, unexpired access token is enough; nothing is read.
HasAccess(u) == u \in access

\* Refreshes of family f between their check and their insert.
Refreshing(f) == {h \in Handlers : /\ job[h].src # None
                                   /\ row[job[h].src].family = f}

Issue(h, u, k, d, r, pc) ==
    job' = [job EXCEPT ![h] = [pc |-> pc, user |-> u, kind |-> k,
                               dev |-> d, src |-> r]]

-----------------------------------------------------------------------------
(* Ways in.                                                                *)

\* A mutant of MaySignIn: suspension is not looked at.
MaySignInSuspended(u) == ~deleted[u] /\ verified[u]

MaySignIn(u) == ~suspended[u] /\ ~deleted[u] /\ verified[u]

(* login() and validateCredentialsForPasswordGrant(): the user row is read *)
(* and refused if suspended or unverified; the handler goes on to issue.   *)
(* (Deletion replaces the email the lookup needs.)                         *)
SignIn(h, u, k, d) ==
    /\ job[h].pc = "idle"
    /\ MaySignIn(u)
    /\ Issue(h, u, k, d, None, "resolve")
    /\ UNCHANGED <<row, device, suspended, deleted, verified, access, pass,
                   sweep, forked, straggler>>

(* Sign-ins that take a second step: a two-factor challenge, a social      *)
(* exchange code (and a passkey assertion, for NDY HUB or for a product,   *)
(* whose second step follows in the same request).  Suspension is checked  *)
(* now, not on redemption.                                                 *)
GainPass(u, p) ==
    /\ p # "verify"
    /\ ~suspended[u]
    /\ pass' = pass \cup {<<u, p>>}
    /\ UNCHANGED <<row, device, suspended, deleted, verified, access, job,
                   sweep, forked, straggler>>

(* register() and the two "resend" endpoints; the last code replaces any   *)
(* earlier one.  Suspension is not looked at.                              *)
SendVerification(u) ==
    /\ ~verified[u] /\ ~deleted[u]
    /\ pass' = pass \cup {<<u, "verify">>}
    /\ UNCHANGED <<row, device, suspended, deleted, verified, access, job,
                   sweep, forked, straggler>>

(* Approving a QR login request (p = "session") or an OAuth consent        *)
(* (p = "oauth"): guarded by JwtAuthGuard alone.                           *)
ApprovePass(u, p) ==
    /\ p # "verify"
    /\ HasAccess(u)
    /\ pass' = pass \cup {<<u, p>>}
    /\ UNCHANGED <<row, device, suspended, deleted, verified, access, job,
                   sweep, forked, straggler>>

PassLapses(u, p) ==
    /\ <<u, p>> \in pass
    /\ pass' = pass \ {<<u, p>>}
    /\ UNCHANGED <<row, device, suspended, deleted, verified, access, job,
                   sweep, forked, straggler>>

(* verifyChallenge(), exchangeLoginCode(), exchangeLoginRequest(), the     *)
(* authorization_code grant, confirmEmailVerification(): consume the pass  *)
(* atomically, then issue.                                                 *)
RedeemPass(h, u, p, d) ==
    /\ job[h].pc = "idle"
    /\ <<u, p>> \in pass
    /\ p = "verify" => ~deleted[u]
    /\ pass' = pass \ {<<u, p>>}
    /\ verified' = [verified EXCEPT ![u] = @ \/ p = "verify"]
    /\ Issue(h, u, IF p = "oauth" THEN "oauth" ELSE "session", d, None,
             "resolve")
    /\ UNCHANGED <<row, device, suspended, deleted, access, sweep,
                   forked, straggler>>

-----------------------------------------------------------------------------
(* Rotation: rotateSession() and rotateRefreshToken().                     *)

\* A mutant of Usable: the expiry check is forgotten.
UsableThoughExpired(r) == row[r].state \in {"live", "expired"}

\* The row is neither revoked nor expired.
Usable(r) == row[r].state = "live"

(* findUnique and the checks on what it found.                             *)
RefreshCheck(h, r, d) ==
    /\ job[h].pc = "idle"
    /\ Usable(r)
    /\ Issue(h, row[r].user, row[r].kind, d, r, "rotate")
    /\ forked' = IF Refreshing(row[r].family) # {}
                 THEN forked \cup {row[r].family} ELSE forked
    /\ UNCHANGED <<row, device, suspended, deleted, verified, access, pass, sweep,
                   straggler>>

\* A mutant of RefreshRevoke: the old row is left as it is.
RefreshKeep(h) ==
    /\ job[h].pc = "rotate"
    /\ job' = [job EXCEPT ![h].pc = "resolve"]
    /\ UNCHANGED <<row, device, suspended, deleted, verified, access, pass,
                   sweep, forked, straggler>>

(* update({where: {id}, data: {revokedAt}}): no condition on revokedAt.    *)
RefreshRevoke(h) ==
    /\ job[h].pc = "rotate"
    /\ row' = [row EXCEPT ![job[h].src].state = "revoked"]
    /\ job' = [job EXCEPT ![h].pc = "resolve"]
    /\ UNCHANGED <<device, suspended, deleted, verified, access, pass, sweep,
                   forked, straggler>>

(* An OAuth refresh token presented after it was revoked: reuse detection  *)
(* revokes whatever is not yet revoked in its family.                      *)
ReuseDetected(r) ==
    /\ row[r].kind = "oauth" /\ row[r].state = "revoked"
    /\ row' = Revoked(Family(row[r].family))
    /\ UNCHANGED <<device, suspended, deleted, verified, access, pass, job, sweep,
                   forked, straggler>>

-----------------------------------------------------------------------------
(* resolveDevice(), then the insert.                                       *)

ResolveDevice(h) ==
    LET u == job[h].user  d == job[h].dev
    IN /\ job[h].pc = "resolve"
       /\ \/ /\ d = None
             /\ job' = [job EXCEPT ![h].pc = "create"]
             /\ UNCHANGED device
          \/ /\ d # None /\ device[u][d] = "revoked"
             /\ job' = [job EXCEPT ![h].pc = "unrevoke"]
             /\ UNCHANGED device
          \/ /\ d # None /\ device[u][d] # "revoked"
             /\ job' = [job EXCEPT ![h].pc = "create"]
             /\ device' = [device EXCEPT ![u][d] = "active"]
       /\ UNCHANGED <<row, suspended, deleted, verified, access, pass, sweep,
                      forked, straggler>>

(* A device that was revoked and comes back becomes active again.          *)
UnrevokeDevice(h) ==
    /\ job[h].pc = "unrevoke"
    /\ device' = [device EXCEPT ![job[h].user][job[h].dev] = "active"]
    /\ job' = [job EXCEPT ![h].pc = "create"]
    /\ UNCHANGED <<row, suspended, deleted, verified, access, pass, sweep,
                   forked, straggler>>

(* session.create / oAuthRefreshToken.create; a session's JWT is signed    *)
(* with its id.  A rotation carries the family forward.                    *)
CreateRow(h, r) ==
    LET j == job[h]
    IN /\ j.pc = "create"
       /\ row[r].state = "free"
       /\ row' = [row EXCEPT ![r] =
                    [state |-> "live", kind |-> j.kind, user |-> j.user,
                     device |-> j.dev,
                     family |-> IF j.src = None THEN r
                                ELSE row[j.src].family]]
       /\ access' = IF j.kind = "session" THEN access \cup {j.user} ELSE access
       /\ straggler' = IF j.dev # None /\ device[j.user][j.dev] = "revoked"
                       THEN straggler \cup {r} ELSE straggler
       /\ job' = [job EXCEPT ![h] = Idle]
       /\ UNCHANGED <<device, suspended, deleted, verified, pass, sweep, forked>>

-----------------------------------------------------------------------------
(* Ways out.                                                               *)

(* logout(): the refresh token itself is presented.                        *)
Logout(r) ==
    /\ row[r].kind = "session" /\ row[r].state \in {"live", "expired"}
    /\ row' = Revoked({r})
    /\ UNCHANGED <<device, suspended, deleted, verified, access, pass, job, sweep,
                   forked, straggler>>

(* SecurityService.revokeSession: another of the caller's own sessions.    *)
RevokeSession(u, r) ==
    /\ HasAccess(u)
    /\ r \in OwnedBy(u, {"session"}) /\ row[r].state \in {"live", "expired"}
    /\ row' = Revoked({r})
    /\ UNCHANGED <<device, suspended, deleted, verified, access, pass, job, sweep,
                   forked, straggler>>

(* GrantService.revoke: disconnecting a site revokes its refresh tokens    *)
(* (all of the account's here: one connected site is modelled).            *)
RevokeConnection(u) ==
    /\ HasAccess(u)
    /\ row' = Revoked(OwnedBy(u, {"oauth"}))
    /\ UNCHANGED <<device, suspended, deleted, verified, access, pass, job, sweep,
                   forked, straggler>>

(* DeviceService.revokeDevice: findFirst, then one transaction.            *)
RevokeDevice(h, u, d) ==
    /\ job[h].pc = "idle"
    /\ HasAccess(u)
    /\ device[u][d] = "active"
    /\ Issue(h, u, "session", d, None, "dropDevice")
    /\ UNCHANGED <<row, device, suspended, deleted, verified, access, pass, sweep,
                   forked, straggler>>

\* A mutant of DroppedRows: a device's product tokens are forgotten.
DroppedSessions(u, ds) == Tagged(u, ds) \cap OwnedBy(u, {"session"})

\* The rows a device revocation's transaction revokes with the device.
DroppedRows(u, ds) == Tagged(u, ds)

DropDevice(h) ==
    LET u == job[h].user  d == job[h].dev
    IN /\ job[h].pc = "dropDevice"
       /\ device' = [device EXCEPT ![u][d] = "revoked"]
       /\ row' = Revoked(DroppedRows(u, {d}))
       /\ job' = [job EXCEPT ![h] = Idle]
       /\ UNCHANGED <<suspended, deleted, verified, access, pass, sweep,
                      forked, straggler>>

(* SecurityService.revokeAllSessions: Promise.all of a session.updateMany  *)
(* and DeviceService.revokeAllDevices (findMany, then one transaction), so *)
(* the two branches run in any order.                                      *)
ActiveDevices(u) == {d \in Devices : device[u][d] = "active"}

SignOutAll(u) ==
    /\ u \in Sweepers /\ HasAccess(u)
    /\ ~sweep[u].on
    /\ sweep' = [sweep EXCEPT ![u] =
                   [NoSweep EXCEPT !.on = TRUE,
                      !.before = {r \in OwnedBy(u, {"session"})
                                       \cup Tagged(u, ActiveDevices(u)) :
                                     Live(r)}]]
    /\ UNCHANGED <<row, device, suspended, deleted, verified, access, pass, job,
                   forked, straggler>>

SweepSessions(u) ==
    /\ sweep[u].on /\ ~sweep[u].sessions
    /\ row' = Revoked(OwnedBy(u, {"session"}))
    /\ sweep' = [sweep EXCEPT ![u].sessions = TRUE]
    /\ UNCHANGED <<device, suspended, deleted, verified, access, pass, job,
                   forked, straggler>>

\* A mutant of ListDevices: it is read as if there were no devices.
ListNoDevices(u) ==
    /\ sweep[u].on /\ sweep[u].devices = "read"
    /\ sweep' = [sweep EXCEPT ![u].devices = "done"]
    /\ UNCHANGED <<row, device, suspended, deleted, verified, access, pass,
                   job, forked, straggler>>

ListDevices(u) ==
    /\ sweep[u].on /\ sweep[u].devices = "read"
    /\ sweep' = [sweep EXCEPT
                   ![u].list = ActiveDevices(u),
                   ![u].devices = IF ActiveDevices(u) = {} THEN "done"
                                  ELSE "txn"]
    /\ UNCHANGED <<row, device, suspended, deleted, verified, access, pass, job,
                   forked, straggler>>

SweepDevices(u) ==
    /\ sweep[u].on /\ sweep[u].devices = "txn"
    /\ device' = [device EXCEPT ![u] =
                    [d \in Devices |-> IF d \in sweep[u].list THEN "revoked"
                                       ELSE device[u][d]]]
    /\ row' = Revoked(DroppedRows(u, sweep[u].list))
    /\ sweep' = [sweep EXCEPT ![u].devices = "done"]
    /\ UNCHANGED <<suspended, deleted, verified, access, pass, job, forked, straggler>>

SignOutAllReturns(u) ==
    /\ sweep[u].on /\ sweep[u].sessions /\ sweep[u].devices = "done"
    /\ sweep' = [sweep EXCEPT ![u] = NoSweep]
    /\ UNCHANGED <<row, device, suspended, deleted, verified, access, pass, job,
                   forked, straggler>>

(* AdminService.setSuspended(true): the flag, then the session sweep.      *)
Suspend(h, u) ==
    /\ job[h].pc = "idle"
    /\ suspended' = [suspended EXCEPT ![u] = TRUE]
    /\ Issue(h, u, "session", None, None, "kill")
    /\ UNCHANGED <<row, device, deleted, verified, access, pass, sweep,
                   forked, straggler>>

(* resetPassword(): the emailed code is consumed, then the session sweep.  *)
ResetPassword(h, u) ==
    /\ job[h].pc = "idle"
    /\ ~deleted[u]
    /\ Issue(h, u, "session", None, None, "kill")
    /\ UNCHANGED <<row, device, suspended, deleted, verified, access, pass, sweep,
                   forked, straggler>>

KillSessions(h) ==
    /\ job[h].pc = "kill"
    /\ row' = Revoked(OwnedBy(job[h].user, {"session"}))
    /\ job' = [job EXCEPT ![h] = Idle]
    /\ UNCHANGED <<device, suspended, deleted, verified, access, pass, sweep,
                   forked, straggler>>

Unsuspend(u) ==
    /\ suspended[u]
    /\ suspended' = [suspended EXCEPT ![u] = FALSE]
    /\ UNCHANGED <<row, device, deleted, verified, access, pass, job, sweep,
                   forked, straggler>>

(* GdprService.deleteAccount: one transaction over user, sessions, grants  *)
(* and refresh tokens.                                                     *)
DeleteAccount(u) ==
    /\ HasAccess(u)
    /\ ~deleted[u]
    /\ deleted' = [deleted EXCEPT ![u] = TRUE]
    /\ suspended' = [suspended EXCEPT ![u] = TRUE]
    /\ row' = Revoked(OwnedBy(u, Kinds))
    /\ UNCHANGED <<device, verified, access, pass, job, sweep, forked, straggler>>

RowExpires(r) ==
    /\ Live(r)
    /\ row' = [row EXCEPT ![r].state = "expired"]
    /\ UNCHANGED <<device, suspended, deleted, verified, access, pass, job, sweep,
                   forked, straggler>>

AccessExpires(u) ==
    /\ HasAccess(u)
    /\ access' = access \ {u}
    /\ UNCHANGED <<row, device, suspended, deleted, verified, pass, job, sweep,
                   forked, straggler>>

(* A query throws or the process restarts: a handler, or a sign-out of all *)
(* devices, ends where it is and what it has written stays.                *)
Abort(h) ==
    /\ job[h].pc # "idle"
    /\ job' = [job EXCEPT ![h] = Idle]
    /\ UNCHANGED <<row, device, suspended, deleted, verified, access, pass,
                   sweep, forked, straggler>>

SweepAborts(u) ==
    /\ sweep[u].on
    /\ sweep' = [sweep EXCEPT ![u] = NoSweep]
    /\ UNCHANGED <<row, device, suspended, deleted, verified, access, pass,
                   job, forked, straggler>>

-----------------------------------------------------------------------------
MaybeDevice == Devices \cup {None}

HandlerStep(h) ==
    \/ \E u \in Users, d \in MaybeDevice :
          \/ \E k \in Kinds : SignIn(h, u, k, d)
          \/ \E p \in Passes : RedeemPass(h, u, p, d)
    \/ \E r \in Rows, d \in MaybeDevice : RefreshCheck(h, r, d)
    \/ RefreshRevoke(h)
    \/ ResolveDevice(h) \/ UnrevokeDevice(h)
    \/ \E r \in Rows : CreateRow(h, r)
    \/ \E u \in Users, d \in Devices : RevokeDevice(h, u, d)
    \/ DropDevice(h)
    \/ \E u \in Users : Suspend(h, u) \/ ResetPassword(h, u)
    \/ KillSessions(h) \/ Abort(h)

UserStep(u) ==
    \/ SendVerification(u)
    \/ \E p \in Passes : GainPass(u, p) \/ ApprovePass(u, p) \/ PassLapses(u, p)
    \/ \E r \in Rows : RevokeSession(u, r)
    \/ RevokeConnection(u)
    \/ SignOutAll(u) \/ SweepSessions(u) \/ ListDevices(u)
    \/ SweepDevices(u) \/ SignOutAllReturns(u) \/ SweepAborts(u)
    \/ Unsuspend(u) \/ DeleteAccount(u) \/ AccessExpires(u)

RowStep(r) == ReuseDetected(r) \/ Logout(r) \/ RowExpires(r)

Next ==
    \/ \E h \in Handlers : HandlerStep(h)
    \/ \E u \in Users : UserStep(u)
    \/ \E r \in Rows : RowStep(r)

Spec == Init /\ [][Next]_vars

-----------------------------------------------------------------------------
(* Properties.                                                             *)

Issuing == {"rotate", "resolve", "unrevoke", "create"}

(* Rotation keeps one token alive per sign-in: as long as no two refreshes *)
(* of a family have overlapped, at most one row of the family is live.     *)
(* (rotateSession, rotateRefreshToken: the only two ways a family grows.)  *)
OneLiveRowUnlessOverlap ==
    \A f \in Rows \ forked : \A r1, r2 \in Family(f) :
        Live(r1) /\ Live(r2) => r1 = r2

(* A sign-in that is over is over: once a family has no live row and no    *)
(* refresh of it is in progress, no interleaving of handlers brings it     *)
(* back.  Reuse detection, logout and every revocation rest on this.       *)
Over(f) == /\ row[f].family = f
           /\ \A r \in Family(f) : ~Live(r)
           /\ Refreshing(f) = {}

OverStaysOver == [][\A f \in Rows : Over(f) => Over(f)']_vars

(* When does a suspension really lock an account out?  Once nothing of the *)
(* account is live, pending or in flight - no row of either table, access  *)
(* token, pass or issuing handler - and its email is verified, it stays    *)
(* out until setSuspended(false).                                          *)
LockedOut(u) ==
    /\ suspended[u] /\ verified[u]
    /\ u \notin access
    /\ \A r \in OwnedBy(u, Kinds) : ~Live(r)
    /\ \A p \in Passes : <<u, p>> \notin pass
    /\ \A h \in Handlers : ~(job[h].user = u /\ job[h].pc \in Issuing)

LockedOutStaysOut ==
    [][\A u \in Users : LockedOut(u) /\ suspended'[u] => LockedOut(u)']_vars

(* "Sign out all devices" returns only when every session that was live    *)
(* when it was called, and every token tagged with a device that was       *)
(* active then, is dead - whatever ran between its three writes.           *)
SignOutAllSweeps ==
    \A u \in Users :
        sweep[u].sessions /\ sweep[u].devices = "done"
            => \A r \in sweep[u].before : ~Live(r)

(* A live row tagged with a revoked device was inserted after the device   *)
(* was revoked, by a handler that had resolved the device before:          *)
(* revocation itself never leaves a tagged row behind.                     *)
OnlyStragglersOutliveTheirDevice ==
    \A u \in Users, d \in Devices : device[u][d] = "revoked"
        => \A r \in Tagged(u, {d}) : Live(r) => r \in straggler

(* What rotateSession's comment says: "a stolen-and-reused refresh token   *)
(* only ever works once".  Two handlers past the revocation of one row     *)
(* will both issue from it.                                                *)
RefreshWorksOnce ==
    \A g, h \in {i \in Handlers : /\ job[i].src # None
                                  /\ job[i].pc \in Issuing \ {"rotate"}} :
        job[g].src = job[h].src => g = h

(* What setSuspended's comment says: it kills "every active session so it  *)
(* actually locks the account out".  A suspended account whose sweep is    *)
(* done has no live session.                                               *)
SuspendLocksOut ==
    \A u \in Users : suspended[u] =>
        \/ \E h \in Handlers : job[h].user = u /\ job[h].pc = "kill"
        \/ \A r \in OwnedBy(u, {"session"}) : ~Live(r)
=============================================================================
