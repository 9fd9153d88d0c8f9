----------------------------- MODULE RoleChange -----------------------------
(***************************************************************************)
(* Dual approval of role changes: RoleChangeRequestService behind          *)
(* PermissionGuard.  One admin proposes, a different one approves or       *)
(* rejects.                                                                *)
(*                                                                         *)
(* A request runs as a handler with one step per database statement, so a  *)
(* role or a status it has read may have changed when it commits.  Abort   *)
(* ends a handler anywhere: a check that failed, a query that threw, a     *)
(* restart of the process.                                                 *)
(***************************************************************************)
EXTENDS Naturals

CONSTANTS
    Users,      \* accounts
    Requests,   \* supply of RoleChangeRequest rows (a bound)
    Handlers,   \* requests that may be in progress at once (a bound)
    None        \* null

ASSUME NoneIsNoUser == None \notin Users \cup Requests

VARIABLES
    role,       \* User.role
    request,    \* the RoleChangeRequest table
    job,        \* job[h]: what handler h is doing and what it has read
    audit,      \* requests whose approval has an entry in the audit log
    seeded,     \* history: the roles the database started with
    approvers,  \* history: admins whose approval of q was committed
    drifted,    \* history: requests whose approval overwrote a role other
                \* than the one they were created with
    contested   \* history: requests that two reviews had open at once

vars == <<role, request, job, audit, seeded, approvers, drifted, contested>>

(* The nine roles of the Role enum, up to what this component can tell     *)
(* apart: every role but the first two is like USER.                       *)
Role == {"FOUNDER", "SUPER_ADMIN", "USER"}

\* ROLE_PERMISSIONS: the roles that hold MANAGE_ROLES.
ManagesRoles == {"FOUNDER", "SUPER_ADMIN"}

FounderOnlyAssignable == {"FOUNDER", "SUPER_ADMIN"}

Request == [status    : {"none", "PENDING", "APPROVED", "REJECTED"},
            target    : Users \cup {None},
            requested : Role,
            previous  : Role,            \* target's role when it was created
            by        : Users \cup {None}]

NoRequest == [status |-> "none", target |-> None, requested |-> "USER",
              previous |-> "USER", by |-> None]

Job == [pc     : {"idle", "founder", "read", "insert",
                  "pending", "decide", "commit", "audit"},
        op     : {"request", "approve", "reject"},
        actor  : Users \cup {None},
        req    : Requests \cup {None},
        target : Users \cup {None},
        role   : Role,                   \* requested role, of a "request"
        was    : Role]                   \* target's role as read

Idle == [pc |-> "idle", op |-> "request", actor |-> None, req |-> None,
         target |-> None, role |-> "USER", was |-> "USER"]

TypeOK ==
    /\ role \in [Users -> Role]
    /\ request \in [Requests -> Request]
    /\ job \in [Handlers -> Job]
    /\ audit \subseteq Requests
    /\ seeded \in [Users -> Role]
    /\ approvers \in [Requests -> SUBSET Users]
    /\ drifted \subseteq Requests
    /\ contested \subseteq Requests

Init ==
    /\ role \in [Users -> Role]
    /\ request = [q \in Requests |-> NoRequest]
    /\ job = [h \in Handlers |-> Idle]
    /\ audit = {}
    /\ seeded = role
    /\ approvers = [q \in Requests |-> {}]
    /\ drifted = {}
    /\ contested = {}

history == <<seeded, approvers, drifted, contested>>

Goto(h, pc) == job' = [job EXCEPT ![h].pc = pc]

-----------------------------------------------------------------------------
\* PermissionGuard: the caller's role is read from the database.
Admitted(a) == role[a] \in ManagesRoles

StartRequest(h, a, t, r) ==
    /\ job[h].pc = "idle"
    /\ Admitted(a)
    /\ job' = [job EXCEPT ![h] = [Idle EXCEPT !.pc = "founder", !.actor = a,
                                              !.target = t, !.role = r]]
    /\ UNCHANGED <<role, request, audit, history>>

StartReview(h, a, q, op) ==
    /\ job[h].pc = "idle"
    /\ Admitted(a)
    /\ request[q].status # "none"
    /\ job' = [job EXCEPT ![h] = [Idle EXCEPT !.pc = "pending", !.actor = a,
                                              !.op = op, !.req = q]]
    /\ UNCHANGED <<role, request, audit, history>>

MayHandle(a, r) == r \in FounderOnlyAssignable => role[a] = "FOUNDER"

CheckFounder(h) ==
    /\ job[h].pc = "founder"
    /\ MayHandle(job[h].actor, job[h].role)
    /\ Goto(h, "read")
    /\ UNCHANGED <<role, request, audit, history>>

\* A mutant of ReadTarget: the request keeps the default role.
ReadNothing(h) ==
    /\ job[h].pc = "read"
    /\ Goto(h, "insert")
    /\ UNCHANGED <<role, request, audit, history>>

ReadTarget(h) ==
    /\ job[h].pc = "read"
    /\ job' = [job EXCEPT ![h].pc = "insert", ![h].was = role[job[h].target]]
    /\ UNCHANGED <<role, request, audit, history>>

InsertRequest(h, q) ==
    /\ job[h].pc = "insert"
    /\ request[q].status = "none"
    /\ request' = [request EXCEPT ![q] =
                     [status |-> "PENDING", target |-> job[h].target,
                      requested |-> job[h].role, previous |-> job[h].was,
                      by |-> job[h].actor]]
    /\ job' = [job EXCEPT ![h] = [Idle EXCEPT !.pc = "audit", !.req = q,
                                              !.actor = job[h].actor]]
    /\ UNCHANGED <<role, audit, history>>

-----------------------------------------------------------------------------
\* Reviews of q between their read of its status and their write.
Reviewing(q) == {h \in Handlers : /\ job[h].req = q
                                  /\ job[h].pc \in {"decide", "commit"}}

\* Mutants of Open: the status, or the requester, is not checked.
OpenWhateverStatus(a, q) == request[q].by # a
OpenToRequester(a, q) == request[q].status = "PENDING"

\* getPendingOrThrow() and assertNotSelfReview()
Open(a, q) == request[q].status = "PENDING" /\ request[q].by # a

ReadPending(h) ==
    LET q == job[h].req
    IN /\ job[h].pc = "pending"
       /\ Open(job[h].actor, q)
       /\ Goto(h, "decide")
       /\ contested' = IF Reviewing(q) # {} THEN contested \cup {q}
                       ELSE contested
       /\ UNCHANGED <<role, request, audit, seeded, approvers, drifted>>

CanDecide(h) ==
    /\ job[h].pc = "decide"
    /\ MayHandle(job[h].actor, request[job[h].req].requested)
    /\ Goto(h, "commit")
    /\ UNCHANGED <<role, request, audit, history>>

(* approve(): one transaction, with no condition on the request's status.  *)
CommitApproval(h) ==
    LET q == job[h].req  t == request[q].target
    IN /\ job[h].pc = "commit" /\ job[h].op = "approve"
       /\ role' = [role EXCEPT ![t] = request[q].requested]
       /\ request' = [request EXCEPT ![q].status = "APPROVED"]
       /\ approvers' = [approvers EXCEPT ![q] = @ \cup {job[h].actor}]
       /\ drifted' = IF role[t] = request[q].previous THEN drifted
                     ELSE drifted \cup {q}
       /\ Goto(h, "audit")
       /\ UNCHANGED <<audit, seeded, contested>>

(* reject(): an update by id, likewise unconditional.                      *)
CommitRejection(h) ==
    /\ job[h].pc = "commit" /\ job[h].op = "reject"
    /\ request' = [request EXCEPT ![job[h].req].status = "REJECTED"]
    /\ Goto(h, "audit")
    /\ UNCHANGED <<role, audit, history>>

\* A mutant of Logged: the entry is filed under the action's name.
LoggedByAction(h) == job[h].op

Logged(h) == job[h].req

WriteAuditLog(h) ==
    /\ job[h].pc = "audit"
    /\ audit' = IF job[h].op = "approve" THEN audit \cup {Logged(h)}
                ELSE audit
    /\ job' = [job EXCEPT ![h] = Idle]
    /\ UNCHANGED <<role, request, history>>

Abort(h) ==
    /\ job[h].pc # "idle"
    /\ job' = [job EXCEPT ![h] = Idle]
    /\ UNCHANGED <<role, request, audit, history>>

-----------------------------------------------------------------------------
HandlerStep(h) ==
    \/ \E a, t \in Users, r \in Role : StartRequest(h, a, t, r)
    \/ CheckFounder(h) \/ ReadTarget(h)
    \/ \E a \in Users, q \in Requests, op \in {"approve", "reject"} :
          StartReview(h, a, q, op)
    \/ \E q \in Requests : InsertRequest(h, q)
    \/ ReadPending(h) \/ CanDecide(h)
    \/ CommitApproval(h) \/ CommitRejection(h)
    \/ WriteAuditLog(h) \/ Abort(h)

Next == \E h \in Handlers : HandlerStep(h)

Spec == Init /\ [][Next]_vars

-----------------------------------------------------------------------------
(* Properties.                                                             *)

Granted(q) == approvers[q] # {}

EverFounder ==
    {u \in Users : \/ seeded[u] = "FOUNDER"
                   \/ \E q \in Requests : /\ Granted(q)
                                          /\ request[q].target = u
                                          /\ request[q].requested = "FOUNDER"}

(* Whatever roles were held or lost while it was being handled, a granted  *)
(* Founder or Super Admin role has two different people behind it, and     *)
(* both have been Founders (create, assertNotSelfReview,                   *)
(* assertActorCanDecide).                                                  *)
TwoFoundersBehindEachGrant ==
    \A q \in Requests : request[q].requested \in FounderOnlyAssignable =>
        \A a \in approvers[q] :
            /\ a # request[q].by
            /\ {a, request[q].by} \subseteq EverFounder

(* Consequence of dual approval: while the database was seeded with at     *)
(* most one Founder, no sequence of requests and reviews makes anyone a    *)
(* Founder or a Super Admin.  (They can be demoted.)                       *)
LoneFounder == \A u, v \in Users :
                  seeded[u] = "FOUNDER" /\ seeded[v] = "FOUNDER" => u = v

LoneFounderCannotPromote ==
    LoneFounder =>
        \A u \in Users : role[u] \in FounderOnlyAssignable
                           => role[u] = seeded[u]

(* A request two reviews never had open at once ends one way: its role     *)
(* change was applied if and only if its final status says so.             *)
UncontestedOutcome ==
    \A q \in Requests \ contested :
        Granted(q) <=> request[q].status = "APPROVED"

(* approve() logs the role its target had when the request was created as  *)
(* the value before.  That is the role it replaced, unless another request *)
(* for the same account was granted too or the same one reviewed twice at  *)
(* once: the two cases in which the log misleads.                          *)
AuditShowsTheRoleReplaced ==
    \A q \in (audit \cap drifted) \ contested :
        \E r \in Requests \ {q} : Granted(r) /\ request[r].target = request[q].target
=============================================================================
