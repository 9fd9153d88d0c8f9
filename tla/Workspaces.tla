----------------------------- MODULE Workspaces -----------------------------
(***************************************************************************)
(* Workspaces: the personal one every user gets, business ones that an     *)
(* admin other than the requester approves, and membership of them by      *)
(* invitation.  Every resolution reads the row it resolves, checks that it *)
(* is pending, and then commits without checking again.                    *)
(*                                                                         *)
(* Nothing in the code removes a member or changes a member's role, so a   *)
(* guard on one is checked in the step that uses it.                       *)

CONSTANTS
    Users,
    Reviewers,  \* users with the permission MANAGE_ROLES
    Spaces,     \* rows of the Workspace table (a bound)
    Requests,   \* rows of the BusinessWorkspaceRequest table (a bound)
    Invites,    \* rows of the WorkspaceInvite table (a bound)
    Handlers,   \* calls in progress at once (a bound)
    Offered,    \* roles that invites offer (a bound)
    None        \* null

Roles == {"OWNER", "ADMIN", "MEMBER"}

\* What is assumed of the constants.
ReviewersAreUsers == Reviewers \subseteq Users
NoneIsNoValue ==
    None \notin Users \cup Spaces \cup Requests \cup Invites \cup Roles
OfferedAreRoles == Offered \subseteq Roles

VARIABLES
    space,      \* the Workspace table
    member,     \* the WorkspaceMembership table: the role of a user
    default,    \* User.defaultWorkspaceId
    request,    \* the BusinessWorkspaceRequest table
    invite,     \* the WorkspaceInvite table
    late,       \* invites whose expiresAt has passed
    job,        \* job[h]: what handler h is doing
    made,       \* history: the request each workspace was made for
    joined,     \* history: the invite a member joined by
    contested   \* history: users, requests and invites two calls on which were
                \* past their check at once

history == <<made, joined, contested>>
tables == <<space, member, default, request, invite, late>>
vars == <<tables, job, history>>

Space == [type : {"none", "PERSONAL", "BUSINESS"}, owner : Users \cup {None}]

Request == [status : {"none", "PENDING", "APPROVED", "REJECTED"},
            by : Users \cup {None}, reviewer : Users \cup {None}]

Invite == [status : {"none", "PENDING", "ACCEPTED", "EXPIRED", "REVOKED"},
           space : Spaces \cup {None}, to : Users \cup {None},
           role : Roles \cup {None}]

Job == [pc : {"idle", "find", "repair", "make", "approve", "reject",
              "accept", "expire", "revoke"},
        user : Users \cup {None},
        on : Requests \cup Invites \cup Spaces \cup {None}]

Idle == [pc |-> "idle", user |-> None, on |-> None]

TypeOK ==
    /\ space \in [Spaces -> Space]
    /\ member \in [Spaces \X Users -> Roles \cup {None}]
    /\ default \in [Users -> Spaces \cup {None}]
    /\ request \in [Requests -> Request]
    /\ invite \in [Invites -> Invite]
    /\ late \subseteq Invites
    /\ job \in [Handlers -> Job]
    /\ made \in [Spaces -> Requests \cup {None}]
    /\ joined \in [Spaces \X Users -> Invites \cup {None}]
    /\ contested \subseteq Users \cup Requests \cup Invites

Init ==
    /\ space = [w \in Spaces |-> [type |-> "none", owner |-> None]]
    /\ member = [x \in Spaces \X Users |-> None]
    /\ default = [u \in Users |-> None]
    /\ request = [q \in Requests |->
                     [status |-> "none", by |-> None, reviewer |-> None]]
    /\ invite = [i \in Invites |-> [status |-> "none", space |-> None,
                                    to |-> None, role |-> None]]
    /\ late = {}
    /\ job = [h \in Handlers |-> Idle]
    /\ made = [w \in Spaces |-> None]
    /\ joined = [x \in Spaces \X Users |-> None]
    /\ contested = {}

Begin(h, pc, u, x) == job' = [job EXCEPT ![h] = [pc |-> pc, user |-> u, on |-> x]]

Goto(h, pc) == job' = [job EXCEPT ![h].pc = pc]

End(h) == job' = [job EXCEPT ![h] = Idle]

\* Calls on x that have passed their check.
Past(x) == {h \in Handlers : job[h].on = x /\ job[h].pc # "idle"}

Contest(x) == contested' = IF Past(x) # {} THEN contested \cup {x} ELSE contested

\* One transaction makes a workspace and its owner's membership.
MakeSpace(w, type, u) ==
    /\ space[w].type = "none"
    /\ space' = [space EXCEPT ![w] = [type |-> type, owner |-> u]]
    /\ member' = [member EXCEPT ![<<w, u>>] = "OWNER"]

-----------------------------------------------------------------------------
(* getOrCreatePersonalWorkspace(), called at sign-up.                      *)

Personal(u) == {w \in Spaces : space[w].type = "PERSONAL" /\ member[<<w, u>>] = "OWNER"}

ReadDefault(h, u) ==
    /\ job[h].pc = "idle"
    /\ default[u] = None
    /\ Begin(h, "find", u, None)
    /\ contested' = IF \E k \in Handlers : job[k].user = u /\ job[k].pc \in {"find", "make"}
                    THEN contested \cup {u} ELSE contested
    /\ UNCHANGED <<tables, made, joined>>

FindPersonal(h) ==
    LET u == job[h].user
    IN /\ job[h].pc = "find"
       /\ IF Personal(u) = {} THEN Goto(h, "make")
          ELSE \E w \in Personal(u) : Begin(h, "repair", u, w)
       /\ UNCHANGED <<tables, history>>

RepairDefault(h) ==
    /\ job[h].pc = "repair"
    /\ default' = [default EXCEPT ![job[h].user] = job[h].on]
    /\ End(h)
    /\ UNCHANGED <<space, member, request, invite, late, history>>

\* A mutant of MakePersonal: the user is not pointed at the workspace.
MakeUnpointed(h) ==
    LET u == job[h].user
    IN /\ job[h].pc = "make"
       /\ \E w \in Spaces : MakeSpace(w, "PERSONAL", u)
       /\ End(h)
       /\ UNCHANGED <<default, request, invite, late, history>>

MakePersonal(h) ==
    LET u == job[h].user
    IN /\ job[h].pc = "make"
       /\ \E w \in Spaces : /\ MakeSpace(w, "PERSONAL", u)
                            /\ default' = [default EXCEPT ![u] = w]
       /\ End(h)
       /\ UNCHANGED <<request, invite, late, history>>

-----------------------------------------------------------------------------
(* Business workspaces.                                                    *)

RequestSpace(u, q) ==
    /\ request[q].status = "none"
    /\ request' = [request EXCEPT ![q].status = "PENDING", ![q].by = u]
    /\ UNCHANGED <<space, member, default, invite, late, job, history>>

Pending(q) == request[q].status = "PENDING"

ReadApprove(h, a, q) ==
    /\ job[h].pc = "idle"
    /\ a \in Reviewers /\ Pending(q) /\ a # request[q].by
    /\ Begin(h, "approve", a, q)
    /\ Contest(q)
    /\ UNCHANGED <<tables, made, joined>>

ReadReject(h, a, q) ==
    /\ job[h].pc = "idle"
    /\ a \in Reviewers /\ Pending(q)
    /\ Begin(h, "reject", a, q)
    /\ Contest(q)
    /\ UNCHANGED <<tables, made, joined>>

Review(q, status, a) ==
    request' = [request EXCEPT ![q].status = status, ![q].reviewer = a]

\* A mutant of CommitApprove: the request is left pending.
CommitUnmarked(h) ==
    LET q == job[h].on
    IN /\ job[h].pc = "approve"
       /\ \E w \in Spaces : /\ MakeSpace(w, "BUSINESS", request[q].by)
                            /\ made' = [made EXCEPT ![w] = q]
       /\ End(h)
       /\ UNCHANGED <<default, request, invite, late, joined, contested>>

CommitApprove(h) ==
    LET q == job[h].on
    IN /\ job[h].pc = "approve"
       /\ \E w \in Spaces : /\ MakeSpace(w, "BUSINESS", request[q].by)
                            /\ made' = [made EXCEPT ![w] = q]
       /\ Review(q, "APPROVED", job[h].user)
       /\ End(h)
       /\ UNCHANGED <<default, invite, late, joined, contested>>

CommitReject(h) ==
    /\ job[h].pc = "reject"
    /\ Review(job[h].on, "REJECTED", job[h].user)
    /\ End(h)
    /\ UNCHANGED <<space, member, default, invite, late, history>>

-----------------------------------------------------------------------------
(* Invites.                                                                *)

Manages(u, w) == member[<<w, u>>] \in {"OWNER", "ADMIN"}

SendInvite(u, w, to, role, i) ==
    /\ Manages(u, w)
    /\ member[<<w, to>>] = None
    /\ invite[i].status = "none"
    /\ invite' = [invite EXCEPT ![i] = [status |-> "PENDING", space |-> w,
                                        to |-> to, role |-> role]]
    /\ UNCHANGED <<space, member, default, request, late, job, history>>

\* A mutant of ReadInvite: whoever has the link may accept.
ReadAnyInvite(h, u, i) ==
    /\ job[h].pc = "idle"
    /\ invite[i].status = "PENDING"
    /\ \/ i \in late /\ Begin(h, "expire", u, i)
       \/ i \notin late /\ Begin(h, "accept", u, i)
    /\ Contest(i)
    /\ UNCHANGED <<tables, made, joined>>

\* The expiry is looked at before the e-mail address is.
ReadInvite(h, u, i) ==
    /\ job[h].pc = "idle"
    /\ invite[i].status = "PENDING"
    /\ \/ i \in late /\ Begin(h, "expire", u, i)
       \/ i \notin late /\ u = invite[i].to /\ Begin(h, "accept", u, i)
    /\ Contest(i)
    /\ UNCHANGED <<tables, made, joined>>

Resolve(i, status) == invite' = [invite EXCEPT ![i].status = status]

(* One transaction: a user who is a member already makes it fail, and the  *)
(* invite stays as it was.                                                 *)
CommitAccept(h) ==
    LET i == job[h].on   w == invite[i].space   u == job[h].user
    IN /\ job[h].pc = "accept"
       /\ IF member[<<w, u>>] = None
          THEN /\ member' = [member EXCEPT ![<<w, u>>] = invite[i].role]
               /\ joined' = [joined EXCEPT ![<<w, u>>] = i]
               /\ Resolve(i, "ACCEPTED")
          ELSE UNCHANGED <<member, joined, invite>>
       /\ End(h)
       /\ UNCHANGED <<space, default, request, late, made, contested>>

CommitExpire(h) ==
    /\ job[h].pc = "expire"
    /\ Resolve(job[h].on, "EXPIRED")
    /\ End(h)
    /\ UNCHANGED <<space, member, default, request, late, history>>

\* The guard is on the workspace of the route; the invite is found by its id.
ReadRevoke(h, u, i) ==
    /\ job[h].pc = "idle"
    /\ \E w \in Spaces : Manages(u, w)
    /\ invite[i].status = "PENDING"
    /\ Begin(h, "revoke", u, i)
    /\ Contest(i)
    /\ UNCHANGED <<tables, made, joined>>

CommitRevoke(h) ==
    /\ job[h].pc = "revoke"
    /\ Resolve(job[h].on, "REVOKED")
    /\ End(h)
    /\ UNCHANGED <<space, member, default, request, late, history>>

Lapse(i) ==
    /\ invite[i].status # "none" /\ i \notin late
    /\ late' = late \cup {i}
    /\ UNCHANGED <<space, member, default, request, invite, job, history>>

\* A statement throws, or the process restarts.
Stop(h) ==
    /\ job[h].pc # "idle"
    /\ End(h)
    /\ UNCHANGED <<tables, history>>

Next ==
    \/ \E u \in Users, q \in Requests : RequestSpace(u, q)
    \/ \E u, to \in Users, w \in Spaces, role \in Offered, i \in Invites :
          SendInvite(u, w, to, role, i)
    \/ \E i \in Invites : Lapse(i)
    \/ \E h \in Handlers :
          \/ \E u \in Users : ReadDefault(h, u)
          \/ \E a \in Users, q \in Requests : ReadApprove(h, a, q) \/ ReadReject(h, a, q)
          \/ \E u \in Users, i \in Invites : ReadInvite(h, u, i) \/ ReadRevoke(h, u, i)
          \/ FindPersonal(h) \/ RepairDefault(h) \/ MakePersonal(h)
          \/ CommitApprove(h) \/ CommitReject(h)
          \/ CommitAccept(h) \/ CommitExpire(h) \/ CommitRevoke(h) \/ Stop(h)

Spec == Init /\ [][Next]_vars

-----------------------------------------------------------------------------
(* Properties.                                                             *)

(* Nobody is in a workspace but its owner and those who accepted an invite *)
(* to it that was addressed to them, in the role it offered: a role given  *)
(* once is never given again by a second invite.                           *)
MembersWereInvited ==
    \A w \in Spaces, u \in Users :
        member[<<w, u>>] # None =>
            \/ space[w].owner = u /\ member[<<w, u>>] = "OWNER"
            \/ \E i \in Invites :
                  /\ joined[<<w, u>>] = i
                  /\ invite[i].space = w /\ invite[i].to = u
                  /\ invite[i].role = member[<<w, u>>]

\* Whom an invite let in, and what a request made.
Joiners(i) == {x \in Spaces \X Users : joined[x] = i}

MadeFor(q) == {w \in Spaces : made[w] = q}

(* An invite tells who joined by it, and a request which workspace it      *)
(* made, unless two calls on it were past their check at once: an accepted *)
(* invite has its member, any other has none, an approved request has one  *)
(* workspace, any other has none.                                          *)
OutcomesAreTold ==
    /\ \A i \in Invites \ contested :
          invite[i].status = "ACCEPTED" <=> Joiners(i) # {}
    /\ \A q \in Requests \ contested :
          IF request[q].status = "APPROVED"
          THEN \E w \in Spaces : MadeFor(q) = {w} ELSE MadeFor(q) = {}

(* A user has one personal workspace, and points at it once it is made,    *)
(* unless two calls once looked for it at the same time.                   *)
OnePersonalUnlessContested ==
    \A u \in Users \ contested, w \in Spaces :
        space[w] = [type |-> "PERSONAL", owner |-> u] => default[u] = w

-----------------------------------------------------------------------------
(* What the proofs about this module rest on: an invariant that is         *)
(* inductive.                                                              *)

\* A workspace that is not made yet has nobody in it and no request behind it.
Unmade(w) ==
    space[w].type = "none" =>
        made[w] = None /\ \A u \in Users : member[<<w, u>>] = None

\* A row that is in use is a whole one.
Whole(i) ==
    invite[i].status # "none" =>
        /\ invite[i].space \in Spaces /\ invite[i].to \in Users
        /\ invite[i].role \in Roles
        /\ space[invite[i].space].type # "none"

Entries ==
    /\ \A w \in Spaces : Unmade(w)
    /\ \A i \in Invites : Whole(i)
    /\ \A q \in Requests : request[q].status # "none" => request[q].by \in Users

\* Who joined by an invite is a member.
Joined ==
    \A w \in Spaces, u \in Users :
        joined[<<w, u>>] # None =>
            member[<<w, u>>] # None /\ invite[joined[<<w, u>>]].status # "none"

\* What calls are about, and what they found that still holds.
Settling == {"find", "make", "repair"}
Reviewing == {"approve", "reject"}
Resolving == {"accept", "expire", "revoke"}

NoneOwned(u) == \A w \in Spaces : space[w] # [type |-> "PERSONAL", owner |-> u]

Working(h) ==
    LET j == job[h]
    IN /\ j.pc # "idle" => j.user \in Users
       /\ j.pc \in Settling => j.user \in contested \/ NoneOwned(j.user)
       /\ j.pc = "repair" => j.on \in Personal(j.user)
       /\ j.pc \in Reviewing =>
             /\ j.on \in Requests /\ request[j.on].status # "none"
             /\ Pending(j.on) \/ j.on \in contested
       /\ j.pc \in Resolving =>
             /\ j.on \in Invites /\ invite[j.on].status # "none"
             /\ invite[j.on].status = "PENDING" \/ j.on \in contested
       /\ j.pc = "accept" => j.user = invite[j.on].to

\* Two calls that both change something are on different rows, or contested.
Apart(g, h) ==
    LET i == job[g]  j == job[h]
    IN /\ i.pc = "make" /\ j.pc \in Settling /\ i.user = j.user
             => i.user \in contested
       /\ i.pc = "find" /\ j.pc = "find" /\ i.user = j.user => i.user \in contested
       /\ i.pc \in Reviewing /\ j.pc \in Reviewing /\ i.on = j.on
             => i.on \in contested
       /\ i.pc \in Resolving /\ j.pc \in Resolving /\ i.on = j.on
             => i.on \in contested

Inv == /\ TypeOK
       /\ Entries
       /\ Joined
       /\ OutcomesAreTold
       /\ MembersWereInvited
       /\ OnePersonalUnlessContested
       /\ \A h \in Handlers : Working(h)
       /\ \A g, h \in Handlers : g # h => Apart(g, h)
=============================================================================
