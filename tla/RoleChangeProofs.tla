--------------------------- MODULE RoleChangeProofs ---------------------------
(***************************************************************************)
(* Proofs about RoleChange: type correctness, that two different Founders  *)
(* stand behind every granted Founder or Super Admin role, that a database *)
(* seeded with at most one Founder never gets another, that a request has  *)
(* one outcome unless two reviewers decided it at once, and that the audit *)
(* log shows the role that was replaced unless it had changed since.       *)
(*                                                                         *)
(* None of these is inductive.  A role is checked two statements before it *)
(* is relied on, so what has to be remembered is not who is a Founder but  *)
(* who has ever been one: EverFounder, which only grows (Inv).  And the    *)
(* status of a request, its reviewers and the log are written one after    *)
(* the other: Reviews says how far they agree at each step of a review.    *)
(***************************************************************************)
EXTENDS RoleChange, TLAPS

Restricted(q) == request[q].requested \in FounderOnlyAssignable

\* A request in the table, and one that was granted, is a whole one.
Entries ==
    \A q \in Requests :
        /\ request[q].status # "none" =>
              /\ request[q].target \in Users /\ request[q].by \in Users
              /\ Restricted(q) => request[q].by \in EverFounder
        /\ Granted(q) => request[q].status # "none"

\* Every role was there at the start or was granted.
Origin ==
    \A u \in Users :
        \/ role[u] = seeded[u]
        \/ \E q \in Requests : /\ Granted(q)
                               /\ request[q].target = u
                               /\ request[q].requested = role[u]

\* What a handler at work knows of its actor and its request.
Working(h) ==
    LET j == job[h]
    IN /\ j.pc # "idle" => j.actor \in Users
       /\ j.pc \in {"founder", "read", "insert"} => j.target \in Users
       /\ j.pc \in {"read", "insert"} /\ j.role \in FounderOnlyAssignable
             => j.actor \in EverFounder
       /\ j.pc \in {"pending", "decide", "commit", "audit"}
             => j.req \in Requests /\ request[j.req].status # "none"
       /\ j.pc \in {"decide", "commit"} => request[j.req].by # j.actor
       /\ j.pc = "commit" /\ Restricted(j.req) => j.actor \in EverFounder

\* One Founder alone grants nothing a Founder is needed for.
NothingGranted ==
    LoneFounder => \A q \in Requests : Restricted(q) => ~Granted(q)

Inv == /\ TypeOK
       /\ Entries
       /\ Origin
       /\ \A h \in Handlers : Working(h)
       /\ TwoFoundersBehindEachGrant
       /\ NothingGranted

-----------------------------------------------------------------------------
\* With no role change proposed, the invariant holds.
LEMMA InitInv == Init => Inv
<1> SUFFICES ASSUME Init PROVE Inv
  OBVIOUS
<1>1. TypeOK
  BY DEF Init, TypeOK, Request, NoRequest, Job, Idle, Role
<1>2. \A q \in Requests : ~Granted(q) /\ request[q].status = "none"
                                      /\ request[q].requested = "USER"
  BY DEF Init, Granted, NoRequest
<1>3. Entries /\ TwoFoundersBehindEachGrant /\ NothingGranted
  BY <1>2 DEF Entries, TwoFoundersBehindEachGrant, NothingGranted, Granted
<1>4. Origin /\ \A h \in Handlers : Working(h)
  BY DEF Init, Origin, Working, Idle
<1> QED
  BY <1>1, <1>3, <1>4 DEF Inv

-----------------------------------------------------------------------------
\* The type invariant is kept by every action.
LEMMA StepType ==
  ASSUME TypeOK, \A h \in Handlers : Working(h), [Next]_vars
  PROVE  TypeOK'
<1> USE DEF TypeOK, Job, Idle, Role, history, Goto
<1>1. ASSUME NEW h \in Handlers, HandlerStep(h)
      PROVE  TypeOK'
  <2>0. Working(h)
    OBVIOUS
  <2>1. CASE \E a, t \in Users, r \in Role : StartRequest(h, a, t, r)
    <3>1. PICK a \in Users, t \in Users, r \in Role : StartRequest(h, a, t, r)
      BY <2>1
    <3>2. [Idle EXCEPT !.pc = "founder", !.actor = a, !.target = t,
                       !.role = r] \in Job
      BY <3>1
    <3> QED
      BY <3>1, <3>2 DEF StartRequest
  <2>2. CASE CheckFounder(h) \/ CanDecide(h) \/ Abort(h)
    BY <2>2 DEF CheckFounder, CanDecide, Abort
  <2>3. CASE ReadTarget(h)
    <3>0. job[h].target \in Users
      BY <2>0, <2>3 DEF ReadTarget, Working
    <3>1. role[job[h].target] \in Role
      BY <3>0
    <3>2. [job[h] EXCEPT !.pc = "insert", !.was = role[job[h].target]] \in Job
      <4>1. job[h] \in Job
        OBVIOUS
      <4> QED
        BY <3>1, <4>1
    <3>3. job' \in [Handlers -> Job]
      BY <2>3, <3>2 DEF ReadTarget
    <3> QED
      BY <2>3, <3>3 DEF ReadTarget
  <2>4. CASE \E a \in Users, q \in Requests, op \in {"approve", "reject"} :
                StartReview(h, a, q, op)
    <3>1. PICK a \in Users, q \in Requests, op \in {"approve", "reject"} :
             StartReview(h, a, q, op)
      BY <2>4
    <3>2. [Idle EXCEPT !.pc = "pending", !.actor = a, !.op = op,
                       !.req = q] \in Job
      BY <3>1
    <3> QED
      BY <3>1, <3>2 DEF StartReview
  <2>5. CASE \E q \in Requests : InsertRequest(h, q)
    <3>1. PICK q \in Requests : InsertRequest(h, q)
      BY <2>5
    <3>2. job[h] \in Job
      OBVIOUS
    <3>3. [Idle EXCEPT !.pc = "audit", !.req = q,
                       !.actor = job[h].actor] \in Job
      BY <3>2
    <3>4. job' \in [Handlers -> Job]
      BY <3>1, <3>3 DEF InsertRequest
    <3>5. [status |-> "PENDING", target |-> job[h].target,
           requested |-> job[h].role, previous |-> job[h].was,
           by |-> job[h].actor] \in Request
      BY <3>2 DEF Request
    <3> QED
      BY <3>1, <3>4, <3>5 DEF InsertRequest
  <2>6. CASE ReadPending(h)
    <3>1. job[h].req \in Requests
      BY <2>0, <2>6 DEF ReadPending, Working
    <3>2. contested' \subseteq Requests
      <4>1. contested' = contested \/ contested' = contested \cup {job[h].req}
        BY <2>6 DEF ReadPending
      <4> QED
        BY <3>1, <4>1
    <3>3. job' \in [Handlers -> Job]
      <4>1. job' = [job EXCEPT ![h].pc = "decide"]
        BY <2>6 DEF ReadPending
      <4> QED
        BY <4>1
    <3> QED
      BY <2>6, <3>2, <3>3 DEF ReadPending
  <2>7. CASE CommitApproval(h)
    <3>1. job[h].req \in Requests /\ request[job[h].req] \in Request
      BY <2>0, <2>7 DEF CommitApproval, Working
    <3>2. [request[job[h].req] EXCEPT !.status = "APPROVED"] \in Request
      BY <3>1 DEF Request
    <3>3. request' \in [Requests -> Request]
      BY <2>7, <3>1, <3>2 DEF CommitApproval
    <3>4. role' \in [Users -> Role]
      BY <2>7, <3>1 DEF CommitApproval, Request
    <3>5. approvers' \in [Requests -> SUBSET Users]
      BY <2>0, <2>7, <3>1 DEF CommitApproval, Working
    <3> QED
      BY <2>7, <3>1, <3>3, <3>4, <3>5 DEF CommitApproval
  <2>8. CASE CommitRejection(h)
    <3>1. job[h].req \in Requests /\ request[job[h].req] \in Request
      BY <2>0, <2>8 DEF CommitRejection, Working
    <3>2. [request[job[h].req] EXCEPT !.status = "REJECTED"] \in Request
      BY <3>1 DEF Request
    <3> QED
      BY <2>8, <3>1, <3>2 DEF CommitRejection
  <2>9. CASE WriteAuditLog(h)
    BY <2>0, <2>9 DEF WriteAuditLog, Logged, Working
  <2> QED
    BY <1>1, <2>1, <2>2, <2>3, <2>4, <2>5, <2>6, <2>7, <2>8, <2>9
    DEF HandlerStep
<1>2. CASE UNCHANGED vars
  BY <1>2 DEF vars
<1> QED
  BY <1>1, <1>2 DEF Next

-----------------------------------------------------------------------------
(* What any step leaves: a request keeps whom and what it is about, an     *)
(* approval is never taken back, the seed does not change.                 *)
RequestKept(q) ==
    /\ approvers[q] \subseteq approvers'[q]
    /\ request[q].status # "none" =>
          /\ request'[q].status # "none"
          /\ request'[q].target = request[q].target
          /\ request'[q].requested = request[q].requested
          /\ request'[q].by = request[q].by

Kept == seeded' = seeded /\ \A q \in Requests : RequestKept(q)

\* Who has been a Founder stays one who has been.
LEMMA FoundersGrow ==
  ASSUME Entries, Kept
  PROVE  EverFounder \subseteq EverFounder'
BY DEF Entries, Kept, RequestKept, EverFounder, Granted

\* Whoever is a Founder is one of those.
LEMMA FounderIsEverFounder ==
  ASSUME Origin, NEW a \in Users, role[a] = "FOUNDER"
  PROVE  a \in EverFounder
BY DEF Origin, EverFounder, Granted

\* With one Founder seeded, nobody else has ever been one.
LEMMA OneEverFounder ==
  ASSUME LoneFounder, NothingGranted,
         NEW a \in EverFounder, NEW b \in EverFounder
  PROVE  a = b
BY DEF LoneFounder, NothingGranted, EverFounder, Restricted,
       FounderOnlyAssignable

\* What a handler that does not move knows, it goes on knowing.
LEMMA KeptWorking ==
  ASSUME Entries, Kept, NEW h \in Handlers, Working(h), job'[h] = job[h]
  PROVE  Working(h)'
BY FoundersGrow DEF Working, Kept, RequestKept, Restricted

(* What any step adds is justified: a new request has two accounts, a      *)
(* Founder to propose a restricted role, and no approval yet; a new        *)
(* approval of such a role is by another Founder; a new role is granted.   *)
RequestMade(q) ==
    request[q].status = "none" =>
        /\ approvers'[q] = {}
        /\ request'[q].status # "none" =>
              /\ request'[q].target \in Users /\ request'[q].by \in Users
              /\ request'[q].requested \in FounderOnlyAssignable
                    => request'[q].by \in EverFounder

GrantMade(q) ==
    Restricted(q) => \A a \in approvers'[q] \ approvers[q] :
                        /\ a # request[q].by
                        /\ {a, request[q].by} \subseteq EverFounder

RoleMade(u) ==
    \/ role'[u] = role[u]
    \/ \E q \in Requests : /\ approvers'[q] # {}
                           /\ request'[q].target = u
                           /\ request'[q].requested = role'[u]

Justified == /\ \A q \in Requests : RequestMade(q) /\ GrantMade(q)
             /\ \A u \in Users : RoleMade(u)

\* A step that changes the tables as it should keeps the invariant.
LEMMA TablesInv ==
  ASSUME Inv, Kept, Justified
  PROVE  Entries' /\ Origin' /\ TwoFoundersBehindEachGrant' /\ NothingGranted'
<1>1. EverFounder \subseteq EverFounder'
  BY FoundersGrow DEF Inv
<1>2. Entries'
  <2> SUFFICES ASSUME NEW q \in Requests
               PROVE  /\ request'[q].status # "none" =>
                            /\ request'[q].target \in Users
                            /\ request'[q].by \in Users
                            /\ Restricted(q)' => request'[q].by \in EverFounder'
                      /\ Granted(q)' => request'[q].status # "none"
    BY DEF Entries
  <2>1. CASE request[q].status = "none"
    BY <1>1, <2>1 DEF Justified, RequestMade, Restricted, Granted
  <2>2. CASE request[q].status # "none"
    BY <1>1, <2>2 DEF Inv, Entries, Kept, RequestKept, Restricted
  <2> QED
    BY <2>1, <2>2
<1>3. Origin'
  <2> SUFFICES ASSUME NEW u \in Users, role'[u] # seeded'[u]
               PROVE  \E q \in Requests : /\ Granted(q)'
                                          /\ request'[q].target = u
                                          /\ request'[q].requested = role'[u]
    BY DEF Origin
  <2>1. CASE role'[u] = role[u]
    <3>1. PICK q \in Requests : /\ Granted(q)
                                /\ request[q].target = u
                                /\ request[q].requested = role[u]
      BY <2>1 DEF Inv, Origin, Kept
    <3> QED
      BY <2>1, <3>1 DEF Inv, Entries, Kept, RequestKept, Granted
  <2> QED
    BY <2>1 DEF Justified, RoleMade, Granted
\* A restricted grant of the new state is one of the old, or a new approval.
<1>4. ASSUME NEW q \in Requests, Restricted(q)', NEW a \in approvers'[q]
      PROVE  /\ Restricted(q) /\ request'[q].by = request[q].by
             /\ a \in approvers[q] \/ /\ a # request[q].by
                                      /\ {a, request[q].by} \subseteq EverFounder
  <2>1. request[q].status # "none"
    BY <1>4 DEF Justified, RequestMade
  <2>2. Restricted(q) /\ request'[q].by = request[q].by
    BY <1>4, <2>1 DEF Kept, RequestKept, Restricted
  <2> QED
    BY <1>4, <2>2 DEF Justified, GrantMade
<1>5. TwoFoundersBehindEachGrant'
  <2> SUFFICES ASSUME NEW q \in Requests, Restricted(q)', NEW a \in approvers'[q]
               PROVE  /\ a # request'[q].by
                      /\ {a, request'[q].by} \subseteq EverFounder'
    BY DEF TwoFoundersBehindEachGrant, Restricted
  <2> QED
    BY <1>1, <1>4 DEF Inv, TwoFoundersBehindEachGrant, Restricted
<1>6. NothingGranted'
  <2> SUFFICES ASSUME LoneFounder, NEW q \in Requests, Restricted(q)',
                      NEW a \in approvers'[q]
               PROVE  FALSE
    BY DEF NothingGranted, LoneFounder, Kept, Granted
  <2>1. a \notin approvers[q]
    BY <1>4 DEF Inv, NothingGranted, Granted
  <2> QED
    BY <1>4, <2>1, OneEverFounder DEF Inv
<1> QED
  BY <1>2, <1>3, <1>5, <1>6

-----------------------------------------------------------------------------
\* Every step of a handler keeps what there is, justifies what it adds and
\* knows afterwards what it must.
LEMMA HandlerStepKeeps ==
  ASSUME Inv, TypeOK', NEW h \in Handlers, HandlerStep(h)
  PROVE  /\ Kept /\ Justified
         /\ \A g \in Handlers : g # h => job'[g] = job[g]
         /\ Working(h)'
<1>0. /\ TypeOK /\ Entries /\ Origin /\ Working(h)
      /\ job \in [Handlers -> Job] /\ job[h] \in Job
      /\ request \in [Requests -> Request]
  BY DEF Inv, TypeOK
<1>1. ASSUME UNCHANGED <<role, request, history>>
      PROVE  Kept /\ Justified
  BY <1>0, <1>1 DEF Entries, Kept, RequestKept, Justified, RequestMade,
                    GrantMade, RoleMade, Granted, history
<1>2. CASE \E a, t \in Users, r \in Role : StartRequest(h, a, t, r)
  BY <1>0, <1>1, <1>2 DEF StartRequest, Working, Idle
<1>3. CASE CheckFounder(h)
  <2>1. job' = [job EXCEPT ![h].pc = "read"]
    BY <1>3 DEF CheckFounder, Goto
  <2>2. /\ job[h].actor \in Users /\ job[h].target \in Users
        /\ job[h].role \in FounderOnlyAssignable => job[h].actor \in EverFounder
    BY <1>0, <1>3, FounderIsEverFounder DEF CheckFounder, Working, MayHandle
  <2>3. UNCHANGED <<role, request, history>>
    BY <1>3 DEF CheckFounder
  <2>4. EverFounder' = EverFounder
    BY <2>3 DEF EverFounder, Granted, history
  <2> QED
    BY <1>0, <1>1, <2>1, <2>2, <2>3, <2>4 DEF Working, Job
<1>4. CASE ReadTarget(h)
  <2>1. job' = [job EXCEPT ![h].pc = "insert", ![h].was = role[job[h].target]]
    BY <1>4 DEF ReadTarget
  <2>2. /\ job[h].actor \in Users /\ job[h].target \in Users
        /\ job[h].role \in FounderOnlyAssignable => job[h].actor \in EverFounder
    BY <1>0, <1>4 DEF ReadTarget, Working
  <2>3. UNCHANGED <<role, request, history>>
    BY <1>4 DEF ReadTarget
  <2>4. EverFounder' = EverFounder
    BY <2>3 DEF EverFounder, Granted, history
  <2> QED
    BY <1>0, <1>1, <2>1, <2>2, <2>3, <2>4 DEF Working, Job
<1>5. CASE \E a \in Users, q \in Requests, op \in {"approve", "reject"} :
              StartReview(h, a, q, op)
  BY <1>0, <1>1, <1>5 DEF StartReview, Working, Idle
<1>6. CASE \E q \in Requests : InsertRequest(h, q)
  <2>1. PICK q \in Requests : InsertRequest(h, q)
    BY <1>6
  <2>2. /\ job[h].actor \in Users /\ job[h].target \in Users
        /\ job[h].role \in FounderOnlyAssignable => job[h].actor \in EverFounder
    BY <1>0, <2>1 DEF InsertRequest, Working
  <2>3. /\ request[q].status = "none"
        /\ request'[q] = [status |-> "PENDING", target |-> job[h].target,
                          requested |-> job[h].role, previous |-> job[h].was,
                          by |-> job[h].actor]
        /\ \A x \in Requests : x # q => request'[x] = request[x]
        /\ UNCHANGED <<role, history>>
    BY <1>0, <2>1 DEF InsertRequest
  <2>4. Kept
    BY <2>3 DEF Kept, RequestKept, history
  <2>5. ASSUME NEW x \in Requests PROVE RequestMade(x) /\ GrantMade(x)
    BY <1>0, <2>2, <2>3 DEF RequestMade, GrantMade, Entries, Granted, history
  <2>6. \A u \in Users : RoleMade(u)
    BY <2>3 DEF RoleMade
  <2>7. /\ job'[h] = [Idle EXCEPT !.pc = "audit", !.req = q,
                                  !.actor = job[h].actor]
        /\ \A g \in Handlers : g # h => job'[g] = job[g]
    BY <1>0, <2>1 DEF InsertRequest
  <2>8. Working(h)'
    BY <2>2, <2>3, <2>7 DEF Working, Idle
  <2> QED
    BY <2>4, <2>5, <2>6, <2>7, <2>8 DEF Justified
<1>7. CASE ReadPending(h)
  <2>1. job' = [job EXCEPT ![h].pc = "decide"]
    BY <1>7 DEF ReadPending, Goto
  <2>2. /\ job[h].actor \in Users /\ job[h].req \in Requests
        /\ request[job[h].req].status # "none"
        /\ request[job[h].req].by # job[h].actor
    BY <1>0, <1>7 DEF ReadPending, Working, Open
  <2>3. UNCHANGED <<role, request, seeded, approvers>>
    BY <1>7 DEF ReadPending
  <2>4. Kept /\ Justified
    BY <1>0, <2>3 DEF Entries, Kept, RequestKept, Justified, RequestMade,
                      GrantMade, RoleMade, Granted
  <2> QED
    BY <1>0, <2>1, <2>2, <2>3, <2>4 DEF Working, Job
<1>8. CASE CanDecide(h)
  <2>1. job' = [job EXCEPT ![h].pc = "commit"]
    BY <1>8 DEF CanDecide, Goto
  <2>2. /\ job[h].actor \in Users /\ job[h].req \in Requests
        /\ request[job[h].req].status # "none"
        /\ request[job[h].req].by # job[h].actor
        /\ Restricted(job[h].req) => job[h].actor \in EverFounder
    BY <1>0, <1>8, FounderIsEverFounder
    DEF CanDecide, Working, MayHandle, Restricted
  <2>3. UNCHANGED <<role, request, history>>
    BY <1>8 DEF CanDecide
  <2>4. EverFounder' = EverFounder
    BY <2>3 DEF EverFounder, Granted, history
  <2> QED
    BY <1>0, <1>1, <2>1, <2>2, <2>3, <2>4 DEF Working, Restricted, Job
<1>9. CASE CommitApproval(h)
  <2> DEFINE q == job[h].req
             a == job[h].actor
             t == request[q].target
  <2>1. /\ a \in Users /\ q \in Requests
        /\ request[q].status # "none" /\ request[q].by # a
        /\ Restricted(q) => a \in EverFounder
    BY <1>0, <1>9 DEF CommitApproval, Working
  <2>2. /\ request[q] \in Request /\ t \in Users /\ request[q].by \in Users
        /\ Restricted(q) => request[q].by \in EverFounder
    BY <1>0, <2>1 DEF Entries
  <2>3. /\ request'[q] = [request[q] EXCEPT !.status = "APPROVED"]
        /\ \A x \in Requests : x # q => request'[x] = request[x]
    BY <1>0, <1>9, <2>1 DEF CommitApproval
  <2>4. /\ request'[q].status = "APPROVED"
        /\ request'[q].target = t
        /\ request'[q].requested = request[q].requested
        /\ request'[q].by = request[q].by
    BY <2>2, <2>3 DEF Request
  <2>5. /\ approvers'[q] = approvers[q] \cup {a}
        /\ \A x \in Requests : x # q => approvers'[x] = approvers[x]
        /\ seeded' = seeded
    BY <1>0, <1>9, <2>1 DEF CommitApproval, TypeOK
  <2>6. /\ role'[t] = request[q].requested
        /\ \A u \in Users : u # t => role'[u] = role[u]
    BY <1>0, <1>9, <2>2 DEF CommitApproval, TypeOK
  <2>7. Kept
    BY <2>3, <2>4, <2>5 DEF Kept, RequestKept
  <2>8. ASSUME NEW x \in Requests PROVE RequestMade(x) /\ GrantMade(x)
    BY <1>0, <2>1, <2>2, <2>3, <2>5
    DEF RequestMade, GrantMade, Entries, Granted
  <2>9. ASSUME NEW u \in Users PROVE RoleMade(u)
    <3>1. CASE u = t
      <4>1. approvers'[q] # {}
        BY <2>5
      <4> QED
        BY <2>1, <2>4, <2>6, <3>1, <4>1 DEF RoleMade
    <3> QED
      BY <2>6, <3>1 DEF RoleMade
  <2>10. job' = [job EXCEPT ![h].pc = "audit"]
    BY <1>9 DEF CommitApproval, Goto
  <2>11. Working(h)'
    BY <1>0, <2>1, <2>4, <2>10 DEF Working, Job
  <2> QED
    BY <1>0, <2>7, <2>8, <2>9, <2>10, <2>11 DEF Justified
<1>10. CASE CommitRejection(h)
  <2> DEFINE q == job[h].req
  <2>1. /\ job[h].actor \in Users /\ q \in Requests
        /\ request[q].status # "none"
    BY <1>0, <1>10 DEF CommitRejection, Working
  <2>2. request[q] \in Request
    BY <1>0, <2>1
  <2>3. /\ request'[q] = [request[q] EXCEPT !.status = "REJECTED"]
        /\ \A x \in Requests : x # q => request'[x] = request[x]
        /\ UNCHANGED <<role, seeded, approvers>>
    BY <1>0, <1>10, <2>1 DEF CommitRejection, history
  <2>4. /\ request'[q].status = "REJECTED"
        /\ request'[q].target = request[q].target
        /\ request'[q].requested = request[q].requested
        /\ request'[q].by = request[q].by
    BY <2>2, <2>3 DEF Request
  <2>5. Kept
    BY <2>3, <2>4 DEF Kept, RequestKept
  <2>6. Justified
    BY <1>0, <2>1, <2>3 DEF Justified, RequestMade, GrantMade, RoleMade,
                            Entries, Granted
  <2>7. job' = [job EXCEPT ![h].pc = "audit"]
    BY <1>10 DEF CommitRejection, Goto
  <2>8. Working(h)'
    BY <1>0, <2>1, <2>4, <2>7 DEF Working, Job
  <2> QED
    BY <1>0, <2>5, <2>6, <2>7, <2>8
<1>11. CASE WriteAuditLog(h)
  BY <1>0, <1>1, <1>11 DEF WriteAuditLog, Working, Idle
<1>12. CASE Abort(h)
  BY <1>0, <1>1, <1>12 DEF Abort, Working, Idle
<1> QED
  BY <1>2, <1>3, <1>4, <1>5, <1>6, <1>7, <1>8, <1>9, <1>10, <1>11, <1>12
  DEF HandlerStep

\* Every step keeps the invariant.
LEMMA StepInv == Inv /\ [Next]_vars => Inv'
<1> SUFFICES ASSUME Inv, [Next]_vars PROVE Inv'
  OBVIOUS
<1>1. TypeOK'
  BY StepType DEF Inv
<1>2. ASSUME NEW h \in Handlers, HandlerStep(h)
      PROVE  Inv'
  <2>1. /\ Kept /\ Justified /\ Working(h)'
        /\ \A g \in Handlers : g # h => job'[g] = job[g]
    BY <1>1, <1>2, HandlerStepKeeps
  <2>2. ASSUME NEW g \in Handlers PROVE Working(g)'
    BY <2>1, KeptWorking DEF Inv
  <2> QED
    BY <1>1, <2>1, <2>2, TablesInv DEF Inv
<1>3. CASE UNCHANGED vars
  BY <1>1, <1>3
  DEF vars, Inv, Entries, Origin, Working, Restricted, Granted, EverFounder,
      TwoFoundersBehindEachGrant, NothingGranted, LoneFounder
<1> QED
  BY <1>2, <1>3 DEF Next

(* The invariant holds in every state dual approval can get into, for      *)
(* every number of admins, requests and handlers.                          *)
THEOREM Invariance == Spec => []Inv
BY InitInv, StepInv, PTL DEF Spec

-----------------------------------------------------------------------------
(* The tables, histories and handlers of RoleChangeRequestService have     *)
(* their types, for any number of accounts, requests and handlers.         *)
THEOREM TypeCorrect == Spec => []TypeOK
<1>1. Inv => TypeOK
  BY DEF Inv
<1> QED
  BY <1>1, Invariance, PTL

(* Whatever roles change hands while requests are handled, each granted    *)
(* Founder or Super Admin role has two different people behind it who have *)
(* both been Founders (create, assertNotSelfReview, assertActorCanDecide). *)
THEOREM TwoFounders == Spec => []TwoFoundersBehindEachGrant
<1>1. Inv => TwoFoundersBehindEachGrant
  BY DEF Inv
<1> QED
  BY <1>1, Invariance, PTL

(* A database seeded with at most one Founder never gets another Founder,  *)
(* nor a Super Admin: approve() needs a second one.                        *)
THEOREM LoneFounderStaysAlone == Spec => []LoneFounderCannotPromote
<1>1. Inv => LoneFounderCannotPromote
  BY DEF Inv, Origin, NothingGranted, LoneFounderCannotPromote, Restricted
<1> QED
  BY <1>1, Invariance, PTL

-----------------------------------------------------------------------------
(* What a review decides, and what the audit log says of it.               *)
(*                                                                         *)
(* A request that was never contested has one review past its check at     *)
(* most, and is pending until that one writes (Decided).  The role read    *)
(* when a request was created is still its target's, or a grant has        *)
(* replaced it since (ReadRole, Recorded).                                 *)
Decided(q) ==
    q \notin contested =>
       /\ Granted(q) <=> request[q].status = "APPROVED"
       /\ \A h \in Reviewing(q) : /\ request[q].status = "PENDING"
                                  /\ \A i \in Reviewing(q) : i = h

Replaced(t) == \E q \in Requests : Granted(q) /\ request[q].target = t

Recorded(q) ==
    /\ request[q].status # "none" =>
          \/ role[request[q].target] = request[q].previous
          \/ Replaced(request[q].target)
    /\ q \in drifted =>
          /\ Granted(q)
          /\ q \notin contested => \E r \in Requests \ {q} :
                Granted(r) /\ request[r].target = request[q].target

ReadRole(h) ==
    job[h].pc = "insert" =>
        role[job[h].target] = job[h].was \/ Replaced(job[h].target)

Reviews == /\ \A q \in Requests : Decided(q) /\ Recorded(q)
           /\ \A h \in Handlers : ReadRole(h)

\* With no request reviewed, the reviews are in order.
LEMMA InitReviews == Init => Reviews
<1> SUFFICES ASSUME Init PROVE Reviews
  OBVIOUS
<1>1. \A q \in Requests : ~Granted(q) /\ request[q].status = "none"
                          /\ q \notin drifted /\ Reviewing(q) = {}
  BY DEF Init, Granted, NoRequest, Reviewing, Idle
<1>2. \A h \in Handlers : job[h].pc = "idle"
  BY DEF Init, Idle
<1> QED
  BY <1>1, <1>2 DEF Reviews, Decided, Recorded, ReadRole

\* A step that writes nothing to a request, and lets no review past its check.
LEMMA StaysDecided ==
  ASSUME NEW q \in Requests, Decided(q), request'[q].status = request[q].status,
         approvers'[q] = approvers[q], contested \subseteq contested',
         Reviewing(q)' \subseteq Reviewing(q)
  PROVE  Decided(q)'
BY DEF Decided, Granted

\* Only ReadPending lets a review past its check.
LEMMA FewerReviews ==
  ASSUME TypeOK, NEW h \in Handlers, HandlerStep(h), ~ReadPending(h),
         \A g \in Handlers : g # h => job'[g] = job[g],
         NEW q \in Requests
  PROVE  Reviewing(q)' \subseteq Reviewing(q)
<1>1. job \in [Handlers -> Job] /\ job[h] \in Job
  BY DEF TypeOK
<1>2. job'[h].pc \in {"decide", "commit"} =>
         /\ job[h].pc \in {"decide", "commit"} /\ job'[h].req = job[h].req
  <2>1. CASE CanDecide(h)
    BY <1>1, <2>1 DEF CanDecide, Goto, Job
  <2>2. CASE CommitApproval(h) \/ CommitRejection(h)
    BY <1>1, <2>2 DEF CommitApproval, CommitRejection, Goto, Job
  <2>3. CASE CheckFounder(h) \/ ReadTarget(h)
    BY <1>1, <2>3 DEF CheckFounder, ReadTarget, Goto, Job
  <2>4. CASE WriteAuditLog(h) \/ Abort(h)
    BY <1>1, <2>4 DEF WriteAuditLog, Abort, Idle
  <2>5. CASE \E a, t \in Users, r \in Role : StartRequest(h, a, t, r)
    BY <1>1, <2>5 DEF StartRequest, Idle
  <2>6. CASE \E a \in Users, x \in Requests, op \in {"approve", "reject"} :
                StartReview(h, a, x, op)
    BY <1>1, <2>6 DEF StartReview, Idle
  <2>7. CASE \E x \in Requests : InsertRequest(h, x)
    BY <1>1, <2>7 DEF InsertRequest, Idle
  <2> QED
    BY <2>1, <2>2, <2>3, <2>4, <2>5, <2>6, <2>7 DEF HandlerStep
<1> QED
  BY <1>2 DEF Reviewing

\* A step leaves each request with the outcome its reviewers gave it.
LEMMA DecidedStep ==
  ASSUME Inv, Reviews, TypeOK', NEW h \in Handlers, HandlerStep(h),
         NEW q \in Requests
  PROVE  Decided(q)'
<1>0. /\ TypeOK /\ Entries /\ Working(h) /\ Decided(q)
      /\ job \in [Handlers -> Job] /\ job[h] \in Job
      /\ request \in [Requests -> Request]
      /\ \A g \in Handlers : g # h => job'[g] = job[g]
  BY HandlerStepKeeps DEF Inv, TypeOK, Reviews
<1>1. ~ReadPending(h) => Reviewing(q)' \subseteq Reviewing(q)
  BY <1>0, FewerReviews
<1>2. CASE ReadPending(h)
  <2> DEFINE x == job[h].req
  <2>1. /\ x \in Requests /\ request[x].status = "PENDING"
        /\ contested' = IF Reviewing(x) # {} THEN contested \cup {x} ELSE contested
        /\ UNCHANGED <<request, approvers>>
    BY <1>0, <1>2 DEF ReadPending, Open, Working
  <2>2. job'[h].req = x
    BY <1>0, <1>2 DEF ReadPending, Goto, Job
  <2>3. CASE q = x
    <3>1. Reviewing(q)' \subseteq Reviewing(q) \cup {h}
      BY <1>0 DEF Reviewing
    <3> QED
      BY <1>0, <2>1, <2>3, <3>1 DEF Decided, Granted
  <2>4. CASE q # x
    <3>1. Reviewing(q)' \subseteq Reviewing(q)
      BY <1>0, <2>2, <2>4 DEF Reviewing
    <3> QED
      BY <1>0, <2>1, <3>1, StaysDecided
  <2> QED
    BY <2>3, <2>4
<1>3. CASE \E x \in Requests : InsertRequest(h, x)
  <2>1. PICK x \in Requests : InsertRequest(h, x)
    BY <1>3
  <2>2. /\ request[x].status = "none" /\ request'[x].status = "PENDING"
        /\ \A y \in Requests : y # x => request'[y] = request[y]
        /\ UNCHANGED <<approvers, contested>> /\ ~ReadPending(h)
    BY <1>0, <2>1 DEF InsertRequest, history, ReadPending
  <2>3. CASE q = x
    <3>1. ~Granted(q) /\ Reviewing(q) = {}
      BY <1>0, <2>2, <2>3 DEF Entries, Inv, Working, Reviewing
    <3> QED
      BY <1>1, <2>2, <2>3, <3>1 DEF Decided, Granted
  <2>4. CASE q # x
    BY <1>0, <1>1, <2>2, <2>4, StaysDecided
  <2> QED
    BY <2>3, <2>4
<1>4. CASE CommitApproval(h) \/ CommitRejection(h)
  <2> DEFINE x == job[h].req
  <2>1. /\ x \in Requests /\ h \in Reviewing(x) /\ ~ReadPending(h)
        /\ job'[h].pc = "audit" /\ contested' = contested
    BY <1>0, <1>4
    DEF CommitApproval, CommitRejection, Working, Reviewing, ReadPending, Goto,
        Job, history
  <2>2. request[x] \in Request /\ \A y \in Requests : y # x =>
           request'[y] = request[y] /\ approvers'[y] = approvers[y]
    BY <1>0, <1>4, <2>1 DEF CommitApproval, CommitRejection, TypeOK, history
  <2>3. CASE q = x
    <3>1. h \notin Reviewing(q)'
      BY <2>1 DEF Reviewing
    <3>2. q \notin contested' => Reviewing(q)' = {}
      BY <1>0, <1>1, <2>1, <2>3, <3>1 DEF Decided
    <3>3. q \notin contested' => ~Granted(q)
      BY <1>0, <2>1, <2>3 DEF Decided
    <3>4. Granted(q)' <=> request'[q].status = "APPROVED" \/ Granted(q)
      <4>1. CASE CommitApproval(h)
        <5>1. approvers'[q] = approvers[q] \cup {job[h].actor}
          BY <2>3, <4>1 DEF CommitApproval, TypeOK, Inv
        <5>2. request'[q] = [request[q] EXCEPT !.status = "APPROVED"]
          BY <1>0, <2>3, <4>1 DEF CommitApproval
        <5> QED
          BY <2>2, <2>3, <5>1, <5>2 DEF Granted, Request
      <4>2. CASE CommitRejection(h)
        <5>1. approvers'[q] = approvers[q]
          BY <4>2 DEF CommitRejection, history
        <5>2. request'[q] = [request[q] EXCEPT !.status = "REJECTED"]
          BY <1>0, <2>3, <4>2 DEF CommitRejection
        <5>3. request'[q].status = "REJECTED"
          BY <2>2, <2>3, <5>2 DEF Request
        <5> QED
          BY <5>1, <5>3 DEF Granted
      <4> QED
        BY <1>4, <4>1, <4>2
    <3> QED
      BY <2>1, <3>2, <3>3, <3>4 DEF Decided
  <2>4. CASE q # x
    BY <1>0, <1>1, <2>1, <2>2, <2>4, StaysDecided
  <2> QED
    BY <2>3, <2>4
<1>5. CASE UNCHANGED <<request, history>> /\ ~ReadPending(h)
  BY <1>0, <1>1, <1>5, StaysDecided DEF history
<1> QED
  BY <1>2, <1>3, <1>4, <1>5
  DEF HandlerStep, StartRequest, CheckFounder, ReadTarget, StartReview,
      CanDecide, WriteAuditLog, Abort

-----------------------------------------------------------------------------
\* A role that was replaced by a grant stays one that was.
LEMMA ReplacedStays ==
  ASSUME Inv, Kept, NEW t, Replaced(t)
  PROVE  Replaced(t)'
BY DEF Inv, Entries, Replaced, Granted, Kept, RequestKept

\* What was recorded of q stays so, when no role changes but by a grant.
LEMMA StaysRecorded ==
  ASSUME Inv, Kept, NEW q \in Requests, Recorded(q), request[q].status # "none",
         request'[q].previous = request[q].previous,
         \A u \in Users : role'[u] = role[u] \/ Replaced(u)',
         contested \subseteq contested', q \in drifted' => q \in drifted
  PROVE  Recorded(q)'
<1>0. PICK t \in Users : request[q].target = t
  BY DEF Inv, Entries
<1>1. request'[q].target = t /\ (Granted(q) => Granted(q)')
  BY <1>0 DEF Inv, Entries, Kept, RequestKept, Granted
<1>2. role'[t] = request'[q].previous \/ Replaced(t)'
  BY <1>0, ReplacedStays DEF Recorded
<1>3. ASSUME NEW r \in Requests, Granted(r) /\ request[r].target = t
      PROVE  Granted(r)' /\ request'[r].target = t
  BY <1>3 DEF Inv, Entries, Kept, RequestKept, Granted
<1> QED
  BY <1>0, <1>1, <1>2, <1>3 DEF Recorded, Replaced

\* A step leaves the audit log saying what was read.
LEMMA RecordedStep ==
  ASSUME Inv, Reviews, TypeOK', NEW h \in Handlers, HandlerStep(h),
         NEW q \in Requests
  PROVE  Recorded(q)'
<1>0. /\ TypeOK /\ Entries /\ Working(h) /\ Recorded(q) /\ Decided(q) /\ ReadRole(h)
      /\ job \in [Handlers -> Job] /\ job[h] \in Job
      /\ request \in [Requests -> Request]
      /\ Kept
  BY HandlerStepKeeps DEF Inv, TypeOK, Reviews
<1>1. ASSUME UNCHANGED <<role, request, approvers, drifted>>, contested \subseteq contested'
      PROVE  Recorded(q)'
  BY <1>0, <1>1 DEF Recorded, Replaced, Granted
<1>2. CASE \E x \in Requests : InsertRequest(h, x)
  <2>1. PICK x \in Requests : InsertRequest(h, x)
    BY <1>2
  <2>2. /\ request[x].status = "none"
        /\ request'[x] = [status |-> "PENDING", target |-> job[h].target,
                          requested |-> job[h].role, previous |-> job[h].was,
                          by |-> job[h].actor]
        /\ \A y \in Requests : y # x => request'[y] = request[y]
        /\ UNCHANGED <<role, history>> /\ job[h].pc = "insert"
    BY <1>0, <2>1 DEF InsertRequest
  <2>3. CASE q = x
    <3>1. PICK t \in Users : t = job[h].target
      BY <1>0, <2>2 DEF Working
    <3>2. role[t] = job[h].was \/ Replaced(t)
      BY <1>0, <2>2, <3>1 DEF ReadRole
    <3>3. Replaced(t) => Replaced(t)'
      BY <1>0, ReplacedStays
    <3>4. request'[q].target = t /\ request'[q].previous = job[h].was
      BY <2>2, <2>3, <3>1
    <3>5. q \notin drifted'
      BY <1>0, <2>2, <2>3 DEF Recorded, Entries, history
    <3> QED
      BY <2>2, <3>2, <3>3, <3>4, <3>5 DEF Recorded, Replaced
  <2>4. CASE q # x /\ request[q].status # "none"
    BY <1>0, <2>2, <2>4, StaysRecorded DEF history
  <2>5. CASE q # x /\ request[q].status = "none"
    BY <1>0, <2>2, <2>5 DEF Recorded, Entries, history
  <2> QED
    BY <2>3, <2>4, <2>5
<1>3. CASE CommitApproval(h)
  <2>0. PICK x \in Requests : x = job[h].req /\ request[x].status # "none"
    BY <1>0, <1>3 DEF CommitApproval, Working
  <2>1. PICK t \in Users : t = request[x].target
    BY <1>0, <2>0 DEF Entries
  <2>2. /\ role' = [role EXCEPT ![t] = request[x].requested]
        /\ request' = [request EXCEPT ![x].status = "APPROVED"]
        /\ approvers' = [approvers EXCEPT ![x] = @ \cup {job[h].actor}]
        /\ drifted' = IF role[t] = request[x].previous THEN drifted
                      ELSE drifted \cup {x}
        /\ contested' = contested /\ h \in Reviewing(x)
    BY <1>3, <2>0, <2>1 DEF CommitApproval, Reviewing
  <2>3. request[x] \in Request
    BY <1>0, <2>0
  <2>4. /\ request'[x] = [request[x] EXCEPT !.status = "APPROVED"]
        /\ \A y \in Requests : y # x => request'[y] = request[y]
    BY <1>0, <2>0, <2>2
  <2>5. /\ request'[x].previous = request[x].previous /\ request'[x].target = t
        /\ Granted(x)'
    BY <1>0, <2>1, <2>2, <2>3, <2>4 DEF Request, Granted, TypeOK
  <2>6. \A u \in Users : role'[u] = role[u] \/ Replaced(u)'
    BY <1>0, <2>2, <2>5 DEF Replaced, TypeOK
  <2>7. CASE q # x /\ request[q].status # "none"
    BY <1>0, <2>2, <2>4, <2>6, <2>7, StaysRecorded
  <2>8. CASE q # x /\ request[q].status = "none"
    BY <1>0, <2>2, <2>4, <2>8 DEF Recorded, Entries
  <2>9. CASE q = x
    <3>1. CASE q \in drifted \/ role[t] = request[x].previous
      <4>1. q \in drifted' => q \in drifted
        BY <2>2, <2>9, <3>1
      <4> QED
        BY <1>0, <2>0, <2>2, <2>5, <2>6, <2>9, <4>1, StaysRecorded
    <3>2. CASE role[t] # request[x].previous
      <4>1. Replaced(t)
        BY <1>0, <2>0, <2>1, <2>9, <3>2 DEF Recorded
      <4>2. PICK r \in Requests : Granted(r) /\ request[r].target = t
        BY <4>1 DEF Replaced
      <4>3. Granted(r)' /\ request'[r].target = t
        BY <1>0, <4>2 DEF Entries, Kept, RequestKept, Granted
      <4>4. q \notin contested' => ~Granted(q)
        BY <1>0, <2>2, <2>9 DEF Decided
      <4>5. Replaced(t)'
        BY <4>3 DEF Replaced
      <4> QED
        BY <2>5, <2>9, <4>2, <4>3, <4>4, <4>5 DEF Recorded, Replaced
    <3> QED
      BY <3>1, <3>2
  <2> QED
    BY <2>7, <2>8, <2>9
<1>4. CASE CommitRejection(h)
  <2>1. job[h].req \in Requests /\ request[job[h].req] \in Request
    BY <1>0, <1>4 DEF CommitRejection, Working
  <2>2. /\ request'[job[h].req] = [request[job[h].req] EXCEPT !.status = "REJECTED"]
        /\ \A y \in Requests : y # job[h].req => request'[y] = request[y]
        /\ UNCHANGED <<role, approvers, drifted, contested>>
    BY <1>0, <1>4, <2>1 DEF CommitRejection, history
  <2>3. request'[q].previous = request[q].previous
    BY <2>1, <2>2 DEF Request
  <2>4. CASE request[q].status # "none"
    BY <1>0, <2>2, <2>3, <2>4, StaysRecorded
  <2>5. CASE request[q].status = "none"
    <3>1. q # job[h].req
      BY <1>0, <1>4, <2>5 DEF CommitRejection, Working
    <3> QED
      BY <1>0, <2>2, <2>5, <3>1 DEF Recorded, Entries
  <2> QED
    BY <2>4, <2>5
<1>5. CASE ReadPending(h)
  BY <1>1, <1>5 DEF ReadPending
<1>6. CASE UNCHANGED <<role, request, history>>
  BY <1>1, <1>6 DEF history
<1> QED
  BY <1>2, <1>3, <1>4, <1>5, <1>6
  DEF HandlerStep, StartRequest, CheckFounder, ReadTarget, StartReview,
      CanDecide, WriteAuditLog, Abort

\* A handler still knows the target's role as it read it, or it has drifted.
LEMMA ReadRoleStep ==
  ASSUME Inv, Reviews, TypeOK', NEW h \in Handlers, HandlerStep(h),
         NEW g \in Handlers
  PROVE  ReadRole(g)'
<1> SUFFICES ASSUME job'[g].pc = "insert"
             PROVE  \E t \in Users : /\ t = job'[g].target
                                     /\ role'[t] = job'[g].was \/ Replaced(t)'
  BY DEF ReadRole, Replaced
<1>0. /\ TypeOK /\ Entries /\ Working(h) /\ Working(g) /\ ReadRole(g)
      /\ job \in [Handlers -> Job] /\ job[h] \in Job
      /\ Kept /\ \A x \in Handlers : x # h => job'[x] = job[x]
  BY HandlerStepKeeps DEF Inv, TypeOK, Reviews
<1>1. ASSUME NEW u \in Users PROVE role'[u] = role[u] \/ Replaced(u)'
  <2>1. CASE CommitApproval(h)
    <3>1. PICK x \in Requests : x = job[h].req /\ request[x].status # "none"
      BY <1>0, <2>1 DEF CommitApproval, Working
    <3>2. /\ role' = [role EXCEPT ![request[x].target] = request[x].requested]
          /\ approvers' = [approvers EXCEPT ![x] = @ \cup {job[h].actor}]
      BY <2>1, <3>1 DEF CommitApproval
    <3>3. Granted(x)' /\ request'[x].target = request[x].target
      BY <1>0, <3>1, <3>2 DEF Granted, TypeOK, Kept, RequestKept
    <3> QED
      BY <1>0, <3>2, <3>3 DEF Replaced, TypeOK
  <2>2. CASE role' = role
    BY <2>2
  <2> QED
    BY <2>1, <2>2
    DEF HandlerStep, StartRequest, CheckFounder, ReadTarget, StartReview,
        InsertRequest, ReadPending, CanDecide, CommitRejection, WriteAuditLog,
        Abort
<1>2. CASE job'[g] = job[g]
  <2>1. PICK t \in Users : t = job[g].target
    BY <1>0, <1>2 DEF Working
  <2>2. role[t] = job[g].was \/ Replaced(t)
    BY <1>0, <1>2, <2>1 DEF ReadRole
  <2>3. Replaced(t) => Replaced(t)'
    BY <1>0, ReplacedStays
  <2> QED
    BY <1>1, <1>2, <2>1, <2>2, <2>3
<1>3. CASE job'[g] # job[g]
  <2>1. g = h
    BY <1>0, <1>3
  <2>2. CASE ReadTarget(h)
    <3>1. PICK t \in Users : t = job[h].target
      BY <1>0, <2>2 DEF ReadTarget, Working
    <3>2. job'[g].target = t /\ job'[g].was = role[t] /\ role' = role
      BY <1>0, <2>1, <2>2, <3>1 DEF ReadTarget, Job
    <3> QED
      BY <3>2
  <2>3. CASE ReadPending(h) \/ CanDecide(h) \/ CommitApproval(h) \/ CommitRejection(h)
    BY <1>0, <2>1, <2>3 DEF ReadPending, CanDecide, CommitApproval, CommitRejection, Goto, Job
  <2>4. CASE CheckFounder(h)
    BY <1>0, <2>1, <2>4 DEF CheckFounder, Goto, Job
  <2>5. CASE WriteAuditLog(h) \/ Abort(h)
    BY <1>0, <2>1, <2>5 DEF WriteAuditLog, Abort, Idle
  <2>6. CASE \E a, t \in Users, r \in Role : StartRequest(h, a, t, r)
    BY <1>0, <2>1, <2>6 DEF StartRequest, Idle
  <2>7. CASE \E a \in Users, x \in Requests, op \in {"approve", "reject"} :
                StartReview(h, a, x, op)
    BY <1>0, <2>1, <2>7 DEF StartReview, Idle
  <2>8. CASE \E x \in Requests : InsertRequest(h, x)
    BY <1>0, <2>1, <2>8 DEF InsertRequest, Idle
  <2> QED
    BY <2>2, <2>3, <2>4, <2>5, <2>6, <2>7, <2>8 DEF HandlerStep
<1> QED
  BY <1>2, <1>3

\* Every step keeps the reviews in order.
LEMMA StepReviews == Inv /\ Reviews /\ TypeOK' /\ [Next]_vars => Reviews'
<1> SUFFICES ASSUME Inv, Reviews, TypeOK', [Next]_vars PROVE Reviews'
  OBVIOUS
<1>1. ASSUME NEW h \in Handlers, HandlerStep(h) PROVE Reviews'
  BY <1>1, DecidedStep, RecordedStep, ReadRoleStep DEF Reviews
<1>2. CASE UNCHANGED vars
  BY <1>2 DEF vars, history, Reviews, Decided, Recorded, ReadRole, Replaced, Granted,
              Reviewing
<1> QED
  BY <1>1, <1>2 DEF Next

(* Reviews, outcomes and the audit log agree in every state the service    *)
(* can get into, but for requests two reviewers decided at once.           *)
THEOREM ReviewsInOrder == Spec => []Reviews
<1>1. Inv => TypeOK
  BY DEF Inv
<1> QED
  BY <1>1, InitReviews, StepReviews, Invariance, PTL DEF Spec

(* A request that two reviews never had open at once ends one way: its     *)
(* role change was applied if and only if its status is APPROVED (approve, *)
(* reject: neither write has a condition on the status).                   *)
THEOREM OneOutcome == Spec => []UncontestedOutcome
<1>1. Reviews => UncontestedOutcome
  BY DEF Reviews, Decided, UncontestedOutcome
<1> QED
  BY <1>1, ReviewsInOrder, PTL

(* The role the audit log shows as the one replaced is the one that was,   *)
(* unless another request for the account was granted as well or the       *)
(* request itself was reviewed twice at once (create, approve).            *)
THEOREM AuditIsTrue == Spec => []AuditShowsTheRoleReplaced
<1>1. Reviews /\ Inv => AuditShowsTheRoleReplaced
  BY DEF Reviews, Recorded, AuditShowsTheRoleReplaced, Inv, TypeOK
<1> QED
  BY <1>1, ReviewsInOrder, Invariance, PTL
=============================================================================
