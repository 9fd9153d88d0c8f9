--------------------------- MODULE DeviceApproval ---------------------------
(***************************************************************************)
(* Approval of a new device: a request with a code to compare, created     *)
(* when a user's sign-in comes from a device never seen before, approved   *)
(* or denied from a device that user is signed in on, expired by whoever   *)
(* looks at it too late.                                                   *)
(*                                                                         *)
(* A call reads the row (and expires it), checks it, and then commits.     *)
(***************************************************************************)
EXTENDS Naturals

CONSTANTS
    Users,
    Asked,      \* rows of the DeviceApprovalRequest table (a bound)
    Handlers,   \* calls in progress at once (a bound)
    None        \* null

\* What an instance of this module assumes of its constants.
NoneIsNoUser == None \notin Users

VARIABLES
    status,     \* DeviceApprovalRequest.status ("none": not created yet)
    owner,      \* DeviceApprovalRequest.userId
    overdue,    \* requests past their expiresAt
    job,        \* job[h]: what handler h is doing and what it has read
    decided     \* history: who approved, and whether their code matched

vars == <<status, owner, overdue, job, decided>>

Status == {"none", "PENDING", "APPROVED", "DENIED", "EXPIRED"}

Call == [pc : {"idle", "find", "expire", "decide"},
         op : {"status", "approve", "deny"},
         on : Asked \cup {None}, user : Users \cup {None},
         seen : Status, matches : BOOLEAN]

Idle == [pc |-> "idle", op |-> "status", on |-> None, user |-> None,
         seen |-> "none", matches |-> FALSE]

NotDecided == [user |-> None, matches |-> FALSE]

TypeOK ==
    /\ status \in [Asked -> Status]
    /\ owner \in [Asked -> Users \cup {None}]
    /\ overdue \subseteq Asked
    /\ job \in [Handlers -> Call]
    /\ decided \in [Asked -> [user : Users \cup {None}, matches : BOOLEAN]]

Init ==
    /\ status = [q \in Asked |-> "none"]
    /\ owner = [q \in Asked |-> None]
    /\ overdue = {}
    /\ job = [h \in Handlers |-> Idle]
    /\ decided = [q \in Asked |-> NotDecided]

End(h) == job' = [job EXCEPT ![h] = Idle]

\* resolveDevice() meets a device it does not know, for a user with alerts on.
CreateForNewDevice(u, q) ==
    /\ status[q] = "none"
    /\ status' = [status EXCEPT ![q] = "PENDING"]
    /\ owner' = [owner EXCEPT ![q] = u]
    /\ UNCHANGED <<overdue, job, decided>>

\* A request comes in: of the browser that waits, or of an app u is in.
Begin(h, op, u, q, ok) ==
    /\ job[h].pc = "idle"
    /\ status[q] # "none"
    /\ job' = [job EXCEPT ![h] = [pc |-> "find", op |-> op, on |-> q, user |-> u,
                                  seen |-> "none", matches |-> ok]]
    /\ UNCHANGED <<status, owner, overdue, decided>>

\* findActiveOrExpire(): the read ...
Find(h) ==
    LET q == job[h].on
        lapsed == status[q] = "PENDING" /\ q \in overdue
    IN /\ job[h].pc = "find"
       /\ job' = [job EXCEPT ![h].pc = IF lapsed THEN "expire" ELSE "decide",
                             ![h].seen = status[q]]
       /\ UNCHANGED <<status, owner, overdue, decided>>

\* ... and the update by id, on no condition.
Expire(h) ==
    /\ job[h].pc = "expire"
    /\ status' = [status EXCEPT ![job[h].on] = "EXPIRED"]
    /\ job' = [job EXCEPT ![h].pc = "decide", ![h].seen = "EXPIRED"]
    /\ UNCHANGED <<owner, overdue, decided>>

\* A mutant of MayDecide: whoever knows the code may approve.
MayDecideByCode(h) ==
    /\ job[h].seen = "PENDING"
    /\ job[h].op = "deny" \/ job[h].matches

\* Another user's request is not found, and an approval must match its code.
MayDecide(h) ==
    /\ job[h].user = owner[job[h].on]
    /\ job[h].seen = "PENDING"
    /\ job[h].op = "deny" \/ job[h].matches

\* approve() and deny(): updateMany({where: {id, status: PENDING}}).
Approve(h) ==
    LET q == job[h].on
    IN /\ job[h].pc = "decide" /\ job[h].op = "approve"
       /\ MayDecide(h) /\ status[q] = "PENDING"
       /\ status' = [status EXCEPT ![q] = "APPROVED"]
       /\ decided' = [decided EXCEPT ![q] = [user |-> job[h].user,
                                             matches |-> job[h].matches]]
       /\ End(h)
       /\ UNCHANGED <<owner, overdue>>

Deny(h) ==
    LET q == job[h].on
    IN /\ job[h].pc = "decide" /\ job[h].op = "deny"
       /\ MayDecide(h) /\ status[q] = "PENDING"
       /\ status' = [status EXCEPT ![q] = "DENIED"]
       /\ End(h)
       /\ UNCHANGED <<owner, overdue, decided>>

\* A refusal, a status that is only read, a query that throws, a restart.
Leave(h) ==
    /\ job[h].pc # "idle"
    /\ End(h)
    /\ UNCHANGED <<status, owner, overdue, decided>>

\* APPROVAL_TTL_MS go by.
TimePasses(q) ==
    /\ status[q] # "none" /\ q \notin overdue
    /\ overdue' = overdue \cup {q}
    /\ UNCHANGED <<status, owner, job, decided>>

Next ==
    \/ \E u \in Users, q \in Asked : CreateForNewDevice(u, q)
    \/ \E q \in Asked : TimePasses(q)
    \/ \E h \in Handlers :
          \/ \E op \in {"status", "approve", "deny"}, u \in Users, q \in Asked,
                ok \in BOOLEAN : Begin(h, op, u, q, ok)
          \/ Find(h) \/ Expire(h) \/ Approve(h) \/ Deny(h) \/ Leave(h)

Spec == Init /\ [][Next]_vars

-----------------------------------------------------------------------------
(* The promise kept by QrLogin is kept here as well: an approval is a      *)
(* ticket one user approves once - its owner, with the code that was       *)
(* shown - and that stays closed once it is denied or expired, whatever    *)
(* the unconditional expiry overwrites.  Nothing redeems it yet.           *)
ticketOf == [q \in Asked |->
                CASE status[q] \in {"none", "PENDING"} -> "open"
                  [] status[q] \in {"DENIED", "EXPIRED"} -> "closed"
                  [] OTHER -> IF decided[q] = [user |-> owner[q], matches |-> TRUE]
                              THEN "approved" ELSE "forged"]

holderOf == [q \in Asked |-> decided[q].user]

Ticket == INSTANCE LoginTicket WITH
              Tickets <- Asked, ticket <- ticketOf,
              holder <- holderOf,
              sessions <- [q \in Asked |-> 0],
              signedIn <- [q \in Asked |-> None]

TicketsAreImplemented == Ticket!Spec

-----------------------------------------------------------------------------
(* What the proofs about this module rest on: an invariant that is         *)
(* inductive, and what a step does to a request.                           *)

\* A call at work is some user's, on some request.
Working(h) == job[h].pc # "idle" => job[h].on \in Asked /\ job[h].user \in Users

\* An approved request was approved by its owner, with the code shown.
Genuine(q) ==
    status[q] = "APPROVED" => decided[q] = [user |-> owner[q], matches |-> TRUE]

Inv == /\ TypeOK
       /\ \A h \in Handlers : Working(h)
       /\ \A q \in Asked : Genuine(q)

\* What a step does to a request: it is created, decided, or expired.
Approves(q) ==
    /\ status[q] = "PENDING" /\ status'[q] = "APPROVED"
    /\ owner'[q] = owner[q] /\ owner[q] \in Users
    /\ decided'[q] = [user |-> owner[q], matches |-> TRUE]

Closes(q) ==
    /\ status'[q] \in {"DENIED", "EXPIRED"}
    /\ owner'[q] = owner[q] /\ decided'[q] = decided[q]

Creates(q) ==
    /\ status[q] = "none" /\ status'[q] = "PENDING"
    /\ decided'[q] = decided[q]

Rests(q) ==
    status'[q] = status[q] /\ owner'[q] = owner[q] /\ decided'[q] = decided[q]

\* A step changes one request at most.
Decision ==
    \/ \A q \in Asked : Rests(q)
    \/ \E q \in Asked : /\ Approves(q) \/ Closes(q) \/ Creates(q)
                        /\ \A r \in Asked \ {q} : Rests(r)
=============================================================================
