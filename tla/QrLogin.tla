------------------------------ MODULE QrLogin ------------------------------
(***************************************************************************)
(* QR / deep-link login: the LoginRequest row on the server, NDYAPPS       *)
(* approving or denying it, the WebSocket room that announces its status,  *)
(* and the browser hook (useLoginRequest) that waits for it by socket and  *)
(* by polling at once and then exchanges it for a session.                 *)
(*                                                                         *)
(* A request is a handler with one step per database statement.  The       *)
(* socket may lose or delay a status and deliver them in any order, which  *)
(* also covers the time between a commit and its publication.              *)
(***************************************************************************)
EXTENDS Naturals

CONSTANTS
    Tokens,     \* supply of login requests (a bound)
    Users,      \* accounts signed in to NDYAPPS
    Polls,      \* status polls the browser may have in flight (a bound)
    Exchanges,  \* exchange calls the browser may have in flight (a bound)
    Apps,       \* NDYAPPS calls that may be in progress (a bound)
    None        \* null

\* What an instance of this module assumes of its constants.
NoneIsNoValue == None \notin Tokens \cup Users
HandlersDisjoint ==
    /\ Polls \cap Exchanges = {} /\ Polls \cap Apps = {}
    /\ Exchanges \cap Apps = {}

VARIABLES
    status,     \* LoginRequest.status ("none": not created yet)
    overdue,    \* requests past their expiresAt
    owner,      \* LoginRequest.userId
    issued,     \* requests whose sessionIssuedAt is set
    job,        \* job[h]: what handler h is doing and what it has read
    wire,       \* statuses published to the browser's room, not delivered
    phase,      \* the hook's state.phase
    conn,       \* request whose socket and poll interval are set up, or None
    sessions,   \* history: sessions issued per request
    signedIn    \* history: the user of the last of them

vars == <<status, overdue, owner, issued, job, wire, phase, conn,
          sessions, signedIn>>
history == <<sessions, signedIn>>

Processes == Polls \cup Exchanges \cup Apps

Status == {"PENDING", "APPROVED", "DENIED", "EXPIRED"}

Job == [pc   : {"idle", "find", "expire", "act", "issue", "reply", "ok", "fail"},
        op   : {"poll", "look", "approve", "deny", "exchange"},
        tok  : Tokens \cup {None},
        seen : Status,
        user : Users \cup {None}]

Idle == [pc |-> "idle", op |-> "look", tok |-> None, seen |-> "PENDING",
         user |-> None]

Phase == {"loading", "pending", "approved", "success", "denied", "expired",
          "error"}

TypeOK ==
    /\ status \in [Tokens -> Status \cup {"none"}]
    /\ overdue \subseteq Tokens
    /\ owner \in [Tokens -> Users \cup {None}]
    /\ issued \subseteq Tokens
    /\ job \in [Processes -> Job]
    /\ wire \subseteq Tokens \X Status
    /\ phase \in Phase
    /\ conn \in Tokens \cup {None}
    /\ sessions \in [Tokens -> Nat]
    /\ signedIn \in [Tokens -> Users \cup {None}]

Init ==
    /\ status = [t \in Tokens |-> "none"]
    /\ overdue = {}
    /\ owner = [t \in Tokens |-> None]
    /\ issued = {}
    /\ job = [h \in Processes |-> Idle]
    /\ wire = {}
    /\ phase = "loading"
    /\ conn = None
    /\ sessions = [t \in Tokens |-> 0]
    /\ signedIn = [t \in Tokens |-> None]

request == <<status, overdue, owner, issued>>
browser == <<wire, phase, conn>>

Call(h, o, t, u) ==
    [Idle EXCEPT !.pc = "find", !.op = o, !.tok = t, !.user = u]

Goto(h, pc) == job' = [job EXCEPT ![h].pc = pc]

End(h) == job' = [job EXCEPT ![h] = Idle]

\* gateway.publishStatus: whoever is in the room may get it.
Publish(t, s) == \/ wire' = wire
                 \/ conn = t /\ wire' = wire \cup {<<t, s>>}

-----------------------------------------------------------------------------
(* The server.                                                             *)

\* NDYAPPS shows a request, approves or denies it (JwtAuthGuard: u).
AppCalls(h, o, t, u) ==
    /\ h \in Apps /\ job[h].pc = "idle"
    /\ status[t] # "none"
    /\ job' = [job EXCEPT ![h] = Call(h, o, t, u)]
    /\ UNCHANGED <<request, browser, history>>

\* A mutant of Lapsed: nothing ever expires by being looked at.
LapsedNever(t) == FALSE

Lapsed(t) == status[t] = "PENDING" /\ t \in overdue

(* findActiveOrExpire: the read ...                                        *)
Find(h) ==
    LET t == job[h].tok
    IN /\ job[h].pc = "find"
       /\ job' = [job EXCEPT
                    ![h].pc = IF Lapsed(t) THEN "expire" ELSE "act",
                    ![h].seen = status[t],
                    ![h].user = IF job[h].op = "exchange" THEN owner[t] ELSE @]
       /\ UNCHANGED <<request, browser, history>>

(* ... and the update({where: {token}}): no condition on the status.       *)
Expire(h) ==
    LET t == job[h].tok
    IN /\ job[h].pc = "expire"
       /\ status' = [status EXCEPT ![t] = "EXPIRED"]
       /\ job' = [job EXCEPT ![h].pc = "act", ![h].seen = "EXPIRED"]
       /\ Publish(t, "EXPIRED")
       /\ UNCHANGED <<overdue, owner, issued, phase, conn, history>>

\* getLoginRequestStatus
Answer(h) ==
    /\ job[h].pc = "act" /\ job[h].op \in {"poll", "look"}
    /\ IF job[h].op = "poll" THEN Goto(h, "reply") ELSE End(h)
    /\ UNCHANGED <<request, browser, history>>

\* updateMany({where: {token, status: PENDING}})
StillPending(t) == status[t] = "PENDING"

(* approveLoginRequest: one updateMany, then its count is checked.         *)
Approve(h) ==
    LET t == job[h].tok
    IN /\ job[h].pc = "act" /\ job[h].op = "approve"
       /\ End(h)
       /\ \/ /\ job[h].seen = "PENDING" /\ StillPending(t)
             /\ status' = [status EXCEPT ![t] = "APPROVED"]
             /\ owner' = [owner EXCEPT ![t] = job[h].user]
             /\ Publish(t, "APPROVED")
          \/ /\ ~(job[h].seen = "PENDING" /\ StillPending(t))
             /\ UNCHANGED <<status, owner, wire>>
       /\ UNCHANGED <<overdue, issued, phase, conn, history>>

(* denyLoginRequest: the count is not checked, so DENIED is published and  *)
(* the call succeeds whether or not the update matched.                    *)
Deny(h) ==
    LET t == job[h].tok
    IN /\ job[h].pc = "act" /\ job[h].op = "deny"
       /\ End(h)
       /\ \/ /\ job[h].seen = "PENDING"
             /\ status' = [status EXCEPT ![t] = IF @ = "PENDING" THEN "DENIED"
                                                ELSE @]
             /\ Publish(t, "DENIED")
          \/ /\ job[h].seen # "PENDING"
             /\ UNCHANGED <<status, wire>>
       /\ UNCHANGED <<overdue, owner, issued, phase, conn, history>>

\* A mutant of Redeemable: two exchanges that both read it unspent both pass.
RedeemableTwice(h) == job[h].seen = "APPROVED"

\* The row read was APPROVED, and
\* updateMany({where: {token, status: APPROVED, sessionIssuedAt: null}})
\* still finds it.
Redeemable(h) == /\ job[h].seen = "APPROVED"
                 /\ status[job[h].tok] = "APPROVED"
                 /\ job[h].tok \notin issued

(* exchangeLoginRequest: consume, then issue the session.                  *)
Consume(h) ==
    /\ job[h].pc = "act" /\ job[h].op = "exchange"
    /\ IF Redeemable(h)
       THEN /\ issued' = issued \cup {job[h].tok}
            /\ Goto(h, "issue")
       ELSE /\ Goto(h, "fail")
            /\ UNCHANGED issued
    /\ UNCHANGED <<status, overdue, owner, browser, history>>

IssueSession(h) ==
    LET t == job[h].tok
    IN /\ job[h].pc = "issue"
       /\ sessions' = [sessions EXCEPT ![t] = @ + 1]
       /\ signedIn' = [signedIn EXCEPT ![t] = job[h].user]
       /\ Goto(h, "ok")
       /\ UNCHANGED <<request, browser>>

\* A query throws, the process restarts or the connection drops.
Abort(h) ==
    /\ job[h].pc \notin {"idle", "fail"}
    /\ IF job[h].op = "exchange" THEN Goto(h, "fail") ELSE End(h)
    /\ UNCHANGED <<request, browser, history>>

\* 90 seconds pass.
TimePasses(t) ==
    /\ status[t] # "none" /\ t \notin overdue
    /\ overdue' = overdue \cup {t}
    /\ UNCHANGED <<status, owner, issued, job, browser, history>>

-----------------------------------------------------------------------------
(* The browser.                                                            *)

\* fetchAndSubscribe: the request is created, then socket and interval.
Create(t) ==
    /\ phase = "loading"
    /\ status[t] = "none"
    /\ status' = [status EXCEPT ![t] = "PENDING"]
    /\ phase' = "pending"
    /\ conn' = t
    /\ UNCHANGED <<overdue, owner, issued, job, wire, history>>

\* The request to create one fails.
CreateFails ==
    /\ phase = "loading"
    /\ phase' = "error"
    /\ UNCHANGED <<request, job, wire, conn, history>>

\* The interval fires: it is set whether or not the socket connects.
StartPoll(h) ==
    /\ h \in Polls /\ job[h].pc = "idle"
    /\ conn # None
    /\ job' = [job EXCEPT ![h] = Call(h, "poll", conn, None)]
    /\ UNCHANGED <<request, browser, history>>

\* A mutant of PhaseOf: the status itself is shown.
PhaseOfRaw(s) == s

PhaseOf(s) == CASE s = "DENIED" -> "denied"
                [] s = "EXPIRED" -> "expired"
                [] s = "APPROVED" -> "approved"

(* handleStatus(t, s), on behalf of an event source that leaves the jobs   *)
(* as in j.  cleanup() drops whatever connection is current.               *)
HandleStatus(t, s, j) ==
    \/ /\ s = "PENDING"
       /\ job' = j
       /\ UNCHANGED browser
    \/ /\ s \in {"DENIED", "EXPIRED"}
       /\ phase' = PhaseOf(s)
       /\ conn' = None /\ wire' = {}
       /\ job' = j
    \/ /\ s = "APPROVED"
       /\ phase' = PhaseOf(s)
       /\ conn' = None /\ wire' = {}
       /\ \E x \in Exchanges :
             /\ j[x].pc = "idle"
             /\ job' = [j EXCEPT ![x] = Call(x, "exchange", t, None)]

PollReturns(h) ==
    /\ job[h].pc = "reply"
    /\ HandleStatus(job[h].tok, job[h].seen, [job EXCEPT ![h] = Idle])
    /\ UNCHANGED <<request, history>>

SocketEvent(t, s) ==
    /\ <<t, s>> \in wire /\ conn = t
    /\ HandleStatus(t, s, job)
    /\ UNCHANGED <<request, history>>

ExchangeReturns(h) ==
    /\ job[h].pc \in {"ok", "fail"}
    /\ phase' = IF job[h].pc = "ok" THEN "success" ELSE "error"
    /\ End(h)
    /\ UNCHANGED <<request, wire, conn, history>>

\* "Try again"
Restart ==
    /\ phase \in {"denied", "expired", "error"}
    /\ \E t \in Tokens : status[t] = "none"
    /\ phase' = "loading"
    /\ conn' = None /\ wire' = {}
    /\ UNCHANGED <<request, job, history>>

-----------------------------------------------------------------------------
ServerStep(h) ==
    \/ Find(h) \/ Expire(h) \/ Answer(h) \/ Approve(h) \/ Deny(h)
    \/ Consume(h) \/ IssueSession(h)

BrowserStep ==
    \/ \E t \in Tokens : Create(t)
    \/ \E h \in Processes : StartPoll(h) \/ PollReturns(h) \/ ExchangeReturns(h)
    \/ \E t \in Tokens, s \in Status : SocketEvent(t, s)
    \/ CreateFails \/ Restart

Next ==
    \/ \E h \in Processes : ServerStep(h) \/ Abort(h)
    \/ \E h \in Processes, o \in {"look", "approve", "deny"}, t \in Tokens,
          u \in Users : AppCalls(h, o, t, u)
    \/ \E t \in Tokens : TimePasses(t)
    \/ BrowserStep

Spec == Init /\ [][Next]_vars

(* Handlers run to an end, replies arrive, the interval keeps firing, time *)
(* passes.  Strong fairness where a failed call may be tried again: not    *)
(* every poll fails.  Nothing is assumed of NDYAPPS, the socket or the     *)
(* user.                                                                   *)
Fairness ==
    /\ \A h \in Polls :
          /\ SF_vars(Find(h)) /\ SF_vars(Expire(h)) /\ SF_vars(Answer(h))
          /\ SF_vars(PollReturns(h)) /\ WF_vars(StartPoll(h))
    /\ \A h \in Exchanges : WF_vars(ServerStep(h)) /\ WF_vars(ExchangeReturns(h))
    /\ \A t \in Tokens : WF_vars(TimePasses(t))
    /\ WF_vars(\E t \in Tokens : Create(t))

FairSpec == Spec /\ Fairness

-----------------------------------------------------------------------------
(* Properties.                                                             *)

(* The server's rows and handlers implement the one-time ticket: one       *)
(* approver, at most one session and that approver's, nothing after a      *)
(* denial or an expiry - whatever the unconditional expiry, the missing    *)
(* count check of deny() and aborted handlers do in between.               *)
ticketOf == [t \in Tokens |->
                IF t \in issued THEN "redeemed"
                ELSE IF status[t] \in {"none", "PENDING"} THEN "open"
                ELSE IF status[t] = "APPROVED" THEN "approved"
                ELSE "closed"]

Ticket == INSTANCE LoginTicket WITH Tickets <- Tokens, ticket <- ticketOf,
                                    holder <- owner

TicketsAreImplemented == Ticket!Spec

(* No one is left waiting: whatever is lost on the way, the browser stops  *)
(* showing a QR code or "signing you in" - it was answered, or it expired. *)
Waiting == phase \in {"loading", "pending", "approved"}

WaitingEnds == Waiting ~> ~Waiting
=============================================================================
