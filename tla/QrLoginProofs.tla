---------------------------- MODULE QrLoginProofs ----------------------------
(***************************************************************************)
(* Proofs about QrLogin: type correctness, and that the login request on   *)
(* the server implements the one-time ticket of LoginTicket: one approver, *)
(* at most one session and that approver's, nothing after the end.         *)
(*                                                                         *)
(* Each handler acts on what it read before its awaits. The invariant says *)
(* what it may rely on all the same: an approver that was read with        *)
(* APPROVED stays the owner (Reader), and of a request that was redeemed   *)
(* one handler at most still owes the session (Redeemed).                  *)
(***************************************************************************)
EXTENDS QrLogin, TLAPS

\* What handler h relies on.
Reader(h) ==
    LET j == job[h]
    IN /\ j.pc \in {"find", "expire", "act", "issue", "reply"} =>
             j.tok \in Tokens /\ status[j.tok] # "none"
       /\ j.op \in {"approve", "deny", "look"} /\ j.pc # "idle" => j.user \in Users
       /\ j.op = "exchange" /\ j.pc = "act" /\ j.seen = "APPROVED" =>
             /\ status[j.tok] \in {"APPROVED", "EXPIRED", "DENIED"}
             /\ j.user = owner[j.tok]
       /\ j.pc = "issue" => /\ j.tok \in issued /\ sessions[j.tok] = 0
                            /\ j.user = owner[j.tok]

\* Where a request that was, or was not, redeemed stands.
Redeemed(t) ==
    /\ t \in issued => status[t] \in {"APPROVED", "EXPIRED", "DENIED"}
    /\ t \notin issued => sessions[t] = 0
    /\ \A g, h \in Processes :
          /\ job[g].pc = "issue" /\ job[g].tok = t
          /\ job[h].pc = "issue" /\ job[h].tok = t
          => g = h

\* The browser waits for a request that exists.
Connected == conn # None => status[conn] # "none"

Inv == /\ TypeOK
       /\ Connected
       /\ \A h \in Processes : Reader(h)
       /\ \A t \in Tokens : Redeemed(t)

-----------------------------------------------------------------------------
\* What a step does to a login request.
Rests(t) ==
    /\ status'[t] = status[t] /\ owner'[t] = owner[t]
    /\ t \in issued' <=> t \in issued
    /\ sessions'[t] = sessions[t] /\ signedIn'[t] = signedIn[t]

Creates(t) ==
    /\ status[t] = "none" /\ status'[t] = "PENDING" /\ owner'[t] = owner[t]
    /\ t \in issued' <=> t \in issued
    /\ sessions'[t] = sessions[t] /\ signedIn'[t] = signedIn[t]

Approves(t) ==
    /\ status[t] = "PENDING" /\ status'[t] = "APPROVED" /\ owner'[t] \in Users
    /\ t \in issued' <=> t \in issued
    /\ sessions'[t] = sessions[t] /\ signedIn'[t] = signedIn[t]

Closes(t) ==
    /\ status'[t] \in {"DENIED", "EXPIRED"} /\ owner'[t] = owner[t]
    /\ t \in issued' <=> t \in issued
    /\ sessions'[t] = sessions[t] /\ signedIn'[t] = signedIn[t]

Redeems(t) ==
    /\ status[t] = "APPROVED" /\ status'[t] = "APPROVED" /\ owner'[t] = owner[t]
    /\ t \notin issued /\ t \in issued'
    /\ sessions'[t] = sessions[t] /\ signedIn'[t] = signedIn[t]

Issues(t) ==
    /\ status'[t] = status[t] /\ owner'[t] = owner[t]
    /\ t \in issued /\ t \in issued'
    /\ sessions[t] = 0 /\ sessions'[t] = 1 /\ signedIn'[t] = owner[t]

\* A step does something to one request at most.
Moves ==
    \/ \A t \in Tokens : Rests(t)
    \/ \E t \in Tokens :
          /\ \/ Creates(t) \/ Approves(t) \/ Closes(t) \/ Redeems(t) \/ Issues(t)
          /\ \A r \in Tokens \ {t} : Rests(r)

-----------------------------------------------------------------------------
\* With no request made, the invariant holds.
LEMMA InitInv == ASSUME NoneIsNoValue, Init PROVE Inv
  BY DEF NoneIsNoValue, Init, Inv, TypeOK, Connected, Reader, Redeemed, Job, Idle,
      Status, Phase

\* A handler that goes on, with what it reads, is still a handler.
LEMMA JobGoesOn ==
  ASSUME NEW j \in Job,
         NEW pc \in {"find", "expire", "act", "issue", "reply", "ok", "fail"},
         NEW s \in Status, NEW u \in Users \cup {None}
  PROVE  /\ [j EXCEPT !.pc = pc] \in Job
         /\ [j EXCEPT !.pc = pc, !.seen = s] \in Job
         /\ [j EXCEPT !.pc = pc, !.seen = s, !.user = u] \in Job
BY DEF Job

\* Find keeps the invariant.
LEMMA FindInv ==
  ASSUME NoneIsNoValue, Inv, NEW h \in Processes, Find(h)
  PROVE  Inv' /\ Moves
<1>1. TypeOK'
  <2> DEFINE t == job[h].tok
  <2>1. t \in Tokens /\ status[t] \in Status /\ owner[t] \in Users \cup {None}
    BY DEF Inv, Reader, Find, TypeOK
  <2>2. PICK pc \in {"expire", "act"}, u \in Users \cup {None} :
           job' = [job EXCEPT ![h] = [job[h] EXCEPT !.pc = pc, !.seen = status[t],
                                                    !.user = u]]
    <3> DEFINE pc == IF Lapsed(t) THEN "expire" ELSE "act"
               u == IF job[h].op = "exchange" THEN owner[t] ELSE job[h].user
    <3>1. job[h].user \in Users \cup {None}
      BY DEF Inv, TypeOK, Job
    <3>2. pc \in {"expire", "act"} /\ u \in Users \cup {None}
      BY <2>1, <3>1
    <3>3. job' = [job EXCEPT ![h] = [job[h] EXCEPT !.pc = pc, !.seen = status[t],
                                                   !.user = u]]
      BY DEF Find
    <3> QED
      BY <3>2, <3>3
  <2>3. [job[h] EXCEPT !.pc = pc, !.seen = status[t], !.user = u] \in Job
    <3>1. job[h] \in Job
      BY DEF Inv, TypeOK
    <3> QED
      BY <2>1, <3>1, JobGoesOn
  <2>4. UNCHANGED <<request, browser, history>>
    BY DEF Find
  <2>5. job' \in [Processes -> Job]
    BY <2>2, <2>3 DEF Inv, TypeOK
  <2> QED
    BY <2>4, <2>5 DEF Inv, request, browser, history, TypeOK
<1>2. \A x \in Processes : Reader(x)'
  <2>1. UNCHANGED <<status, owner, issued, sessions>>
    BY DEF Find, request, history
  <2>2. \A g \in Processes \ {h} : job'[g] = job[g]
    BY DEF Inv, TypeOK, Find
  <2>3. /\ job[h].pc = "find" /\ job'[h].pc \in {"expire", "act"}
        /\ job'[h].op = job[h].op /\ job'[h].tok = job[h].tok
        /\ job'[h].seen = status[job[h].tok]
        /\ job'[h].user = IF job[h].op = "exchange" THEN owner[job[h].tok]
                          ELSE job[h].user
    BY DEF Inv, TypeOK, Job, Find
  <2> QED
    BY <2>1, <2>2, <2>3 DEF Inv, Reader
<1>3. \A x \in Tokens : Redeemed(x)'
  BY DEF NoneIsNoValue, Inv, Find, request, browser, history, Redeemed, Reader, TypeOK, Job,
      Status
<1>4. Moves
  BY DEF NoneIsNoValue, Inv, Find, request, browser, history, Moves, Rests, Creates, Approves,
      Closes, Redeems, Issues, Reader, Redeemed, TypeOK, Job, Status
<1>5. Connected'
  BY DEF NoneIsNoValue, Inv, Find, request, browser, history, Connected, Reader, TypeOK
<1> QED
  BY <1>1, <1>2, <1>3, <1>4, <1>5 DEF Inv

\* Expire keeps the invariant.
LEMMA ExpireInv ==
  ASSUME NoneIsNoValue, Inv, NEW h \in Processes, Expire(h)
  PROVE  Inv' /\ Moves
<1>1. TypeOK'
  <2>1. job[h].tok \in Tokens /\ "EXPIRED" \in Status
    BY DEF Inv, Reader, Expire, Status
  <2>2. [job[h] EXCEPT !.pc = "act", !.seen = "EXPIRED"] \in Job
    <3>1. job[h] \in Job
      BY DEF Inv, TypeOK
    <3> QED
      BY <2>1, <3>1, JobGoesOn
  <2>3. job' = [job EXCEPT ![h] = [job[h] EXCEPT !.pc = "act", !.seen = "EXPIRED"]]
    BY DEF Expire
  <2>4. status' \in [Tokens -> Status \cup {"none"}]
    BY <2>1 DEF Inv, Expire, TypeOK
  <2>5. wire' \subseteq Tokens \X Status
    BY <2>1 DEF Inv, Expire, Publish, TypeOK
  <2> QED
    BY <2>2, <2>3, <2>4, <2>5 DEF Inv, Expire, history, TypeOK
<1>2. \A x \in Processes : Reader(x)'
  BY DEF NoneIsNoValue, Inv, Expire, history, Publish, Reader, Redeemed, Connected, TypeOK, Job,
      Status
<1>3. \A x \in Tokens : Redeemed(x)'
  BY DEF NoneIsNoValue, Inv, Expire, history, Publish, Redeemed, Reader, TypeOK, Job, Status
<1>4. Moves
  BY DEF NoneIsNoValue, Inv, Expire, history, Publish, Moves, Rests, Creates, Approves, Closes,
      Redeems, Issues, Reader, Redeemed, TypeOK, Job, Status
<1>5. Connected'
  BY DEF NoneIsNoValue, Inv, Expire, history, Publish, Connected, Reader, TypeOK
<1> QED
  BY <1>1, <1>2, <1>3, <1>4, <1>5 DEF Inv

\* Answer keeps the invariant.
LEMMA AnswerInv ==
  ASSUME NoneIsNoValue, Inv, NEW h \in Processes, Answer(h)
  PROVE  Inv' /\ Moves
<1>1. TypeOK'
  BY DEF NoneIsNoValue, Inv, Answer, Goto, End, Idle, request, browser, history, TypeOK, Job,
      Status
<1>2. \A x \in Processes : Reader(x)'
  <2>1. UNCHANGED <<status, owner, issued, sessions>>
    BY DEF Answer, request, history
  <2>2. \A g \in Processes \ {h} : job'[g] = job[g]
    BY DEF Inv, TypeOK, Answer, Goto, End
  <2>3. \/ job'[h].pc = "idle" /\ job'[h].op = "look"
        \/ /\ job[h].pc = "act" /\ job'[h].pc = "reply"
           /\ job'[h].op = job[h].op /\ job'[h].tok = job[h].tok
           /\ job'[h].user = job[h].user
    BY DEF Inv, TypeOK, Job, Answer, Goto, End, Idle
  <2> QED
    BY <2>1, <2>2, <2>3 DEF Inv, Reader
<1>3. \A x \in Tokens : Redeemed(x)'
  BY DEF NoneIsNoValue, Inv, Answer, Goto, End, Idle, request, browser, history, Redeemed,
      Reader, TypeOK, Job, Status
<1>4. Moves
  BY DEF NoneIsNoValue, Inv, Answer, Goto, End, Idle, request, browser, history, Moves, Rests,
      Creates, Approves, Closes, Redeems, Issues, Reader, Redeemed, TypeOK,
      Job, Status
<1>5. Connected'
  BY DEF NoneIsNoValue, Inv, Answer, Goto, End, Idle, request, browser, history, Connected,
      Reader, TypeOK
<1> QED
  BY <1>1, <1>2, <1>3, <1>4, <1>5 DEF Inv

\* Approve keeps the invariant.
LEMMA ApproveInv ==
  ASSUME NoneIsNoValue, Inv, NEW h \in Processes, Approve(h)
  PROVE  Inv' /\ Moves
<1>1. TypeOK'
  <2>1. /\ job[h].tok \in Tokens /\ job[h].user \in Users
        /\ "APPROVED" \in Status /\ Idle \in Job
    BY DEF Inv, Reader, Approve, Status, Idle, Job
  <2>2. job' \in [Processes -> Job]
    BY <2>1 DEF Inv, Approve, End, TypeOK
  <2>3. status' \in [Tokens -> Status \cup {"none"}]
    BY <2>1 DEF Inv, Approve, TypeOK
  <2>4. wire' \subseteq Tokens \X Status
    BY <2>1 DEF Inv, Approve, Publish, TypeOK
  <2>5. owner' \in [Tokens -> Users \cup {None}]
    BY <2>1 DEF Inv, Approve, TypeOK
  <2> QED
    BY <2>2, <2>3, <2>4, <2>5 DEF Inv, Approve, history, TypeOK
<1>2. \A x \in Processes : Reader(x)'
  BY DEF NoneIsNoValue, Inv, Approve, StillPending, End, Idle, Publish, history, Reader,
      Redeemed, Connected, TypeOK, Job, Status
<1>3. \A x \in Tokens : Redeemed(x)'
  <2>1. \A g \in Processes : job'[g].pc = "issue" => job'[g] = job[g]
    BY DEF Inv, Approve, End, Idle, TypeOK
  <2>2. \A x \in Tokens : x \in issued => status'[x] = status[x]
    BY DEF Inv, Approve, StillPending, Redeemed, TypeOK
  <2>3. issued' = issued /\ sessions' = sessions
    BY DEF Approve, history
  <2> QED
    BY <2>1, <2>2, <2>3 DEF Inv, Redeemed
<1>4. Moves
  BY DEF NoneIsNoValue, Inv, Approve, StillPending, End, Idle, Publish, history, Moves, Rests,
      Creates, Approves, Closes, Redeems, Issues, Reader, Redeemed, TypeOK,
      Job, Status
<1>5. Connected'
  BY DEF NoneIsNoValue, Inv, Approve, StillPending, End, Idle, Publish, history, Connected,
      Reader, TypeOK
<1> QED
  BY <1>1, <1>2, <1>3, <1>4, <1>5 DEF Inv

\* Deny keeps the invariant.
LEMMA DenyInv ==
  ASSUME NoneIsNoValue, Inv, NEW h \in Processes, Deny(h)
  PROVE  Inv' /\ Moves
<1>1. TypeOK'
  <2>1. /\ job[h].tok \in Tokens
        /\ "DENIED" \in Status /\ Idle \in Job
    BY DEF Inv, Reader, Deny, Status, Idle, Job
  <2>2. job' \in [Processes -> Job]
    BY <2>1 DEF Inv, Deny, End, TypeOK
  <2>3. status' \in [Tokens -> Status \cup {"none"}]
    BY <2>1 DEF Inv, Deny, TypeOK
  <2>4. wire' \subseteq Tokens \X Status
    BY <2>1 DEF Inv, Deny, Publish, TypeOK
  <2> QED
    BY <2>2, <2>3, <2>4 DEF Inv, Deny, history, TypeOK
<1>2. \A x \in Processes : Reader(x)'
  BY DEF NoneIsNoValue, Inv, Deny, End, Idle, Publish, history, Reader, Redeemed, Connected,
      TypeOK, Job, Status
<1>3. \A x \in Tokens : Redeemed(x)'
  BY DEF NoneIsNoValue, Inv, Deny, End, Idle, Publish, history, Redeemed, Reader, TypeOK, Job,
      Status
<1>4. Moves
  BY DEF NoneIsNoValue, Inv, Deny, End, Idle, Publish, history, Moves, Rests, Creates, Approves,
      Closes, Redeems, Issues, Reader, Redeemed, TypeOK, Job, Status
<1>5. Connected'
  BY DEF NoneIsNoValue, Inv, Deny, End, Idle, Publish, history, Connected, Reader, TypeOK
<1> QED
  BY <1>1, <1>2, <1>3, <1>4, <1>5 DEF Inv

\* Consume keeps the invariant.
LEMMA ConsumeInv ==
  ASSUME NoneIsNoValue, Inv, NEW h \in Processes, Consume(h)
  PROVE  Inv' /\ Moves
<1>1. TypeOK'
  <2>1. \A pc \in {"issue", "fail"} : [job[h] EXCEPT !.pc = pc] \in Job
    BY DEF Inv, TypeOK, Job
  <2>2. \E pc \in {"issue", "fail"} :
           job' = [job EXCEPT ![h] = [job[h] EXCEPT !.pc = pc]]
    BY DEF Consume, Goto
  <2>3. issued' \subseteq Tokens
    BY DEF Inv, Reader, Consume, TypeOK
  <2> QED
    BY <2>1, <2>2, <2>3 DEF Inv, Consume, browser, history, TypeOK
<1>2. /\ UNCHANGED <<status, owner, sessions>> /\ issued \subseteq issued'
      /\ \A g \in Processes \ {h} : job'[g] = job[g]
  BY DEF Inv, TypeOK, Consume, Goto, browser, history
<1>3. /\ job[h].pc = "act" /\ job[h].op = "exchange"
      /\ job'[h].op = job[h].op /\ job'[h].tok = job[h].tok
      /\ job'[h].user = job[h].user
      /\ \/ job'[h].pc = "fail" /\ issued' = issued
         \/ /\ job'[h].pc = "issue" /\ Redeemable(h)
            /\ issued' = issued \cup {job[h].tok}
  BY DEF Inv, TypeOK, Job, Consume, Goto, Redeemable
<1>4. \A x \in Processes : Reader(x)'
  <2>1. job'[h].pc = "issue" => /\ sessions[job[h].tok] = 0
                                /\ job[h].user = owner[job[h].tok]
    BY <1>3 DEF Inv, Reader, Redeemed, Redeemable
  <2> QED
    BY <1>2, <1>3, <2>1 DEF Inv, Reader
<1>5. \A x \in Tokens : Redeemed(x)'
  <2> SUFFICES ASSUME NEW x \in Tokens PROVE Redeemed(x)'
    OBVIOUS
  <2>1. CASE job'[h].pc = "issue" /\ x = job[h].tok
    <3>1. status[x] = "APPROVED" /\ x \notin issued /\ x \in issued'
      BY <1>3, <2>1 DEF Redeemable
    <3>2. \A g \in Processes : ~(job[g].pc = "issue" /\ job[g].tok = x)
      BY <3>1 DEF Inv, Reader
    <3> QED
      BY <1>2, <2>1, <3>1, <3>2 DEF Redeemed
  <2>2. CASE ~(job'[h].pc = "issue" /\ x = job[h].tok)
    <3>1. x \in issued' <=> x \in issued
      BY <1>3, <2>2
    <3>2. ~(job'[h].pc = "issue" /\ job'[h].tok = x)
      BY <1>3, <2>2
    <3> QED
      BY <1>2, <3>1, <3>2 DEF Inv, Redeemed
  <2> QED
    BY <2>1, <2>2
<1>6. Moves
  BY DEF NoneIsNoValue, Inv, Consume, Redeemable, Goto, browser, history, Moves, Rests, Creates,
      Approves, Closes, Redeems, Issues, Reader, Redeemed, TypeOK, Job, Status
<1>7. Connected'
  BY DEF NoneIsNoValue, Inv, Consume, Redeemable, Goto, browser, history, Connected, Reader,
      TypeOK
<1> QED
  BY <1>1, <1>4, <1>5, <1>6, <1>7 DEF Inv

\* IssueSession keeps the invariant.
LEMMA IssueSessionInv ==
  ASSUME NoneIsNoValue, Inv, NEW h \in Processes, IssueSession(h)
  PROVE  Inv' /\ Moves
<1>1. TypeOK'
  <2>1. [job[h] EXCEPT !.pc = "ok"] \in Job /\ job[h].tok \in Tokens
    BY DEF Inv, IssueSession, Reader, TypeOK, Job
  <2>2. job' = [job EXCEPT ![h] = [job[h] EXCEPT !.pc = "ok"]]
    BY DEF IssueSession, Goto
  <2>3. sessions' \in [Tokens -> Nat]
    BY <2>1 DEF Inv, IssueSession, TypeOK
  <2>4. signedIn' \in [Tokens -> Users \cup {None}]
    BY <2>1 DEF Inv, IssueSession, TypeOK, Job
  <2> QED
    BY <2>1, <2>2, <2>3, <2>4 DEF Inv, IssueSession, request, browser, TypeOK
<1>2. \A x \in Processes : Reader(x)'
  BY DEF NoneIsNoValue, Inv, IssueSession, Goto, request, browser, Reader, Redeemed, Connected,
      TypeOK, Job, Status
<1>3. \A x \in Tokens : Redeemed(x)'
  BY DEF NoneIsNoValue, Inv, IssueSession, Goto, request, browser, Redeemed, Reader, TypeOK, Job,
      Status
<1>4. Moves
  BY DEF NoneIsNoValue, Inv, IssueSession, Goto, request, browser, Moves, Rests, Creates,
      Approves, Closes, Redeems, Issues, Reader, Redeemed, TypeOK, Job, Status
<1>5. Connected'
  BY DEF NoneIsNoValue, Inv, IssueSession, Goto, request, browser, Connected, Reader, TypeOK
<1> QED
  BY <1>1, <1>2, <1>3, <1>4, <1>5 DEF Inv

\* Abort keeps the invariant.
LEMMA AbortInv ==
  ASSUME NoneIsNoValue, Inv, NEW h \in Processes, Abort(h)
  PROVE  Inv' /\ Moves
<1>1. TypeOK'
  BY DEF NoneIsNoValue, Inv, Abort, Goto, End, Idle, request, browser, history, TypeOK, Job,
      Status
<1>2. \A x \in Processes : Reader(x)'
  BY DEF NoneIsNoValue, Inv, Abort, Goto, End, Idle, request, browser, history, Reader, Redeemed,
      Connected, TypeOK, Job, Status
<1>3. \A x \in Tokens : Redeemed(x)'
  BY DEF NoneIsNoValue, Inv, Abort, Goto, End, Idle, request, browser, history, Redeemed, Reader,
      TypeOK, Job, Status
<1>4. Moves
  BY DEF NoneIsNoValue, Inv, Abort, Goto, End, Idle, request, browser, history, Moves, Rests,
      Creates, Approves, Closes, Redeems, Issues, Reader, Redeemed, TypeOK,
      Job, Status
<1>5. Connected'
  BY DEF NoneIsNoValue, Inv, Abort, Goto, End, Idle, request, browser, history, Connected,
      Reader, TypeOK
<1> QED
  BY <1>1, <1>2, <1>3, <1>4, <1>5 DEF Inv

\* AppCalls keeps the invariant.
LEMMA AppCallsInv ==
  ASSUME NoneIsNoValue, Inv, NEW h \in Processes, NEW o \in {"look", "approve", "deny"},
         NEW t \in Tokens, NEW u \in Users, AppCalls(h, o, t, u)
  PROVE  Inv' /\ Moves
<1>1. TypeOK'
  BY DEF NoneIsNoValue, Inv, AppCalls, Call, Idle, request, browser, history, TypeOK, Job,
      Status
<1>2. \A x \in Processes : Reader(x)'
  BY DEF NoneIsNoValue, Inv, AppCalls, Call, Idle, request, browser, history, Reader, Redeemed,
      Connected, TypeOK, Job, Status
<1>3. \A x \in Tokens : Redeemed(x)'
  BY DEF NoneIsNoValue, Inv, AppCalls, Call, Idle, request, browser, history, Redeemed, Reader,
      TypeOK, Job, Status
<1>4. Moves
  BY DEF NoneIsNoValue, Inv, AppCalls, Call, Idle, request, browser, history, Moves, Rests,
      Creates, Approves, Closes, Redeems, Issues, Reader, Redeemed, TypeOK,
      Job, Status
<1>5. Connected'
  BY DEF NoneIsNoValue, Inv, AppCalls, Call, Idle, request, browser, history, Connected, Reader,
      TypeOK
<1> QED
  BY <1>1, <1>2, <1>3, <1>4, <1>5 DEF Inv

\* TimePasses keeps the invariant.
LEMMA TimePassesInv ==
  ASSUME NoneIsNoValue, Inv, NEW t \in Tokens, TimePasses(t)
  PROVE  Inv' /\ Moves
<1>1. TypeOK'
  BY DEF NoneIsNoValue, Inv, TimePasses, browser, history, TypeOK, Job, Status
<1>2. \A x \in Processes : Reader(x)'
  BY DEF NoneIsNoValue, Inv, TimePasses, browser, history, Reader, Redeemed, Connected, TypeOK,
      Job, Status
<1>3. \A x \in Tokens : Redeemed(x)'
  BY DEF NoneIsNoValue, Inv, TimePasses, browser, history, Redeemed, Reader, TypeOK, Job, Status
<1>4. Moves
  BY DEF NoneIsNoValue, Inv, TimePasses, browser, history, Moves, Rests, Creates, Approves,
      Closes, Redeems, Issues, Reader, Redeemed, TypeOK, Job, Status
<1>5. Connected'
  BY DEF NoneIsNoValue, Inv, TimePasses, browser, history, Connected, Reader, TypeOK
<1> QED
  BY <1>1, <1>2, <1>3, <1>4, <1>5 DEF Inv

\* Create keeps the invariant.
LEMMA CreateInv ==
  ASSUME NoneIsNoValue, Inv, NEW t \in Tokens, Create(t)
  PROVE  Inv' /\ Moves
<1>1. TypeOK'
  BY DEF NoneIsNoValue, Inv, Create, history, Phase, TypeOK, Job, Status
<1>2. \A x \in Processes : Reader(x)'
  BY DEF NoneIsNoValue, Inv, Create, history, Phase, Reader, Redeemed, Connected, TypeOK, Job,
      Status
<1>3. \A x \in Tokens : Redeemed(x)'
  BY DEF NoneIsNoValue, Inv, Create, history, Phase, Redeemed, Reader, TypeOK, Job, Status
<1>4. Moves
  BY DEF NoneIsNoValue, Inv, Create, history, Phase, Moves, Rests, Creates, Approves, Closes,
      Redeems, Issues, Reader, Redeemed, TypeOK, Job, Status
<1>5. Connected'
  BY DEF NoneIsNoValue, Inv, Create, history, Phase, Connected, Reader, TypeOK
<1> QED
  BY <1>1, <1>2, <1>3, <1>4, <1>5 DEF Inv

\* CreateFails keeps the invariant.
LEMMA CreateFailsInv ==
  ASSUME NoneIsNoValue, Inv, CreateFails
  PROVE  Inv' /\ Moves
<1>1. TypeOK'
  BY DEF NoneIsNoValue, Inv, CreateFails, request, history, Phase, TypeOK, Job, Status
<1>2. \A x \in Processes : Reader(x)'
  BY DEF NoneIsNoValue, Inv, CreateFails, request, history, Phase, Reader, Redeemed, Connected,
      TypeOK, Job, Status
<1>3. \A x \in Tokens : Redeemed(x)'
  BY DEF NoneIsNoValue, Inv, CreateFails, request, history, Phase, Redeemed, Reader, TypeOK, Job,
      Status
<1>4. Moves
  BY DEF NoneIsNoValue, Inv, CreateFails, request, history, Phase, Moves, Rests, Creates,
      Approves, Closes, Redeems, Issues, Reader, Redeemed, TypeOK, Job, Status
<1>5. Connected'
  BY DEF NoneIsNoValue, Inv, CreateFails, request, history, Phase, Connected, Reader, TypeOK
<1> QED
  BY <1>1, <1>2, <1>3, <1>4, <1>5 DEF Inv

\* StartPoll keeps the invariant.
LEMMA StartPollInv ==
  ASSUME NoneIsNoValue, Inv, NEW h \in Processes, StartPoll(h)
  PROVE  Inv' /\ Moves
<1>1. TypeOK'
  BY DEF NoneIsNoValue, Inv, StartPoll, Call, Idle, request, browser, history, TypeOK, Job,
      Status
<1>2. \A x \in Processes : Reader(x)'
  BY DEF NoneIsNoValue, Inv, StartPoll, Call, Idle, request, browser, history, Reader, Redeemed,
      Connected, TypeOK, Job, Status
<1>3. \A x \in Tokens : Redeemed(x)'
  BY DEF NoneIsNoValue, Inv, StartPoll, Call, Idle, request, browser, history, Redeemed, Reader,
      TypeOK, Job, Status
<1>4. Moves
  BY DEF NoneIsNoValue, Inv, StartPoll, Call, Idle, request, browser, history, Moves, Rests,
      Creates, Approves, Closes, Redeems, Issues, Reader, Redeemed, TypeOK,
      Job, Status
<1>5. Connected'
  BY DEF NoneIsNoValue, Inv, StartPoll, Call, Idle, request, browser, history, Connected, Reader,
      TypeOK
<1> QED
  BY <1>1, <1>2, <1>3, <1>4, <1>5 DEF Inv

\* PollReturns keeps the invariant.
LEMMA PollReturnsInv ==
  ASSUME NoneIsNoValue, Inv, NEW h \in Processes, PollReturns(h)
  PROVE  Inv' /\ Moves
<1> DEFINE t == job[h].tok
           s == job[h].seen
<1>1. /\ t \in Tokens /\ status[t] # "none" /\ s \in Status
      /\ UNCHANGED <<request, history>>
  BY DEF Inv, Reader, PollReturns, TypeOK, Job
<1>2. HandleStatus(t, s, [job EXCEPT ![h] = Idle])
  BY DEF PollReturns
<1>3. \/ job' = [job EXCEPT ![h] = Idle]
      \/ \E x \in Processes :
            job' = [[job EXCEPT ![h] = Idle] EXCEPT ![x] = Call(x, "exchange", t, None)]
  BY <1>2 DEF HandleStatus, Processes
<1>4. ASSUME NEW x \in Processes
      PROVE  \/ job'[x] = job[x]
             \/ job'[x] = Idle
             \/ job'[x] = Call(x, "exchange", t, None)
  BY <1>3 DEF Inv, TypeOK
<1>5. TypeOK'
  <2>1. Idle \in Job /\ \A x \in Processes : Call(x, "exchange", t, None) \in Job
    BY <1>1 DEF Idle, Call, Job, Status
  <2>2. job' \in [Processes -> Job]
    BY <1>3, <2>1 DEF Inv, TypeOK
  <2>3. wire' \subseteq Tokens \X Status /\ phase' \in Phase /\ conn' \in Tokens \cup {None}
    BY <1>2 DEF Inv, HandleStatus, PhaseOf, browser, Phase, TypeOK
  <2> QED
    BY <1>1, <2>2, <2>3 DEF Inv, request, history, TypeOK
<1>6. \A x \in Processes : Reader(x)'
  <2> SUFFICES ASSUME NEW x \in Processes PROVE Reader(x)'
    OBVIOUS
  <2>1. CASE job'[x] = job[x]
    BY <1>1, <2>1 DEF Inv, Reader, request, history
  <2>2. CASE job'[x] = Idle
    BY <2>2 DEF Reader, Idle
  <2>3. CASE job'[x] = Call(x, "exchange", t, None)
    <3>1. /\ job'[x].pc = "find" /\ job'[x].op = "exchange" /\ job'[x].tok = t
      BY <2>3 DEF Call, Idle
    <3>2. t \in Tokens /\ status'[t] # "none"
      BY <1>1 DEF request
    <3> QED
      BY <3>1, <3>2 DEF Reader
  <2> QED
    BY <1>4, <2>1, <2>2, <2>3
<1>7. \A x \in Tokens : Redeemed(x)'
  <2>1. Idle.pc = "idle" /\ \A x \in Processes : Call(x, "exchange", t, None).pc = "find"
    BY DEF Idle, Call
  <2>2. \A x \in Processes : job'[x].pc = "issue" => job'[x] = job[x]
    BY <1>4, <2>1
  <2> QED
    BY <1>1, <2>2 DEF Inv, Redeemed, request, history
<1>8. Moves
  BY <1>1 DEF Moves, Rests, request, history
<1>9. Connected'
  BY <1>1, <1>2 DEF Inv, Connected, HandleStatus, request, browser
<1> QED
  BY <1>5, <1>6, <1>7, <1>8, <1>9 DEF Inv

\* SocketEvent keeps the invariant.
LEMMA SocketEventInv ==
  ASSUME NoneIsNoValue, Inv, NEW t \in Tokens, NEW s \in Status, SocketEvent(t, s)
  PROVE  Inv' /\ Moves
<1>1. /\ t \in Tokens /\ status[t] # "none" /\ s \in Status
      /\ UNCHANGED <<request, history>>
  BY DEF NoneIsNoValue, Inv, Connected, SocketEvent
<1>2. HandleStatus(t, s, job)
  BY DEF SocketEvent
<1>3. \/ job' = job
      \/ \E x \in Processes : job' = [job EXCEPT ![x] = Call(x, "exchange", t, None)]
  BY <1>2 DEF HandleStatus, Processes
<1>4. ASSUME NEW x \in Processes
      PROVE  \/ job'[x] = job[x]
             \/ job'[x] = Idle
             \/ job'[x] = Call(x, "exchange", t, None)
  BY <1>3 DEF Inv, TypeOK
<1>5. TypeOK'
  <2>1. Idle \in Job /\ \A x \in Processes : Call(x, "exchange", t, None) \in Job
    BY <1>1 DEF Idle, Call, Job, Status
  <2>2. job' \in [Processes -> Job]
    BY <1>3, <2>1 DEF Inv, TypeOK
  <2>3. wire' \subseteq Tokens \X Status /\ phase' \in Phase /\ conn' \in Tokens \cup {None}
    BY <1>2 DEF Inv, HandleStatus, PhaseOf, browser, Phase, TypeOK
  <2> QED
    BY <1>1, <2>2, <2>3 DEF Inv, request, history, TypeOK
<1>6. \A x \in Processes : Reader(x)'
  <2> SUFFICES ASSUME NEW x \in Processes PROVE Reader(x)'
    OBVIOUS
  <2>1. CASE job'[x] = job[x]
    BY <1>1, <2>1 DEF Inv, Reader, request, history
  <2>2. CASE job'[x] = Idle
    BY <2>2 DEF Reader, Idle
  <2>3. CASE job'[x] = Call(x, "exchange", t, None)
    <3>1. /\ job'[x].pc = "find" /\ job'[x].op = "exchange" /\ job'[x].tok = t
      BY <2>3 DEF Call, Idle
    <3>2. t \in Tokens /\ status'[t] # "none"
      BY <1>1 DEF request
    <3> QED
      BY <3>1, <3>2 DEF Reader
  <2> QED
    BY <1>4, <2>1, <2>2, <2>3
<1>7. \A x \in Tokens : Redeemed(x)'
  <2>1. Idle.pc = "idle" /\ \A x \in Processes : Call(x, "exchange", t, None).pc = "find"
    BY DEF Idle, Call
  <2>2. \A x \in Processes : job'[x].pc = "issue" => job'[x] = job[x]
    BY <1>4, <2>1
  <2> QED
    BY <1>1, <2>2 DEF Inv, Redeemed, request, history
<1>8. Moves
  BY <1>1 DEF Moves, Rests, request, history
<1>9. Connected'
  BY <1>1, <1>2 DEF Inv, Connected, HandleStatus, request, browser
<1> QED
  BY <1>5, <1>6, <1>7, <1>8, <1>9 DEF Inv

\* ExchangeReturns keeps the invariant.
LEMMA ExchangeReturnsInv ==
  ASSUME NoneIsNoValue, Inv, NEW h \in Processes, ExchangeReturns(h)
  PROVE  Inv' /\ Moves
<1>1. TypeOK'
  BY DEF NoneIsNoValue, Inv, ExchangeReturns, End, Idle, request, history, Phase, TypeOK, Job,
      Status
<1>2. \A x \in Processes : Reader(x)'
  BY DEF NoneIsNoValue, Inv, ExchangeReturns, End, Idle, request, history, Phase, Reader,
      Redeemed, Connected, TypeOK, Job, Status
<1>3. \A x \in Tokens : Redeemed(x)'
  BY DEF NoneIsNoValue, Inv, ExchangeReturns, End, Idle, request, history, Phase, Redeemed,
      Reader, TypeOK, Job, Status
<1>4. Moves
  BY DEF NoneIsNoValue, Inv, ExchangeReturns, End, Idle, request, history, Phase, Moves, Rests,
      Creates, Approves, Closes, Redeems, Issues, Reader, Redeemed, TypeOK,
      Job, Status
<1>5. Connected'
  BY DEF NoneIsNoValue, Inv, ExchangeReturns, End, Idle, request, history, Phase, Connected,
      Reader, TypeOK
<1> QED
  BY <1>1, <1>2, <1>3, <1>4, <1>5 DEF Inv

\* Restart keeps the invariant.
LEMMA RestartInv ==
  ASSUME NoneIsNoValue, Inv, Restart
  PROVE  Inv' /\ Moves
<1>1. TypeOK'
  BY DEF NoneIsNoValue, Inv, Restart, request, history, Phase, TypeOK, Job, Status
<1>2. \A x \in Processes : Reader(x)'
  BY DEF NoneIsNoValue, Inv, Restart, request, history, Phase, Reader, Redeemed, Connected,
      TypeOK, Job, Status
<1>3. \A x \in Tokens : Redeemed(x)'
  BY DEF NoneIsNoValue, Inv, Restart, request, history, Phase, Redeemed, Reader, TypeOK, Job,
      Status
<1>4. Moves
  BY DEF NoneIsNoValue, Inv, Restart, request, history, Phase, Moves, Rests, Creates, Approves,
      Closes, Redeems, Issues, Reader, Redeemed, TypeOK, Job, Status
<1>5. Connected'
  BY DEF NoneIsNoValue, Inv, Restart, request, history, Phase, Connected, Reader, TypeOK
<1> QED
  BY <1>1, <1>2, <1>3, <1>4, <1>5 DEF Inv

\* Every step keeps the invariant and moves a request as the ticket may.
LEMMA StepInv == ASSUME NoneIsNoValue, Inv, [Next]_vars PROVE Inv' /\ Moves
<1>1. CASE UNCHANGED vars
  BY <1>1 DEF vars, Inv, TypeOK, Reader, Redeemed, Connected, Moves, Rests
<1>2. CASE BrowserStep
  BY <1>2, CreateInv, StartPollInv, PollReturnsInv, ExchangeReturnsInv,
     SocketEventInv, CreateFailsInv, RestartInv
  DEF BrowserStep
<1>3. CASE \E h \in Processes : ServerStep(h)
  BY <1>3, FindInv, ExpireInv, AnswerInv, ApproveInv, DenyInv, ConsumeInv,
     IssueSessionInv
  DEF ServerStep
<1> QED
  BY <1>1, <1>2, <1>3, AbortInv, AppCallsInv, TimePassesInv DEF Next

(* The invariant holds in every state a login by QR code can get into, for *)
(* every number of requests, users, polls, exchanges and calls of NDYAPPS. *)
THEOREM Invariance == ASSUME NoneIsNoValue PROVE Spec => []Inv
<1>1. Init => Inv
  BY InitInv
<1>2. Inv /\ [Next]_vars => Inv'
  BY StepInv
<1> QED
  BY <1>1, <1>2, PTL DEF Spec

(* The variables stay in their types.                                      *)
THEOREM TypeCorrect == ASSUME NoneIsNoValue PROVE Spec => []TypeOK
<1>1. Inv => TypeOK
  BY DEF Inv
<1> QED
  BY <1>1, Invariance, PTL

-----------------------------------------------------------------------------
\* How the ticket of a request moves when the request does.
LEMMA TicketMoves ==
  ASSUME NoneIsNoValue, Inv, Inv', NEW t \in Tokens
  PROVE  /\ Rests(t) \/ Creates(t) \/ Issues(t) => ticketOf'[t] = ticketOf[t]
         /\ Approves(t) => ticketOf[t] = "open" /\ ticketOf'[t] = "approved"
         /\ Closes(t) => \/ ticketOf'[t] = ticketOf[t]
                         \/ /\ ticketOf[t] \in {"open", "approved"}
                            /\ ticketOf'[t] = "closed"
         /\ Redeems(t) => ticketOf[t] = "approved" /\ ticketOf'[t] = "redeemed"
         /\ Issues(t) => ticketOf[t] = "redeemed"
<1>1. status[t] \in Status \cup {"none"} /\ Redeemed(t)
  BY DEF Inv, TypeOK
<1> QED
  BY <1>1 DEF ticketOf, Redeemed, Status, Rests, Creates, Issues, Approves, Closes, Redeems

\* A step of the server is a step of the ticket, or none.
LEMMA TicketStep ==
  ASSUME NoneIsNoValue, Inv, Inv', [Next]_vars PROVE [Ticket!Next]_(Ticket!vars)
<1>1. /\ ticketOf = [t \in Tokens |-> ticketOf[t]]
      /\ ticketOf' = [t \in Tokens |-> ticketOf'[t]]
      /\ owner = [t \in Tokens |-> owner[t]]
      /\ owner' = [t \in Tokens |-> owner'[t]]
      /\ sessions = [t \in Tokens |-> sessions[t]]
      /\ sessions' = [t \in Tokens |-> sessions'[t]]
      /\ signedIn = [t \in Tokens |-> signedIn[t]]
      /\ signedIn' = [t \in Tokens |-> signedIn'[t]]
  BY DEF ticketOf, Inv, TypeOK
<1>2. Moves
  BY StepInv
<1>3. CASE \A t \in Tokens : Rests(t)
  <2>1. /\ ticketOf' = ticketOf /\ owner' = owner
        /\ sessions' = sessions /\ signedIn' = signedIn
    BY <1>1, <1>3, TicketMoves DEF Rests
  <2> QED
    BY <2>1 DEF Ticket!vars
<1>4. ASSUME NEW t \in Tokens,
             Creates(t) \/ Approves(t) \/ Closes(t) \/ Redeems(t) \/ Issues(t),
             \A r \in Tokens \ {t} : Rests(r)
      PROVE  [Ticket!Next]_(Ticket!vars)
  <2>1. \A r \in Tokens \ {t} :
           /\ ticketOf'[r] = ticketOf[r] /\ owner'[r] = owner[r]
           /\ sessions'[r] = sessions[r] /\ signedIn'[r] = signedIn[r]
    BY <1>4, TicketMoves DEF Rests
  <2>2. CASE Approves(t)
    <3>1. /\ ticketOf[t] = "open" /\ owner'[t] \in Users
          /\ ticketOf' = [ticketOf EXCEPT ![t] = "approved"]
          /\ owner' = [owner EXCEPT ![t] = owner'[t]]
          /\ sessions' = sessions /\ signedIn' = signedIn
      BY <1>1, <2>1, <2>2, TicketMoves DEF Approves
    <3>2. \E u \in Users : Ticket!Approve(t, u)
      BY <3>1 DEF Ticket!Approve
    <3> QED
      BY <3>2 DEF Ticket!Next
  <2>3. CASE Closes(t)
    <3>1. owner' = owner /\ sessions' = sessions /\ signedIn' = signedIn
      BY <1>1, <2>1, <2>3 DEF Closes
    <3>2. CASE ticketOf'[t] = ticketOf[t]
      BY <1>1, <2>1, <3>1, <3>2 DEF Ticket!vars
    <3>3. CASE ticketOf[t] \in {"open", "approved"} /\ ticketOf'[t] = "closed"
      <4>1. ticketOf' = [ticketOf EXCEPT ![t] = "closed"]
        BY <1>1, <2>1, <3>3
      <4> QED
        BY <3>1, <3>3, <4>1 DEF Ticket!Next, Ticket!Close
    <3> QED
      BY <2>3, <3>2, <3>3, TicketMoves
  <2>4. CASE Redeems(t)
    <3>1. /\ ticketOf[t] = "approved"
          /\ ticketOf' = [ticketOf EXCEPT ![t] = "redeemed"]
          /\ owner' = owner /\ sessions' = sessions /\ signedIn' = signedIn
      BY <1>1, <2>1, <2>4, TicketMoves DEF Redeems
    <3> QED
      BY <3>1 DEF Ticket!Next, Ticket!Redeem
  <2>5. CASE Issues(t)
    <3>1. /\ ticketOf[t] = "redeemed" /\ sessions[t] = 0
          /\ ticketOf' = ticketOf /\ owner' = owner
          /\ sessions' = [sessions EXCEPT ![t] = 1]
          /\ signedIn' = [signedIn EXCEPT ![t] = owner[t]]
      BY <1>1, <2>1, <2>5, TicketMoves DEF Issues
    <3> QED
      BY <3>1 DEF Ticket!Next, Ticket!IssueSession
  <2>6. CASE Creates(t)
    <3>1. /\ ticketOf' = ticketOf /\ owner' = owner
          /\ sessions' = sessions /\ signedIn' = signedIn
      BY <1>1, <2>1, <2>6, TicketMoves DEF Creates
    <3> QED
      BY <3>1 DEF Ticket!vars
  <2> QED
    BY <1>4, <2>2, <2>3, <2>4, <2>5, <2>6
<1> QED
  BY <1>2, <1>3, <1>4 DEF Moves

(* The server's rows and handlers implement the one-time ticket: one       *)
(* approver, at most one session and that approver's, nothing after a      *)
(* denial or an expiry - whatever the unconditional expiry, the missing    *)
(* count check of deny(), aborted handlers, lost statuses and restarted    *)
(* browsers do in between.                                                 *)
THEOREM TicketIsImplemented == ASSUME NoneIsNoValue PROVE Spec => TicketsAreImplemented
<1>1. Init => Ticket!Init
  BY DEF Init, Ticket!Init, ticketOf
<1>2. Inv /\ Inv' /\ [Next]_vars => [Ticket!Next]_(Ticket!vars)
  BY TicketStep
<1> QED
  BY <1>1, <1>2, Invariance, PTL DEF Spec, TicketsAreImplemented, Ticket!Spec
==============================================================================
