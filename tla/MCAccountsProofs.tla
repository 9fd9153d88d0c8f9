-------------------------- MODULE MCAccountsProofs ---------------------------
(***************************************************************************)
(* Proofs about what acts for an account and the ways into it, as          *)
(* MCAccounts puts them side by side, for every value of the constants.    *)
(*                                                                         *)
(* First the action engine, whose names MCAccounts takes as they are: a    *)
(* run was authorised (Inv), its work is done once and logged and its      *)
(* outcome is final (InOrder). Then the parts whose modules MCAccounts     *)
(* instances, in the names they have there: x1, x2, ... are the variables  *)
(* in the order in which the module declares them. D is DeviceApproval, W  *)
(* Workspaces, A Assurance, B BrowserSession, T TrustScore and I Accounts. *)
(* At the end what holds of all parts, from these and the invariants       *)
(* proved in the modules of proofs of QrLogin, TwoFactor, OAuthProvider.   *)
(***************************************************************************)
EXTENDS MCAccounts, Integers, TLAPS

-----------------------------------------------------------------------------
(* The action engine.                                                      *)

\* What an agent needs for an action, as far as the past can tell.
MayAsk(a, g) == g # None => <<g, a>> \in consented

Logged(k) == log[k].status # "none"

\* An approval, asked for or given, is of an entry that may ask.
Entries ==
    \A k \in Keys :
        /\ approval[k] # "none" => Logged(k) /\ MayAsk(log[k].action, log[k].agent)
        /\ k \in granted => Logged(k)
        /\ Logged(k) => log[k].action \in Actions

Consents == \A g \in Agents : \A a \in consent[g].scopes : <<g, a>> \in consented

\* What a handler at work knows of its request.
Working(h) ==
    LET j == job[h]
    IN /\ j.pc # "idle" => j.key \in Keys /\ j.action \in Actions
       /\ j.pc \in {"check", "pend", "ask"} => ~j.logged
       /\ j.pc \in {"pend", "run"} => MayAsk(j.action, j.agent)
       /\ j.pc = "ask" => Logged(j.key) /\ MayAsk(log[j.key].action, log[j.key].agent)
       /\ j.pc \in Resolving => j.logged
       /\ j.pc \in Resolving => MayAsk(j.action, j.agent)
       /\ j.pc # "idle" /\ j.logged =>
             /\ Logged(j.key)
             /\ log[j.key].action = j.action /\ log[j.key].agent = j.agent
       /\ j.pc = "run" => IF j.logged THEN j.key \in granted
                          ELSE j.action \in LowRisk

Inv == /\ TypeOK
       /\ Entries
       /\ Consents
       /\ \A h \in Handlers : Working(h)
       /\ RunsAreAuthorised

-----------------------------------------------------------------------------
\* With no request logged, the invariant holds.
LEMMA InitInv == Init => Inv
  BY NoneIsNoValue
  DEF Init, Inv, TypeOK, Entry, NoEntry, Job, Idle, Entries, Consent,
      Consents, Working, RunsAreAuthorised, Resolving, Logged

-----------------------------------------------------------------------------
\* The log stays typed when an entry is inserted or gets another status.
LEMMA InsertType ==
  ASSUME TypeOK, NEW j \in Job, j.key \in Keys, j.action \in Actions,
         NEW s \in {"PENDING_APPROVAL", "EXECUTED", "REJECTED"}, Insert(j, s)
  PROVE  log' \in [Keys -> Entry]
<1>1. j.agent \in Agents \cup {None}
  BY DEF Job
<1>2. [status |-> s, action |-> j.action, agent |-> j.agent] \in Entry
  BY <1>1 DEF Entry
<1> QED
  BY <1>2 DEF Insert, TypeOK

\* A log entry whose status changes is still a log entry.
LEMMA StatusType ==
  ASSUME TypeOK, NEW k \in Keys, NEW s \in {"EXECUTED", "REJECTED", "DENIED"},
         log' = [log EXCEPT ![k].status = s]
  PROVE  log' \in [Keys -> Entry]
<1>1. log[k] \in Entry
  BY DEF TypeOK
<1>2. [log[k] EXCEPT !.status = s] \in Entry
  BY <1>1 DEF Entry
<1> QED
  BY <1>2 DEF TypeOK

\* Every step keeps the types.
LEMMA StepType ==
  ASSUME TypeOK, \A h \in Handlers : Working(h), [Next]_vars
  PROVE  TypeOK'
<1> USE NoneIsNoValue, RegistryIsSound
<1>1. ASSUME NEW h \in Handlers, HandlerStep(h)
      PROVE  TypeOK'
  <2>0. Working(h) /\ job[h] \in Job /\ job \in [Handlers -> Job]
    BY DEF TypeOK
  <2>1. CASE \E k \in Keys, a \in Actions, g \in Agents \cup {None} :
                Submit(h, k, a, g)
    <3>1. PICK k \in Keys, a \in Actions, g \in Agents \cup {None} :
             Submit(h, k, a, g)
      BY <2>1
    <3>2. [Idle EXCEPT !.pc = "check", !.key = k, !.action = a,
                       !.agent = g] \in Job
      BY DEF Idle, Job
    <3>3. contested' \subseteq Keys
      BY <3>1 DEF Submit, Contest, TypeOK
    <3> QED
      BY <2>0, <3>1, <3>2, <3>3 DEF Submit, TypeOK
  <2>2. CASE Authorize(h)
    <3>1. [job[h] EXCEPT !.pc = Route(job[h].action)] \in Job
      BY <2>0 DEF Job, Route
    <3>2. job' \in [Handlers -> Job]
      BY <2>0, <2>2, <3>1 DEF Authorize, Goto
    <3> QED
      BY <2>2, <3>2 DEF Authorize, TypeOK, history
  <2>3. CASE Refuse(h) \/ WritePending(h)
    <3>0. /\ job[h].key \in Keys /\ job[h].action \in Actions
          /\ Insert(job[h], "REJECTED") \/ Insert(job[h], "PENDING_APPROVAL")
      BY <2>0, <2>3 DEF Refuse, WritePending, Working
    <3>1. log' \in [Keys -> Entry]
      BY <2>0, <3>0, InsertType
    <3>2. job' \in [Handlers -> Job]
      <4>1. Idle \in Job /\ [job[h] EXCEPT !.pc = "ask"] \in Job
        BY <2>0 DEF Idle, Job
      <4>2. job' = [job EXCEPT ![h] = Idle] \/ job' = [job EXCEPT ![h].pc = "ask"]
        BY <2>3 DEF Refuse, WritePending, End, Goto
      <4> QED
        BY <2>0, <4>1, <4>2
    <3> QED
      BY <2>3, <3>1, <3>2 DEF Refuse, WritePending, TypeOK, history
  <2>4. CASE AskApproval(h) \/ Expire(h)
    <3>1. job' \in [Handlers -> Job]
      <4>1. Idle \in Job /\ job' = [job EXCEPT ![h] = Idle]
        BY <2>4 DEF AskApproval, Expire, End, Idle, Job
      <4> QED
        BY <2>0, <4>1
    <3>2. job[h].key \in Keys
      BY <2>0, <2>4 DEF AskApproval, Expire, Working
    <3> QED
      BY <2>4, <3>1, <3>2 DEF AskApproval, Expire, TypeOK, history
  <2>5. CASE Run(h)
    <3>1. job[h].key \in Keys /\ job[h].action \in Actions
          /\ job[h].agent \in Agents \cup {None}
      BY <2>0, <2>5 DEF Run, Working, Job
    <3>2. ran' \subseteq Work /\ twice' \subseteq Keys
      BY <2>5, <3>1 DEF Run, TypeOK, Work
    <3>3. [job[h] EXCEPT !.pc = "note", !.ok = TRUE] \in Job
      BY <2>0 DEF Job
    <3> QED
      BY <2>0, <2>5, <3>2, <3>3 DEF Run, TypeOK
  <2>6. CASE RunThrows(h)
    <3>1. [job[h] EXCEPT !.pc = "note"] \in Job
      BY <2>0 DEF Job
    <3> QED
      BY <2>0, <2>6, <3>1 DEF RunThrows, Goto, TypeOK, history
  <2>7. CASE Note(h)
    <3>1. job[h].key \in Keys /\ job[h].action \in Actions
      BY <2>0, <2>7 DEF Note, Working
    <3>2. Outcome(job[h].ok) \in {"EXECUTED", "REJECTED"}
      BY DEF Outcome
    <3>3. log' \in [Keys -> Entry]
      BY <2>0, <2>7, <3>1, <3>2, InsertType, StatusType DEF Note
    <3>4. job' \in [Handlers -> Job]
      BY <2>0, <2>7 DEF Note, End, Idle, Job
    <3> QED
      BY <2>7, <3>3, <3>4 DEF Note, TypeOK, history
  <2>8. CASE NoteThrows(h)
    <3>1. [job[h] EXCEPT !.ok = FALSE] \in Job /\ job[h].key \in Keys
      BY <2>0, <2>8 DEF Job, NoteThrows, Working
    <3> QED
      BY <2>0, <2>8, <3>1 DEF NoteThrows, TypeOK
  <2>9. CASE \E k \in Keys, how \in Resolving : Resolve(h, k, how)
    <3>1. PICK k \in Keys, how \in Resolving : Resolve(h, k, how)
      BY <2>9
    <3>2. log[k].action \in Actions \cup {None}
          /\ log[k].agent \in Agents \cup {None}
      BY DEF TypeOK, Entry
    <3>3. [Idle EXCEPT !.pc = how, !.key = k, !.action = log[k].action,
                       !.agent = log[k].agent, !.logged = TRUE] \in Job
      BY <3>2 DEF Idle, Job, Resolving
    <3>4. contested' \subseteq Keys
      BY <3>1 DEF Resolve, Contest, TypeOK
    <3> QED
      BY <2>0, <3>1, <3>3, <3>4 DEF Resolve, TypeOK
  <2>10. CASE Deny(h)
    <3>1. log' \in [Keys -> Entry]
      BY <2>0, <2>10, StatusType DEF Deny, Working
    <3>2. job' \in [Handlers -> Job]
      BY <2>0, <2>10 DEF Deny, End, Idle, Job
    <3> QED
      BY <2>10, <3>1, <3>2 DEF Deny, TypeOK, history
  <2>11. CASE Approve(h)
    <3>1. [job[h] EXCEPT !.pc = "run"] \in Job /\ job[h].key \in Keys
      BY <2>0, <2>11 DEF Job, Approve, Working
    <3> QED
      BY <2>0, <2>11, <3>1 DEF Approve, Goto, TypeOK
  <2>12. CASE Abort(h)
    <3>1. Idle \in Job /\ job[h].key \in Keys
      BY <2>0, <2>12 DEF Idle, Job, Abort, Working
    <3> QED
      BY <2>0, <2>12, <3>1 DEF Abort, End, TypeOK
  <2> QED
    BY <1>1, <2>1, <2>2, <2>3, <2>4, <2>5, <2>6, <2>7, <2>8, <2>9, <2>10,
       <2>11, <2>12 DEF HandlerStep
<1>2. ASSUME NEW k \in Keys, Lapse(k)
      PROVE  TypeOK'
  BY <1>2 DEF Lapse, TypeOK, history
<1>3. ASSUME NEW g \in Agents, NEW scopes \in SUBSET ForAgents, Grant(g, scopes)
      PROVE  TypeOK'
  <2>1. [scopes |-> scopes, active |-> TRUE] \in Consent
    BY DEF Consent
  <2>2. consented' \subseteq Agents \X ForAgents
    BY <1>3 DEF Grant, TypeOK
  <2> QED
    BY <1>3, <2>1, <2>2 DEF Grant, TypeOK
<1>5. ASSUME NEW g \in Agents, Revoke(g)
      PROVE  TypeOK'
  <2>1. [consent[g] EXCEPT !.active = FALSE] \in Consent
    BY DEF TypeOK, Consent
  <2> QED
    BY <1>5, <2>1 DEF Revoke, TypeOK, history
<1>4. CASE UNCHANGED vars
  BY <1>4 DEF vars, history, TypeOK
<1> QED
  BY <1>1, <1>2, <1>3, <1>4, <1>5 DEF Next

-----------------------------------------------------------------------------
(* What any step leaves: an entry keeps what it asks for, an approval and  *)
(* a consent that were given stay given.                                   *)
EntryKept(k) == Logged(k) => /\ Logged(k)'
                             /\ log'[k].action = log[k].action
                             /\ log'[k].agent = log[k].agent

Kept == /\ \A k \in Keys : EntryKept(k)
        /\ granted \subseteq granted'
        /\ consented \subseteq consented'

\* A new entry in the log leaves the others as they are.
LEMMA InsertKeeps ==
  ASSUME TypeOK, NEW j \in Job, j.key \in Keys, j.action \in Actions,
         NEW s \in {"PENDING_APPROVAL", "EXECUTED", "REJECTED"}, Insert(j, s)
  PROVE  /\ \A k \in Keys : EntryKept(k)
         /\ \A k \in Keys : Logged(k)' => \/ Logged(k)
                                          \/ log'[k].action \in Actions
         /\ Logged(j.key)'
         /\ ~Logged(j.key) => /\ log'[j.key].action = j.action
                              /\ log'[j.key].agent = j.agent
BY DEF Insert, TypeOK, EntryKept, Logged

\* A change of status leaves what was asked for, and by whom.
LEMMA StatusKeeps ==
  ASSUME TypeOK, NEW k \in Keys, Logged(k),
         NEW s \in {"EXECUTED", "REJECTED", "DENIED"},
         log' = [log EXCEPT ![k].status = s]
  PROVE  \A x \in Keys : EntryKept(x) /\ (Logged(x)' => Logged(x))
<1>1. log[k] \in Entry /\ \A x \in Keys : x # k => log'[x] = log[x]
  BY DEF TypeOK
<1>2. log'[k] = [log[k] EXCEPT !.status = s]
  BY DEF TypeOK
<1>3. /\ log'[k].status = s /\ log'[k].action = log[k].action
      /\ log'[k].agent = log[k].agent
  BY <1>1, <1>2 DEF Entry
<1> QED
  BY <1>1, <1>3 DEF EntryKept, Logged

\* What a handler that does not move knows, it goes on knowing ...
LEMMA KeptWorking ==
  ASSUME Kept, NEW h \in Handlers, Working(h), job'[h] = job[h]
  PROVE  Working(h)'
<1>1. job[h].pc # "idle" => EntryKept(job[h].key) /\ job[h].key \in Keys
  BY DEF Kept, Working
<1>2. \A a, g : MayAsk(a, g) => MayAsk(a, g)'
  BY DEF MayAsk, Kept
<1> QED
  BY <1>1, <1>2 DEF Working, EntryKept, Kept, Resolving, Logged

\* ... and what was done stays authorised.
LEMMA KeptRuns ==
  ASSUME Inv, Kept, ran' = ran
  PROVE  RunsAreAuthorised'
<1> SUFFICES ASSUME NEW w \in ran
             PROVE  /\ w.action \notin LowRisk =>
                          /\ w.key \in granted'
                          /\ log'[w.key].action = w.action
                          /\ log'[w.key].agent = w.agent
                    /\ w.agent # None => <<w.agent, w.action>> \in consented'
  BY DEF RunsAreAuthorised
<1>1. w.key \in Keys
  BY DEF Inv, TypeOK, Work
<1>2. w.key \in granted => Logged(w.key)
  BY <1>1 DEF Inv, Entries
<1> QED
  BY <1>1, <1>2 DEF Inv, RunsAreAuthorised, Kept, EntryKept

\* Entries that are added are whole, approvals that are added are of entries.
LEMMA KeptEntries ==
  ASSUME Inv, Kept, granted' = granted,
         \A k \in Keys : Logged(k)' => Logged(k) \/ log'[k].action \in Actions,
         \A k \in Keys : approval'[k] # "none" =>
            \/ approval[k] # "none"
            \/ Logged(k) /\ MayAsk(log[k].action, log[k].agent)
  PROVE  Entries'
<1> SUFFICES ASSUME NEW k \in Keys
             PROVE  /\ approval'[k] # "none" =>
                          Logged(k)' /\ MayAsk(log[k].action, log[k].agent)'
                    /\ k \in granted => Logged(k)'
                    /\ Logged(k)' => log'[k].action \in Actions
  BY DEF Entries
<1>1. EntryKept(k) /\ consented \subseteq consented'
  BY DEF Kept
<1>2. /\ approval[k] # "none" => Logged(k) /\ MayAsk(log[k].action, log[k].agent)
      /\ k \in granted => Logged(k)
      /\ Logged(k) => log[k].action \in Actions
  BY DEF Inv, Entries
<1> QED
  BY <1>1, <1>2 DEF EntryKept, MayAsk

-----------------------------------------------------------------------------
(* Every step of a handler keeps what there is, adds what may be added and *)
(* leaves the handler knowing what it must.                                *)
LEMMA HandlerStepKeeps ==
  ASSUME Inv, NEW h \in Handlers, HandlerStep(h)
  PROVE  /\ Kept /\ Entries' /\ RunsAreAuthorised' /\ Working(h)'
         /\ \A x \in Handlers : x # h => job'[x] = job[x]
<1> USE NoneIsNoValue
<1>0. /\ TypeOK /\ Entries /\ Consents /\ Working(h)
      /\ job \in [Handlers -> Job] /\ job[h] \in Job
  BY DEF Inv, TypeOK
<1>1. ASSUME UNCHANGED <<log, granted, consented>>
      PROVE  /\ Kept
             /\ \A k \in Keys : Logged(k)' => Logged(k)
             /\ \A a, g : MayAsk(a, g)' <=> MayAsk(a, g)
  BY <1>1 DEF Kept, EntryKept, Logged, MayAsk
<1>2. ASSUME UNCHANGED <<log, approval, granted, consented, ran>>
      PROVE  Kept /\ Entries' /\ RunsAreAuthorised'
  BY <1>1, <1>2, KeptEntries, KeptRuns
<1>3. ASSUME UNCHANGED <<approval, granted, consented, ran>>,
             \A k \in Keys : EntryKept(k),
             \A k \in Keys : Logged(k)' => Logged(k) \/ log'[k].action \in Actions
      PROVE  Kept /\ Entries' /\ RunsAreAuthorised'
  <2>1. Kept
    BY <1>3 DEF Kept
  <2> QED
    BY <1>3, <2>1, KeptEntries, KeptRuns
<1>4. job' = [job EXCEPT ![h] = Idle]
         => Working(h)' /\ \A x \in Handlers : x # h => job'[x] = job[x]
  BY <1>0 DEF Working, Idle, Resolving
<1>5. CASE \E k \in Keys, a \in Actions, g \in Agents \cup {None} :
              Submit(h, k, a, g)
  <2>1. PICK k \in Keys, a \in Actions, g \in Agents \cup {None} :
           Submit(h, k, a, g)
    BY <1>5
  <2>2. job' = [job EXCEPT ![h] = [Idle EXCEPT !.pc = "check", !.key = k,
                                               !.action = a, !.agent = g]]
    BY <2>1 DEF Submit
  <2> QED
    BY <1>0, <1>2, <2>1, <2>2 DEF Submit, Working, Idle, Resolving
<1>6. CASE Authorize(h)
  <2> DEFINE j == job[h]
  <2>1. /\ j.key \in Keys /\ j.action \in Actions /\ ~j.logged
        /\ Consented(j.action, j.agent)
    BY <1>0, <1>6 DEF Authorize, Working
  <2>2. MayAsk(j.action, j.agent)
    BY <1>0, <2>1 DEF Consented, MayAsk, Consents, Job
  <2>3. job' = [job EXCEPT ![h].pc = Route(j.action)]
    BY <1>6 DEF Authorize, Goto
  <2>4. /\ Route(j.action) \in {"run", "pend"}
        /\ Route(j.action) = "run" => j.action \in LowRisk
    BY DEF Route
  <2>5. UNCHANGED <<log, approval, granted, consented, ran>>
    BY <1>6 DEF Authorize, history
  <2>6. Working(h)'
    BY <1>0, <1>1, <2>1, <2>2, <2>3, <2>4, <2>5 DEF Working, Resolving, Job
  <2> QED
    BY <1>0, <1>2, <2>3, <2>5, <2>6
<1>7. CASE Refuse(h)
  <2>1. /\ Insert(job[h], "REJECTED") /\ job[h].key \in Keys
        /\ job[h].action \in Actions
        /\ UNCHANGED <<approval, granted, consented, ran>>
    BY <1>0, <1>7 DEF Refuse, Working, history
  <2>2. job' = [job EXCEPT ![h] = Idle]
    BY <1>7 DEF Refuse, End
  <2> QED
    BY <1>0, <1>3, <1>4, <2>1, <2>2, InsertKeeps
<1>8. CASE WritePending(h)
  <2> DEFINE j == job[h]
  <2>1. /\ Insert(j, "PENDING_APPROVAL") /\ j.key \in Keys
        /\ j.action \in Actions /\ ~j.logged
        /\ MayAsk(j.action, j.agent)
        /\ UNCHANGED <<approval, granted, consented, ran>>
    BY <1>0, <1>8 DEF WritePending, Working, history
  <2>2. Kept /\ Entries' /\ RunsAreAuthorised'
    BY <1>0, <1>3, <2>1, InsertKeeps
  <2>3. CASE Logged(j.key)
    <3>1. job' = [job EXCEPT ![h] = Idle]
      BY <1>8, <2>3 DEF WritePending, End, Logged
    <3> QED
      BY <1>4, <2>2, <3>1
  <2>4. CASE ~Logged(j.key)
    <3>1. job' = [job EXCEPT ![h].pc = "ask"]
      BY <1>8, <2>4 DEF WritePending, Goto, Logged
    <3>2. /\ job'[h].pc = "ask" /\ job'[h].key = j.key
          /\ job'[h].action = j.action /\ job'[h].agent = j.agent
          /\ ~job'[h].logged
      BY <1>0, <2>1, <3>1 DEF Job
    <3>3. /\ log'[j.key].status # "none"
          /\ log'[j.key].action = j.action /\ log'[j.key].agent = j.agent
      BY <1>0, <2>1, <2>4 DEF TypeOK, Insert, Logged
    <3>4. Working(h)'
      BY <2>1, <3>2, <3>3 DEF Working, Resolving, Logged, MayAsk
    <3> QED
      BY <1>0, <2>2, <3>1, <3>4
  <2> QED
    BY <2>3, <2>4
<1>9. CASE AskApproval(h)
  <2>1. /\ job[h].key \in Keys /\ Logged(job[h].key)
        /\ MayAsk(log[job[h].key].action, log[job[h].key].agent)
        /\ approval' = [approval EXCEPT ![job[h].key] = "PENDING"]
        /\ UNCHANGED <<log, granted, consented, ran>>
    BY <1>0, <1>9 DEF AskApproval, Working, history
  <2>2. \A k \in Keys : k # job[h].key => approval'[k] = approval[k]
    BY <1>0, <2>1 DEF TypeOK
  <2>3. job' = [job EXCEPT ![h] = Idle]
    BY <1>9 DEF AskApproval, End
  <2> QED
    BY <1>1, <1>4, <2>1, <2>2, <2>3, KeptEntries, KeptRuns
<1>10. CASE Run(h)
  <2> DEFINE j == job[h]
             w == [key |-> j.key, action |-> j.action, agent |-> j.agent]
  <2>1. /\ j.key \in Keys /\ j.action \in Actions
        /\ MayAsk(j.action, j.agent)
        /\ j.logged => /\ j.key \in granted
                       /\ Logged(j.key)
                       /\ log[j.key].action = j.action
                       /\ log[j.key].agent = j.agent
        /\ ~j.logged => j.action \in LowRisk
    BY <1>0, <1>10 DEF Run, Working
  <2>2. /\ ran' = ran \cup {w}
        /\ UNCHANGED <<log, approval, granted, consented>>
        /\ job' = [job EXCEPT ![h].pc = "note", ![h].ok = TRUE]
    BY <1>10 DEF Run
  <2>3. Kept /\ Entries'
    BY <1>1, <2>2, KeptEntries
  <2>4. RunsAreAuthorised'
    <3>1. /\ w.key = j.key /\ w.action = j.action /\ w.agent = j.agent
          /\ w.agent # None => <<w.agent, w.action>> \in consented
      BY <2>1 DEF MayAsk
    <3>2. \A x \in ran' : x \in ran \/ x = w
      BY <2>2
    <3> QED
      BY <2>1, <2>2, <3>1, <3>2 DEF Inv, RunsAreAuthorised
  <2>5. Working(h)'
    BY <1>0, <2>1, <2>2 DEF Working, Resolving, Job, Logged
  <2> QED
    BY <1>0, <2>2, <2>3, <2>4, <2>5
<1>11. CASE RunThrows(h)
  <2>1. job' = [job EXCEPT ![h].pc = "note"]
    BY <1>11 DEF RunThrows, Goto
  <2>2. UNCHANGED <<log, approval, granted, consented, ran>> /\ job[h].pc = "run"
    BY <1>11 DEF RunThrows, history
  <2>3. Working(h)'
    BY <1>0, <2>1, <2>2 DEF Working, Resolving, Job, Logged
  <2> QED
    BY <1>0, <1>2, <2>1, <2>2, <2>3
<1>12. CASE Note(h)
  <2>1. /\ job[h].key \in Keys /\ job[h].action \in Actions
        /\ job[h].logged => Logged(job[h].key)
        /\ Outcome(job[h].ok) \in {"EXECUTED", "REJECTED"}
    BY <1>0, <1>12 DEF Note, Working, Outcome
  <2>2. /\ job' = [job EXCEPT ![h] = Idle]
        /\ UNCHANGED <<approval, granted, consented, ran>>
    BY <1>12 DEF Note, End, history
  <2>3. CASE job[h].logged
    <3>1. log' = [log EXCEPT ![job[h].key].status = Outcome(job[h].ok)]
      BY <1>12, <2>3 DEF Note
    <3> QED
      BY <1>0, <1>3, <1>4, <2>1, <2>2, <2>3, <3>1, StatusKeeps
  <2>4. CASE ~job[h].logged
    <3>1. Insert(job[h], Outcome(job[h].ok))
      BY <1>12, <2>4 DEF Note
    <3> QED
      BY <1>0, <1>3, <1>4, <2>1, <2>2, <3>1, InsertKeeps
  <2> QED
    BY <2>3, <2>4
<1>13. CASE NoteThrows(h)
  <2>1. job' = [job EXCEPT ![h].ok = FALSE]
    BY <1>13 DEF NoteThrows
  <2>2. UNCHANGED <<log, approval, granted, consented, ran>> /\ job[h].pc = "note"
    BY <1>13 DEF NoteThrows
  <2>3. Working(h)'
    BY <1>0, <2>1, <2>2 DEF Working, Resolving, Job, Logged
  <2> QED
    BY <1>0, <1>2, <2>1, <2>2, <2>3
<1>14. CASE \E k \in Keys, how \in Resolving : Resolve(h, k, how)
  <2>1. PICK k \in Keys, how \in Resolving : Resolve(h, k, how)
    BY <1>14
  <2>2. /\ Logged(k) /\ MayAsk(log[k].action, log[k].agent)
        /\ log[k].action \in Actions
    BY <1>0, <2>1 DEF Resolve, Resolvable, Entries
  <2>3. /\ job' = [job EXCEPT ![h] = [Idle EXCEPT !.pc = how, !.key = k,
                                    !.action = log[k].action,
                                    !.agent = log[k].agent, !.logged = TRUE]]
        /\ UNCHANGED <<log, approval, granted, consented, ran>>
    BY <2>1 DEF Resolve
  <2>4. Working(h)'
    BY <1>0, <1>1, <2>2, <2>3 DEF Working, Idle, Resolving, Logged
  <2> QED
    BY <1>0, <1>2, <2>3, <2>4
<1>15. CASE Deny(h)
  <2>1. /\ job[h].key \in Keys /\ Logged(job[h].key)
        /\ log' = [log EXCEPT ![job[h].key].status = "DENIED"]
        /\ approval' = [approval EXCEPT ![job[h].key] = "DENIED"]
        /\ UNCHANGED <<granted, consented, ran>>
        /\ MayAsk(log[job[h].key].action, log[job[h].key].agent)
    BY <1>0, <1>15 DEF Deny, Working, Resolving, history
  <2>2. \A k \in Keys : k # job[h].key => approval'[k] = approval[k]
    BY <1>0, <2>1 DEF TypeOK
  <2>3. job' = [job EXCEPT ![h] = Idle]
    BY <1>15 DEF Deny, End
  <2>4. \A x \in Keys : EntryKept(x) /\ (Logged(x)' => Logged(x))
    BY <1>0, <2>1, StatusKeeps
  <2>5. Kept
    BY <2>1, <2>4 DEF Kept
  <2> QED
    BY <1>4, <2>1, <2>2, <2>3, <2>4, <2>5, KeptEntries, KeptRuns
<1>16. CASE Approve(h)
  <2> DEFINE k == job[h].key
  <2>1. /\ k \in Keys /\ Logged(k) /\ job[h].logged
        /\ log[k].action = job[h].action /\ log[k].agent = job[h].agent
        /\ job[h].action \in Actions
        /\ MayAsk(log[k].action, log[k].agent)
    BY <1>0, <1>16 DEF Approve, Working, Resolving
  <2>2. /\ approval' = [approval EXCEPT ![k] = "APPROVED"]
        /\ granted' = granted \cup {k}
        /\ UNCHANGED <<log, consented, ran>>
        /\ job' = [job EXCEPT ![h].pc = "run"]
    BY <1>16 DEF Approve, Goto
  <2>3. Kept
    BY <2>2 DEF Kept, EntryKept, Logged
  <2>4. \A x \in Keys : x # k => approval'[x] = approval[x]
    BY <1>0, <2>1, <2>2 DEF TypeOK
  <2>5. Entries'
    BY <1>0, <2>1, <2>2, <2>4 DEF Entries, Logged, MayAsk
  <2>6. Working(h)'
    BY <1>0, <2>1, <2>2 DEF Working, Resolving, Job, Logged, MayAsk
  <2> QED
    BY <1>0, <2>2, <2>3, <2>5, <2>6, KeptRuns
<1>17. CASE Expire(h)
  <2>1. /\ job[h].key \in Keys /\ Logged(job[h].key)
        /\ approval' = [approval EXCEPT ![job[h].key] = "EXPIRED"]
        /\ UNCHANGED <<log, granted, consented, ran>>
        /\ MayAsk(log[job[h].key].action, log[job[h].key].agent)
    BY <1>0, <1>17 DEF Expire, Working, Resolving, history
  <2>2. \A k \in Keys : k # job[h].key => approval'[k] = approval[k]
    BY <1>0, <2>1 DEF TypeOK
  <2>3. job' = [job EXCEPT ![h] = Idle]
    BY <1>17 DEF Expire, End
  <2> QED
    BY <1>1, <1>4, <2>1, <2>2, <2>3, KeptEntries, KeptRuns
<1>18. CASE Abort(h)
  <2>1. /\ job' = [job EXCEPT ![h] = Idle]
        /\ UNCHANGED <<log, approval, granted, consented, ran>>
    BY <1>18 DEF Abort, End
  <2> QED
    BY <1>2, <1>4, <2>1
<1> QED
  BY <1>5, <1>6, <1>7, <1>8, <1>9, <1>10, <1>11, <1>12, <1>13, <1>14, <1>15,
     <1>16, <1>17, <1>18 DEF HandlerStep

\* Every step keeps the invariant.
LEMMA StepInv == Inv /\ [Next]_vars => Inv'
<1> SUFFICES ASSUME Inv, [Next]_vars PROVE Inv'
  OBVIOUS
<1>1. TypeOK'
  BY StepType DEF Inv
<1>2. ASSUME NEW h \in Handlers, HandlerStep(h)
      PROVE  Inv'
  <2>1. /\ Kept /\ Entries' /\ RunsAreAuthorised' /\ Working(h)'
        /\ \A x \in Handlers : x # h => job'[x] = job[x]
    BY <1>2, HandlerStepKeeps
  <2>2. \A x \in Handlers : Working(x)'
    BY <2>1, KeptWorking DEF Inv
  <2>3. UNCHANGED <<consent, consented>>
    BY <1>2 DEF HandlerStep, Submit, Authorize, Refuse, WritePending, AskApproval,
                Run, RunThrows, Note, NoteThrows, Resolve, Deny, Approve, Expire,
                Abort, history
  <2> QED
    BY <1>1, <2>1, <2>2, <2>3 DEF Inv, Consents
\* A step that is no handler's and takes no consent away that was given.
<1>3. ASSUME UNCHANGED <<log, approval, job, ran, granted>>,
             consented \subseteq consented', Consents'
      PROVE  Inv'
  <2>1. Kept
    BY <1>3 DEF Kept, EntryKept, Logged
  <2>2. \A x \in Handlers : Working(x)'
    BY <1>3, <2>1, KeptWorking DEF Inv
  <2>3. Entries' /\ RunsAreAuthorised'
    BY <1>3, <2>1, KeptEntries, KeptRuns DEF Logged
  <2> QED
    BY <1>1, <1>3, <2>2, <2>3 DEF Inv
<1>4. ASSUME NEW k \in Keys, Lapse(k)
      PROVE  Inv'
  BY <1>3, <1>4 DEF Lapse, history, Inv, Consents
<1>5. ASSUME NEW g \in Agents, NEW scopes \in SUBSET ForAgents, Grant(g, scopes)
      PROVE  Inv'
  <2>0. /\ \A x \in Agents : x # g => consent'[x] = consent[x]
        /\ consent'[g].scopes = scopes
    BY <1>5 DEF Grant, Inv, TypeOK
  <2>1. Consents'
    BY <1>5, <2>0 DEF Grant, Inv, Consents
  <2> QED
    BY <1>3, <1>5, <2>1 DEF Grant
<1>6. ASSUME NEW g \in Agents, Revoke(g)
      PROVE  Inv'
  <2>0. \A x \in Agents : consent'[x].scopes = consent[x].scopes
    BY <1>6 DEF Revoke, Inv, TypeOK, Consent
  <2>1. Consents'
    BY <1>6, <2>0 DEF Revoke, history, Inv, Consents
  <2> QED
    BY <1>3, <1>6, <2>1 DEF Revoke, history
<1>7. CASE UNCHANGED vars
  BY <1>3, <1>7 DEF vars, history, Inv, Consents
<1> QED
  BY <1>2, <1>4, <1>5, <1>6, <1>7 DEF Next

(* What runs was authorised: the invariant holds of the action engine in   *)
(* every state its handlers and the context broker can get into.           *)
THEOREM Invariance == Spec => []Inv
BY InitInv, StepInv, PTL DEF Spec

-----------------------------------------------------------------------------
(* The engine's tables, handlers and histories have their types, for any   *)
(* registry and any number of keys, agents and handlers.                   *)
THEOREM TypeCorrect == Spec => []TypeOK
<1>1. Inv => TypeOK
  BY DEF Inv
<1> QED
  BY <1>1, Invariance, PTL

(* Whatever calls on a key overlap, throw or stop, nothing above low risk  *)
(* is done unless a human approved the very entry that asked for it, and   *)
(* nothing is done for an agent that was never given consent (submit,      *)
(* assertConsent, resolveApproval).                                        *)
THEOREM AuthorisedRuns == Spec => []RunsAreAuthorised
<1>1. Inv => RunsAreAuthorised
  BY DEF Inv
<1> QED
  BY <1>1, Invariance, PTL

-----------------------------------------------------------------------------
(* A key does its work once.                                               *)
(*                                                                         *)
(* Unless it is contested, a key has one handler at a time, and the        *)
(* handler's place in the code says how far the log entry and the approval *)
(* have got (Stage); unless something was torn as well, so does what was   *)
(* done, and a key at rest is Settled.                                     *)
Done(k) == \E w \in ran : w.key = k

Settled(k) ==
    /\ log[k].status = "EXECUTED" <=> Done(k)
    /\ log[k].status = "DENIED" <=> approval[k] = "DENIED"
    /\ log[k].status = "PENDING_APPROVAL" <=> approval[k] \in {"PENDING", "EXPIRED"}

\* The handler's request is not logged yet.
Before(j) == \/ j.pc \in {"check", "pend"}
             \/ j.pc \in {"run", "note"} /\ ~j.logged

Stage(h) ==
    LET j == job[h]
    IN /\ Before(j) => log[j.key].status = "none"
       /\ ~Before(j) => log[j.key].status = "PENDING_APPROVAL"
       /\ j.pc = "ask" => approval[j.key] = "none"
       /\ j.pc \in Resolving => approval[j.key] = "PENDING"
       /\ j.pc \in {"run", "note"} /\ j.logged => approval[j.key] = "APPROVED"

Alone(k) ==
    k \notin contested =>
       /\ approval[k] = "PENDING" => log[k].status = "PENDING_APPROVAL"
       /\ \A h \in Handlers : job[h].key = k =>
             /\ Stage(h)
             /\ \A i \in Handlers : job[i].key = k => i = h

Once(k) ==
    k \notin contested \cup torn =>
       /\ k \notin twice
       /\ \A h \in Handlers : job[h].key = k => (Done(k) <=> job[h].ok)
       /\ (\A h \in Handlers : job[h].key # k) => Settled(k)

Tidy(h) ==
    /\ job[h].pc = "idle" => job[h].key = None /\ job[h].agent = None
    /\ job[h].ok => job[h].pc = "note"
    /\ job[h].pc = "ask" => log[job[h].key].agent = job[h].agent

InOrder == /\ \A k \in Keys : Alone(k) /\ Once(k)
           /\ \A h \in Handlers : Tidy(h)

\* A step of handler h that changes nothing of any key but k.
OnlyAt(h, k) ==
    /\ \A i \in Handlers \ {h} : job'[i] = job[i]
    /\ job[h].key \in {k, None} /\ job'[h].key \in {k, None}
    /\ \A x \in Keys \ {k} : /\ log'[x] = log[x] /\ approval'[x] = approval[x]
                             /\ Done(x)' <=> Done(x)
                             /\ x \in twice' => x \in twice
    /\ contested \subseteq contested' /\ torn \subseteq torn'

\* With no request logged, all is in order.
LEMMA InitInOrder == Init => InOrder
  BY NoneIsNoValue
  DEF Init, InOrder, Alone, Once, Tidy, Settled, Done, Idle, NoEntry

\* The other keys stay in order ...
LEMMA Elsewhere ==
  ASSUME InOrder, NEW h \in Handlers, NEW k \in Keys, OnlyAt(h, k),
         NEW x \in Keys \ {k}
  PROVE  Alone(x)' /\ Once(x)'
<1>1. \A i \in Handlers : /\ job'[i].key = x => job'[i] = job[i]
                          /\ job[i].key = x => job'[i] = job[i]
  BY NoneIsNoValue DEF OnlyAt
<1>2. /\ log'[x] = log[x] /\ approval'[x] = approval[x]
      /\ Done(x)' <=> Done(x)
      /\ x \in twice' => x \in twice
      /\ x \in contested => x \in contested'
      /\ x \in torn => x \in torn'
  BY DEF OnlyAt
<1>3. Alone(x) /\ Once(x)
  BY DEF InOrder
<1>4. ASSUME NEW i \in Handlers, job'[i].key = x, Stage(i) PROVE Stage(i)'
  BY <1>1, <1>2, <1>4 DEF Stage, Before
<1>5. Alone(x)'
  BY <1>1, <1>2, <1>3, <1>4 DEF Alone
<1>6. Settled(x) => Settled(x)'
  BY <1>2 DEF Settled
<1>7. Once(x)'
  BY <1>1, <1>2, <1>3, <1>6 DEF Once
<1> QED
  BY <1>5, <1>7

\* ... and so does k, if its only handler is h and h keeps it in order.
LEMMA AtKey ==
  ASSUME InOrder, NEW h \in Handlers, NEW k \in Keys, OnlyAt(h, k),
         k \notin contested' =>
            /\ \A i \in Handlers \ {h} : job[i].key # k
            /\ approval'[k] = "PENDING" => log'[k].status = "PENDING_APPROVAL"
            /\ job'[h].key = k => Stage(h)'
            /\ k \notin torn' =>
                  /\ k \notin twice'
                  /\ job'[h].key = k => (Done(k)' <=> job'[h].ok)
                  /\ job'[h].key # k => Settled(k)'
  PROVE  \A x \in Keys : Alone(x)' /\ Once(x)'
<1>1. k \notin contested' => \A i \in Handlers : job'[i].key = k => i = h
  BY DEF OnlyAt
<1>2. Alone(k)'
  BY <1>1 DEF Alone
<1>3. Once(k)'
  BY <1>1 DEF Once
<1> QED
  BY <1>2, <1>3, Elsewhere

-----------------------------------------------------------------------------
(* What a handler at work may count on, its key being uncontested.         *)
LEMMA MyKey ==
  ASSUME Inv, InOrder, NEW h \in Handlers, job[h].pc # "idle"
  PROVE  /\ job[h].key \in Keys
         /\ job[h].ok => job[h].pc = "note"
         /\ job[h].key \notin contested =>
               /\ Stage(h)
               /\ \A i \in Handlers \ {h} : job[i].key # job[h].key
               /\ approval[job[h].key] # "none" => log[job[h].key].status # "none"
         /\ job[h].key \notin contested \cup torn =>
               /\ job[h].key \notin twice
               /\ Done(job[h].key) <=> job[h].ok
<1>1. job[h].key \in Keys
  BY DEF Inv, Working
<1>2. Alone(job[h].key) /\ Once(job[h].key) /\ Tidy(h)
  BY <1>1 DEF InOrder
<1>3. approval[job[h].key] # "none" => log[job[h].key].status # "none"
  BY <1>1 DEF Inv, Entries, Logged
<1> QED
  BY <1>1, <1>2, <1>3 DEF Alone, Once, Tidy

\* A step that touches the tables at no other key touches only that key.
LEMMA OwnKey ==
  ASSUME NEW h \in Handlers, NEW k \in Keys,
         job[h].key \in {k, None}, job'[h].key \in {k, None},
         \A i \in Handlers \ {h} : job'[i] = job[i],
         \A x \in Keys \ {k} : log'[x] = log[x] /\ approval'[x] = approval[x],
         UNCHANGED <<ran, twice>>,
         contested \subseteq contested', torn \subseteq torn'
  PROVE  OnlyAt(h, k) /\ (Done(k)' <=> Done(k))
<1>1. \A x : Done(x)' <=> Done(x)
  BY DEF Done
<1> QED
  BY <1>1 DEF OnlyAt

\* An insert or an update of the entry of k is felt at no other key.
LEMMA LogElsewhere ==
  ASSUME TypeOK, NEW k \in Keys, NEW s,
         \/ \E j \in Job : j.key = k /\ Insert(j, s)
         \/ log' = [log EXCEPT ![k].status = s]
  PROVE  \A x \in Keys \ {k} : log'[x] = log[x]
BY DEF TypeOK, Insert

\* What the log says of a key once its status is written.
LEMMA LogHere ==
  ASSUME TypeOK, NEW k \in Keys, NEW s,
         log' = [log EXCEPT ![k].status = s]
  PROVE  log'[k].status = s
<1>1. log[k] \in Entry
  BY DEF TypeOK
<1>2. log'[k] = [log[k] EXCEPT !.status = s]
  BY DEF TypeOK
<1> QED
  BY <1>1, <1>2 DEF Entry

\* The first step of a call keeps the order.
LEMMA StartInOrder ==
  ASSUME Inv, InOrder, NEW h \in Handlers, job[h].pc = "idle", HandlerStep(h)
  PROVE  \A x \in Keys : Alone(x)' /\ Once(x)'
<1> USE NoneIsNoValue
<1>0. TypeOK /\ job \in [Handlers -> Job] /\ Tidy(h)
  BY DEF Inv, InOrder, TypeOK
<1>1. ASSUME NEW key \in Keys, NEW a \in Actions, NEW g \in Agents \cup {None},
             Submit(h, key, a, g)
      PROVE  \A x \in Keys : Alone(x)' /\ Once(x)'
  <2> DEFINE j == [Idle EXCEPT !.pc = "check", !.key = key, !.action = a,
                               !.agent = g]
  <2>1. /\ job[h].key = None /\ log[key].status = "none"
        /\ job' = [job EXCEPT ![h] = j]
        /\ UNCHANGED <<log, approval, ran, twice, torn>>
        /\ Contest(key, Submitting)
    BY <1>0, <1>1 DEF Submit, Unknown, Tidy
  <2>2. j.pc = "check" /\ j.key = key /\ ~j.ok
    BY DEF Idle
  <2>3. OnlyAt(h, key) /\ job'[h] = j /\ (Done(key)' <=> Done(key))
    <3>1. contested \subseteq contested'
      BY <2>1 DEF Contest
    <3>2. job'[h] = j /\ \A i \in Handlers \ {h} : job'[i] = job[i]
      BY <1>0, <2>1
    <3> HIDE DEF j
    <3> QED
      BY <2>1, <2>2, <3>1, <3>2, OwnKey
  <2>4. ASSUME key \notin contested'
        PROVE  \A i \in Handlers : job[i].key # key
    <3>1. key \notin contested /\ At(key, Submitting) = {}
      BY <2>1, <2>4 DEF Contest
    <3> SUFFICES ASSUME NEW i \in Handlers, job[i].key = key PROVE FALSE
      OBVIOUS
    <3>2. Stage(i)
      BY <3>1 DEF InOrder, Alone
    <3>3. Before(job[i])
      BY <2>1, <3>2 DEF Stage
    <3> QED
      BY <3>1, <3>3 DEF Before, At, Submitting
  <2>5. approval[key] = "none"
    BY <2>1 DEF Inv, Entries, Logged
  <2>6. Stage(h)'
    <3> HIDE DEF j
    <3> QED
      BY <2>1, <2>2, <2>3 DEF Stage, Before, Resolving
  <2>7. key \notin contested \cup torn => key \notin twice
                /\ ((\A i \in Handlers : job[i].key # key) => ~Done(key))
    BY <2>1 DEF InOrder, Once, Settled
  <2>8. contested \subseteq contested'
    BY <2>3 DEF OnlyAt
  <2> HIDE DEF j
  <2> QED
    BY <2>1, <2>2, <2>3, <2>4, <2>5, <2>6, <2>7, <2>8, AtKey
<1>2. ASSUME NEW key \in Keys, NEW how \in Resolving, Resolve(h, key, how)
      PROVE  \A x \in Keys : Alone(x)' /\ Once(x)'
  <2> DEFINE j == [Idle EXCEPT !.pc = how, !.key = key,
                               !.action = log[key].action,
                               !.agent = log[key].agent, !.logged = TRUE]
  <2>1. /\ job[h].key = None /\ approval[key] = "PENDING"
        /\ job' = [job EXCEPT ![h] = j]
        /\ UNCHANGED <<log, approval, ran, twice, torn>>
        /\ Contest(key, Resolving)
    BY <1>0, <1>2 DEF Resolve, Resolvable, Tidy
  <2>2. j.pc = how /\ j.key = key /\ ~j.ok
    BY DEF Idle
  <2>3. OnlyAt(h, key) /\ job'[h] = j /\ (Done(key)' <=> Done(key))
    <3>1. contested \subseteq contested'
      BY <2>1 DEF Contest
    <3>2. job'[h] = j /\ \A i \in Handlers \ {h} : job'[i] = job[i]
      BY <1>0, <2>1
    <3> HIDE DEF j
    <3> QED
      BY <2>1, <2>2, <3>1, <3>2, OwnKey
  <2>4. contested \subseteq contested'
    BY <2>3 DEF OnlyAt
  <2>5. key \notin contested' => log[key].status = "PENDING_APPROVAL"
    BY <2>1, <2>4 DEF InOrder, Alone
  <2>6. ASSUME key \notin contested'
        PROVE  \A i \in Handlers : job[i].key # key
    <3>1. key \notin contested /\ At(key, Resolving) = {}
      BY <2>1, <2>6 DEF Contest
    <3> SUFFICES ASSUME NEW i \in Handlers, job[i].key = key PROVE FALSE
      OBVIOUS
    <3>2. Stage(i) /\ Tidy(i) /\ job[i] \in Job
      BY <1>0, <3>1 DEF InOrder, Alone
    <3>3. ~Before(job[i]) /\ job[i].pc # "ask"
      BY <2>1, <2>5, <2>6, <3>2 DEF Stage
    <3>4. ~(job[i].pc \in {"run", "note"} /\ job[i].logged)
      BY <2>1, <3>2 DEF Stage
    <3>5. job[i].pc \in Resolving
      BY <3>2, <3>3, <3>4 DEF Before, Resolving, Job, Tidy
    <3> QED
      BY <3>1, <3>5 DEF At
  <2>7. key \notin contested' => Stage(h)'
    <3> HIDE DEF j
    <3> QED
      BY <2>1, <2>2, <2>3, <2>5 DEF Stage, Before, Resolving
  <2>8. key \notin contested \cup torn => key \notin twice
                /\ ((\A i \in Handlers : job[i].key # key) => Settled(key))
    BY DEF InOrder, Once
  <2>9. key \notin contested' /\ Settled(key) => ~Done(key)
    BY <2>5 DEF Settled
  <2> HIDE DEF j
  <2> QED
    BY <2>1, <2>2, <2>3, <2>4, <2>5, <2>6, <2>7, <2>8, <2>9, AtKey
<1> QED
  BY <1>1, <1>2
  DEF HandlerStep, Authorize, Refuse, WritePending, AskApproval, Run, RunThrows,
      Note, NoteThrows, Deny, Approve, Expire, Abort

\* The later steps of a call keep the order, of its key and of others.
LEMMA WorkInOrder ==
  ASSUME Inv, InOrder, NEW h \in Handlers, job[h].pc # "idle", HandlerStep(h),
         NEW k \in Keys, job[h].key = k
  PROVE  \A x \in Keys : Alone(x)' /\ Once(x)'
<1> USE NoneIsNoValue
<1>0. /\ TypeOK /\ job \in [Handlers -> Job] /\ job[h] \in Job
      /\ approval \in [Keys -> {"none", "PENDING", "APPROVED", "DENIED", "EXPIRED"}]
      /\ Working(h)
  BY DEF Inv, TypeOK
\* A handler that is at work.
<1>3. ASSUME job[h].pc # "idle", contested' = contested
      PROVE  /\ k \in Keys /\ (job[h].ok => job[h].pc = "note")
             /\ k \notin contested' =>
                   /\ Stage(h)
                   /\ \A i \in Handlers \ {h} : job[i].key # k
                   /\ approval[k] # "none" => log[k].status # "none"
             /\ k \notin contested' \cup torn =>
                   /\ k \notin twice
                   /\ Done(k) <=> job[h].ok
  BY <1>3, MyKey
\* It goes on to another statement, and the tables are left alone.
<1>4. ASSUME NEW pc, job[h].pc # "idle", job' = [job EXCEPT ![h].pc = pc],
             UNCHANGED <<log, approval, ran, twice, contested, torn>>,
             Stage(h) => Stage(h)'
      PROVE  \A x \in Keys : Alone(x)' /\ Once(x)'
  <2>1. /\ job'[h].key = k /\ job'[h].ok = job[h].ok
        /\ \A i \in Handlers \ {h} : job'[i] = job[i]
    BY <1>0, <1>4 DEF Job
  <2>2. OnlyAt(h, k) /\ (Done(k)' <=> Done(k))
    BY <1>3, <1>4, <2>1, OwnKey
  <2>3. k \notin contested =>
          (approval[k] = "PENDING" => log[k].status = "PENDING_APPROVAL")
    BY <1>3, <1>4 DEF InOrder, Alone
  <2> QED
    BY <1>3, <1>4, <2>1, <2>2, <2>3, AtKey
\* It returns, or stops.
<1>5. ASSUME job[h].pc # "idle", End(h), ran' = ran /\ twice' = twice,
             contested' = contested, torn \subseteq torn',
             \A x \in Keys \ {k} : log'[x] = log[x] /\ approval'[x] = approval[x],
             k \notin contested =>
                (approval'[k] = "PENDING" => log'[k].status = "PENDING_APPROVAL"),
             k \notin contested \cup torn' => Settled(k)'
      PROVE  \A x \in Keys : Alone(x)' /\ Once(x)'
  <2>1. job'[h].key = None /\ \A i \in Handlers \ {h} : job'[i] = job[i]
    BY <1>0, <1>5 DEF End, Idle
  <2>2. OnlyAt(h, k)
    BY <1>3, <1>5, <2>1, OwnKey
  <2>3. k \in Keys
    BY <1>3, <1>5
  <2> QED
    BY <1>3, <1>5, <2>1, <2>2, <2>3, AtKey
<1>6. CASE Authorize(h)
  <2>1. /\ job[h].pc = "check" /\ ~job[h].logged
        /\ job' = [job EXCEPT ![h].pc = Route(job[h].action)]
        /\ UNCHANGED <<log, approval, ran, twice, contested, torn>>
        /\ Route(job[h].action) \in {"run", "pend"}
    BY <1>0, <1>6 DEF Authorize, Goto, history, Route, Working
  <2>2. /\ job'[h].pc \in {"run", "pend"} /\ ~job'[h].logged
        /\ job'[h].key = job[h].key
    BY <1>0, <2>1 DEF Job
  <2>3. Stage(h) => Stage(h)'
    BY <2>1, <2>2 DEF Stage, Before, Resolving
  <2> QED
    BY <1>4, <2>1, <2>3
<1>7. CASE Refuse(h)
  <2>1. /\ job[h].pc = "check" /\ End(h) /\ Insert(job[h], "REJECTED")
        /\ UNCHANGED <<approval, ran, twice, contested, torn>>
    BY <1>7 DEF Refuse, history
  <2>2. k \in Keys /\ \A x \in Keys \ {k} : log'[x] = log[x]
    BY <1>0, <1>3, <2>1, LogElsewhere
  <2>3. k \notin contested => log[k].status = "none" /\ approval[k] = "none"
    BY <1>3, <2>1 DEF Stage, Before
  <2>4. k \notin contested => log'[k].status = "REJECTED"
    BY <1>0, <2>1, <2>2, <2>3 DEF Insert, TypeOK
  <2>5. k \notin contested \cup torn' => ~Done(k)'
    BY <1>3, <2>1 DEF Done
  <2>6. k \notin contested \cup torn' => Settled(k)'
    BY <2>1, <2>3, <2>4, <2>5 DEF Settled
  <2> QED
    BY <1>5, <2>1, <2>2, <2>3, <2>6
<1>8. CASE WritePending(h)
  <2>1. /\ job[h].pc = "pend" /\ Insert(job[h], "PENDING_APPROVAL")
        /\ ~job[h].logged
        /\ UNCHANGED <<approval, ran, twice, contested, torn>>
        /\ IF log[k].status = "none" THEN job' = [job EXCEPT ![h].pc = "ask"]
           ELSE job' = [job EXCEPT ![h] = Idle]
    BY <1>0, <1>8 DEF WritePending, history, Goto, End, Working
  <2>2. k \in Keys /\ \A x \in Keys \ {k} : log'[x] = log[x]
    BY <1>0, <1>3, <2>1, LogElsewhere
  <2>3. k \notin contested => log[k].status = "none" /\ approval[k] = "none"
    BY <1>3, <2>1 DEF Stage, Before
  <2>4. k \notin contested => log'[k].status = "PENDING_APPROVAL"
    BY <1>0, <2>1, <2>2, <2>3 DEF Insert, TypeOK
  <2>5. CASE log[k].status = "none"
    <3>2. /\ job'[h].pc = "ask" /\ job'[h].key = k /\ job'[h].ok = job[h].ok
          /\ ~job'[h].logged
          /\ \A i \in Handlers \ {h} : job'[i] = job[i]
      BY <1>0, <2>1, <2>5 DEF Job
    <3>3. OnlyAt(h, k) /\ (Done(k)' <=> Done(k))
      BY <2>1, <2>2, <3>2, OwnKey
    <3>4. k \notin contested => Stage(h)'
      BY <2>1, <2>3, <2>4, <3>2 DEF Stage, Before, Resolving
    <3> QED
      BY <1>3, <2>1, <2>2, <2>3, <3>2, <3>3, <3>4, AtKey
  <2>6. CASE log[k].status # "none"
    <3>1. End(h) /\ k \in contested
      BY <2>1, <2>3, <2>6 DEF End
    <3> QED
      BY <1>5, <2>1, <2>2, <3>1
  <2> QED
    BY <2>5, <2>6
<1>9. CASE AskApproval(h)
  <2>1. /\ job[h].pc = "ask" /\ End(h)
        /\ approval' = [approval EXCEPT ![k] = "PENDING"]
        /\ UNCHANGED <<log, ran, twice, contested, torn>>
    BY <1>9 DEF AskApproval, history
  <2>2. /\ k \in Keys /\ \A x \in Keys \ {k} : approval'[x] = approval[x]
        /\ approval'[k] = "PENDING"
    BY <1>0, <1>3, <2>1
  <2>3. k \notin contested => log[k].status = "PENDING_APPROVAL"
    BY <1>3, <2>1 DEF Stage, Before
  <2>4. k \notin contested \cup torn' => ~Done(k)'
    BY <1>3, <2>1 DEF Done
  <2>5. k \notin contested \cup torn' => Settled(k)'
    BY <2>1, <2>2, <2>3, <2>4 DEF Settled
  <2> QED
    BY <1>5, <2>1, <2>2, <2>3, <2>5
<1>10. CASE Run(h)
  <2> DEFINE w == [key |-> k, action |-> job[h].action, agent |-> job[h].agent]
             j == [job[h] EXCEPT !.pc = "note", !.ok = TRUE]
  <2>1. /\ job[h].pc = "run" /\ ran' = ran \cup {w}
        /\ job' = [job EXCEPT ![h] = j]
        /\ twice' = IF Done(k) THEN twice \cup {k} ELSE twice
        /\ UNCHANGED <<log, approval, contested, torn>>
    BY <1>0, <1>10 DEF Run, Done, Job
  <2>2. /\ job'[h] = j /\ j.key = k /\ j.pc = "note" /\ j.ok
        /\ j.logged = job[h].logged
        /\ \A i \in Handlers \ {h} : job'[i] = job[i]
    BY <1>0, <2>1 DEF Job
  <2>3. w.key = k
    OBVIOUS
  <2>4. /\ Done(k)'
        /\ \A x \in Keys \ {k} : Done(x)' <=> Done(x)
    <3> HIDE DEF w
    <3> QED
      BY <2>1, <2>3 DEF Done
  <2>5. OnlyAt(h, k)
    <3> HIDE DEF w, j
    <3> QED
      BY <2>1, <2>2, <2>4 DEF OnlyAt
  <2>6. k \notin contested => Stage(h)'
    <3>1. k \notin contested => Stage(h)
      BY <1>3, <2>1
    <3> HIDE DEF w, j
    <3> QED
      BY <2>1, <2>2, <3>1 DEF Stage, Before, Resolving
  <2>7. k \notin contested' \cup torn' => k \notin twice'
    BY <1>3, <2>1
  <2>8. k \in Keys /\ k \notin contested => approval[k] # "PENDING"
    <3>1. k \in Keys /\ (k \notin contested => Stage(h))
             /\ (k \notin contested /\ approval[k] # "none" => log[k].status # "none")
      BY <1>3, <2>1
    <3> QED
      BY <2>1, <3>1 DEF Stage, Before
  <2>9. k \in Keys
    BY <1>3, <2>1
  <2> HIDE DEF w, j
  <2> QED
    BY <1>3, <2>1, <2>2, <2>4, <2>5, <2>6, <2>7, <2>8, <2>9, AtKey
<1>11. CASE RunThrows(h)
  <2>1. /\ job[h].pc = "run" /\ job' = [job EXCEPT ![h].pc = "note"]
        /\ UNCHANGED <<log, approval, ran, twice, contested, torn>>
    BY <1>11 DEF RunThrows, Goto, history
  <2>2. /\ job'[h].pc = "note" /\ job'[h].logged = job[h].logged
        /\ job'[h].key = job[h].key
    BY <1>0, <2>1 DEF Job
  <2>3. Stage(h) => Stage(h)'
    BY <2>1, <2>2 DEF Stage, Before, Resolving
  <2> QED
    BY <1>4, <2>1, <2>3
<1>12. CASE Note(h)
  <2>1. /\ job[h].pc = "note" /\ End(h)
        /\ IF job[h].logged
           THEN log' = [log EXCEPT ![k].status = Outcome(job[h].ok)]
           ELSE Insert(job[h], Outcome(job[h].ok))
        /\ UNCHANGED <<approval, ran, twice, contested, torn>>
    BY <1>12 DEF Note, history
  <2>2. k \in Keys /\ \A x \in Keys \ {k} : log'[x] = log[x]
    BY <1>0, <1>3, <2>1, LogElsewhere
  <2>3. k \notin contested => Stage(h) /\ (approval[k] # "none" => log[k].status # "none")
    BY <1>3, <2>1
  <2>4. k \notin contested => /\ log'[k].status = Outcome(job[h].ok)
                              /\ approval[k] \in {"none", "APPROVED"}
    <3>1. CASE job[h].logged
      BY <1>0, <2>1, <2>2, <2>3, <3>1, LogHere DEF Stage
    <3>2. CASE ~job[h].logged
      <4>1. k \notin contested => log[k].status = "none" /\ approval[k] = "none"
        BY <2>1, <2>3, <3>2 DEF Stage, Before
      <4> QED
        BY <1>0, <2>1, <2>2, <3>2, <4>1 DEF Insert, TypeOK
    <3> QED
      BY <3>1, <3>2
  <2>5. k \notin contested \cup torn' => (Done(k)' <=> job[h].ok)
    BY <1>3, <2>1 DEF Done
  <2>6. k \notin contested \cup torn' => Settled(k)'
    BY <2>1, <2>4, <2>5 DEF Settled, Outcome
  <2> QED
    BY <1>5, <2>1, <2>2, <2>4, <2>6
<1>13. CASE NoteThrows(h)
  <2> DEFINE j == [job[h] EXCEPT !.ok = FALSE]
  <2>1. /\ job[h].pc = "note" /\ job' = [job EXCEPT ![h] = j]
        /\ torn' = torn \cup {k}
        /\ UNCHANGED <<log, approval, ran, twice, contested>>
    BY <1>0, <1>13 DEF NoteThrows, Job
  <2>2. j.key = k /\ j.pc = "note" /\ j.logged = job[h].logged /\ k \in Keys
    BY <1>0, <1>3, <2>1 DEF Job
  <2>3. OnlyAt(h, k) /\ job'[h] = j
    <3>1. job'[h] = j /\ \A i \in Handlers \ {h} : job'[i] = job[i]
      BY <1>0, <2>1
    <3> HIDE DEF j
    <3> QED
      BY <3>1, <2>1, <2>2, OwnKey
  <2>4. k \notin contested => Stage(h) /\ Stage(h)'
    <3>1. k \notin contested => Stage(h)
      BY <1>3, <2>1
    <3> HIDE DEF j
    <3> QED
      BY <2>1, <2>2, <2>3, <3>1 DEF Stage, Before, Resolving
  <2>5. k \notin contested =>
          (approval[k] = "PENDING" => log[k].status = "PENDING_APPROVAL")
    BY <2>2 DEF InOrder, Alone
  <2> HIDE DEF j
  <2> QED
    BY <1>3, <2>1, <2>2, <2>3, <2>4, <2>5, AtKey
<1>14. CASE Deny(h)
  <2>1. /\ job[h].pc = "deny" /\ End(h)
        /\ approval' = [approval EXCEPT ![k] = "DENIED"]
        /\ log' = [log EXCEPT ![k].status = "DENIED"]
        /\ UNCHANGED <<ran, twice, contested, torn>>
    BY <1>14 DEF Deny, history
  <2>2. k \in Keys /\ \A x \in Keys \ {k} : log'[x] = log[x]
    BY <1>0, <1>3, <2>1, LogElsewhere
  <2>3. log'[k].status = "DENIED"
    BY <1>0, <2>1, <2>2, LogHere
  <2>4. approval'[k] = "DENIED"
        /\ \A x \in Keys \ {k} : approval'[x] = approval[x]
    BY <1>0, <2>1, <2>2
  <2>5. k \notin contested \cup torn' => ~Done(k)'
    BY <1>3, <2>1 DEF Done
  <2>6. k \notin contested \cup torn' => Settled(k)'
    BY <2>3, <2>4, <2>5 DEF Settled
  <2> QED
    BY <1>5, <2>1, <2>2, <2>4, <2>6
<1>15. CASE Approve(h)
  <2> DEFINE j == [job[h] EXCEPT !.pc = "run"]
  <2>1. /\ job[h].pc = "approve" /\ job' = [job EXCEPT ![h] = j]
        /\ approval' = [approval EXCEPT ![k] = "APPROVED"] /\ job[h].logged
        /\ UNCHANGED <<log, ran, twice, contested, torn>>
    BY <1>0, <1>15 DEF Approve, Goto, Job, Working, Resolving
  <2>2. /\ j.key = k /\ j.pc = "run" /\ j.logged /\ j.ok = job[h].ok
        /\ k \in Keys
    BY <1>0, <1>3, <2>1 DEF Job
  <2>3. approval'[k] = "APPROVED"
        /\ \A x \in Keys \ {k} : approval'[x] = approval[x]
    BY <1>0, <2>1, <2>2
  <2>4. OnlyAt(h, k) /\ job'[h] = j /\ (Done(k)' <=> Done(k))
    <3>1. job'[h] = j /\ \A i \in Handlers \ {h} : job'[i] = job[i]
      BY <1>0, <2>1
    <3> HIDE DEF j
    <3> QED
      BY <3>1, <2>1, <2>2, <2>3, OwnKey
  <2>5. k \notin contested => Stage(h)'
    <3>1. k \notin contested => log[k].status = "PENDING_APPROVAL"
      BY <1>3, <2>1 DEF Stage, Before
    <3> HIDE DEF j
    <3> QED
      BY <2>1, <2>2, <2>3, <2>4, <3>1 DEF Stage, Before, Resolving
  <2> HIDE DEF j
  <2> QED
    BY <1>3, <2>1, <2>2, <2>3, <2>4, <2>5, AtKey
<1>16. CASE Expire(h)
  <2>1. /\ job[h].pc = "expire" /\ End(h)
        /\ approval' = [approval EXCEPT ![k] = "EXPIRED"]
        /\ UNCHANGED <<log, ran, twice, contested, torn>>
    BY <1>16 DEF Expire, history
  <2>2. /\ k \in Keys /\ \A x \in Keys \ {k} : approval'[x] = approval[x]
        /\ approval'[k] = "EXPIRED"
    BY <1>0, <1>3, <2>1
  <2>3. k \notin contested => log[k].status = "PENDING_APPROVAL"
    BY <1>3, <2>1 DEF Stage, Before
  <2>4. k \notin contested \cup torn' => ~Done(k)'
    BY <1>3, <2>1 DEF Done
  <2>5. k \notin contested \cup torn' => Settled(k)'
    BY <2>1, <2>2, <2>3, <2>4 DEF Settled
  <2> QED
    BY <1>5, <2>1, <2>2, <2>3, <2>5
<1>17. CASE Abort(h)
  <2>1. /\ job[h].pc # "idle" /\ End(h) /\ k \in Keys
        /\ torn' = IF job[h].pc \in {"ask", "run", "note"} THEN torn \cup {k}
                   ELSE torn
        /\ UNCHANGED <<log, approval, ran, twice, contested>>
    BY <1>0, <1>17 DEF Abort, Working
  <2>2. k \notin contested => Stage(h) /\ (approval[k] # "none" => log[k].status # "none")
    BY <1>3, <2>1
  <2>3. k \notin contested =>
          (approval[k] = "PENDING" => log[k].status = "PENDING_APPROVAL")
    BY <2>1 DEF InOrder, Alone
  <2>4. k \notin contested \cup torn' => Settled(k)'
    <3> SUFFICES ASSUME k \notin contested \cup torn' PROVE Settled(k)'
      OBVIOUS
    <3>1. job[h].pc \in {"check", "pend"} \cup Resolving /\ k \notin torn
      BY <1>0, <2>1 DEF Job, Resolving
    <3>2. ~Done(k)'
      BY <1>3, <2>1, <3>1 DEF Done, Resolving
    <3>3. \/ log[k].status = "none" /\ approval[k] = "none"
          \/ log[k].status = "PENDING_APPROVAL" /\ approval[k] = "PENDING"
      BY <2>1, <2>2, <3>1 DEF Stage, Before, Resolving
    <3> QED
      BY <2>1, <3>2, <3>3 DEF Settled
  <2> QED
    BY <1>5, <2>1, <2>2, <2>3, <2>4
<1> QED
  BY <1>6, <1>7, <1>8, <1>9, <1>10, <1>11, <1>12, <1>13, <1>14, <1>15, <1>16,
     <1>17 DEF HandlerStep, Submit, Resolve

\* Whatever one handler does, each stays as tidy as it was.
LEMMA TidyStays ==
  ASSUME Inv, InOrder, NEW h \in Handlers, HandlerStep(h), NEW i \in Handlers
  PROVE  Tidy(i)'
<1> USE NoneIsNoValue
<1>0. /\ TypeOK /\ job \in [Handlers -> Job] /\ job[h] \in Job
      /\ Tidy(i) /\ Tidy(h) /\ Working(i) /\ Working(h)
  BY DEF Inv, InOrder, TypeOK
<1>1. Kept /\ \A x \in Handlers : x # h => job'[x] = job[x]
  BY HandlerStepKeeps
<1>2. CASE i # h
  <2>1. job[i].pc = "ask" => job[i].key \in Keys /\ EntryKept(job[i].key) /\ Logged(job[i].key)
    BY <1>0, <1>1 DEF Working, Kept
  <2> QED
    BY <1>0, <1>1, <1>2, <2>1 DEF Tidy, EntryKept
<1>3. ASSUME job' = [job EXCEPT ![h] = Idle] PROVE Tidy(i)'
  BY <1>0, <1>2, <1>3 DEF Tidy, Idle
<1>4. ASSUME NEW pc \in {"run", "pend", "note"}, ~job[h].ok,
             job' = [job EXCEPT ![h].pc = pc]
      PROVE  Tidy(i)'
  BY <1>0, <1>2, <1>4 DEF Tidy, Job
<1>5. CASE WritePending(h)
  <2>1. CASE log[job[h].key].status = "none"
    <3>1. /\ job' = [job EXCEPT ![h].pc = "ask"] /\ ~job[h].ok
          /\ Insert(job[h], "PENDING_APPROVAL") /\ job[h].key \in Keys
      BY <1>0, <1>5, <2>1 DEF WritePending, Goto, Tidy, Working
    <3>2. job'[h].key = job[h].key /\ job'[h].agent = job[h].agent
          /\ job'[h].pc = "ask" /\ ~job'[h].ok
      BY <1>0, <3>1 DEF Job
    <3>3. log'[job[h].key].agent = job[h].agent
      BY <1>0, <2>1, <3>1 DEF Insert, TypeOK
    <3> QED
      BY <1>2, <3>2, <3>3 DEF Tidy
  <2>2. CASE log[job[h].key].status # "none"
    BY <1>3, <1>5, <2>2 DEF WritePending, End
  <2> QED
    BY <2>1, <2>2
<1>6. CASE \E k \in Keys, a \in Actions, g \in Agents \cup {None} : Submit(h, k, a, g)
  BY <1>0, <1>6 DEF Submit, Tidy, Idle
<1>7. CASE \E k \in Keys, how \in Resolving : Resolve(h, k, how)
  BY <1>0, <1>7 DEF Resolve, Resolving, Tidy, Idle
<1>8. CASE Authorize(h) \/ RunThrows(h) \/ Approve(h)
  BY <1>0, <1>4, <1>8 DEF Authorize, RunThrows, Approve, Goto, Route, Tidy
<1>9. CASE Run(h) \/ NoteThrows(h)
  BY <1>0, <1>9 DEF Run, NoteThrows, Tidy, Job
<1>10. CASE Refuse(h) \/ AskApproval(h) \/ Note(h) \/ Deny(h) \/ Expire(h) \/ Abort(h)
  BY <1>3, <1>10 DEF Refuse, AskApproval, Note, Deny, Expire, Abort, End
<1> QED
  BY <1>2, <1>5, <1>6, <1>7, <1>8, <1>9, <1>10 DEF HandlerStep

\* Every step keeps the order.
LEMMA StepInOrder == Inv /\ InOrder /\ [Next]_vars => InOrder'
<1> SUFFICES ASSUME Inv, InOrder, [Next]_vars PROVE InOrder'
  OBVIOUS
<1>1. ASSUME NEW h \in Handlers, HandlerStep(h) PROVE InOrder'
  <2>1. CASE job[h].pc = "idle"
    BY <1>1, <2>1, StartInOrder, TidyStays DEF InOrder
  <2>2. CASE job[h].pc # "idle"
    <3>1. job[h].key \in Keys
      BY <2>2 DEF Inv, Working
    <3> QED
      BY <1>1, <2>2, <3>1, WorkInOrder, TidyStays DEF InOrder
  <2> QED
    BY <2>1, <2>2
<1>2. ASSUME UNCHANGED <<log, approval, job, ran, twice, contested, torn>>
      PROVE  InOrder'
  BY <1>2 DEF InOrder, Alone, Once, Stage, Before, Settled, Done, Tidy
<1>3. CASE UNCHANGED vars
  BY <1>2, <1>3 DEF vars, history
<1>4. ASSUME NEW k \in Keys, Lapse(k) PROVE InOrder'
  BY <1>2, <1>4 DEF Lapse, history
<1>5. ASSUME NEW g \in Agents, Revoke(g) \/ \E scopes \in SUBSET ForAgents : Grant(g, scopes)
      PROVE  InOrder'
  BY <1>2, <1>5 DEF Revoke, Grant, history
<1> QED
  BY <1>1, <1>3, <1>4, <1>5 DEF Next

(* The log, the approvals and the work of the action engine are in order   *)
(* in every state its handlers can get into.                               *)
THEOREM Orderly == Spec => []InOrder
BY InitInOrder, StepInOrder, Invariance, PTL DEF Spec

(* A key does its work once and its log entry, its approval and what was   *)
(* done agree, unless two submissions or two resolutions of it were past   *)
(* their check at once or a handler stopped between two writes - for any   *)
(* number of keys and of calls in progress (submit, execute,               *)
(* resolveApproval).                                                       *)
THEOREM OnceAndLogged == Spec => []WorkIsDoneOnceAndLogged
<1>1. Inv /\ InOrder => WorkIsDoneOnceAndLogged
  BY DEF Inv, TypeOK, InOrder, Once, Settled, Done, WorkIsDoneOnceAndLogged
<1> QED
  BY <1>1, Invariance, Orderly, PTL

-----------------------------------------------------------------------------
(* What is final stays final.                                              *)
Final(k) == log[k].status \in {"EXECUTED", "REJECTED", "DENIED"}

\* No handler is at work on an uncontested entry that is final.
LEMMA FinalAtRest ==
  ASSUME Inv, InOrder, NEW k \in Keys \ contested, Final(k),
         NEW h \in Handlers, HandlerStep(h)
  PROVE  log'[k] = log[k]
<1>1. job[h].key # k
  BY DEF InOrder, Alone, Stage, Final
<1>2. TypeOK /\ job[h] \in Job
  BY DEF Inv, TypeOK
<1>3. ASSUME NEW s, Insert(job[h], s) \/ log' = [log EXCEPT ![job[h].key].status = s]
      PROVE  log'[k] = log[k]
  BY <1>1, <1>2, <1>3 DEF Insert, TypeOK
<1>4. CASE Refuse(h) \/ WritePending(h) \/ Note(h) \/ Deny(h)
  BY <1>3, <1>4 DEF Refuse, WritePending, Note, Deny
<1>5. CASE UNCHANGED log
  BY <1>5
<1> QED
  BY <1>4, <1>5
  DEF HandlerStep, Submit, Authorize, AskApproval, Run, RunThrows, NoteThrows,
      Resolve, Approve, Expire, Abort, history

\* An agent without consent, and with nothing under way, gets nothing under way.
LEMMA OutStays ==
  ASSUME Inv, InOrder, NEW g \in Agents, Out(g),
         NEW h \in Handlers, HandlerStep(h)
  PROVE  /\ Out(g)'
         /\ \A w \in ran' : w.agent = g => w \in ran
<1> USE NoneIsNoValue
<1>0. /\ TypeOK /\ job \in [Handlers -> Job] /\ job[h] \in Job
      /\ Working(h) /\ Tidy(h) /\ g # None
      /\ ~consent[g].active
      /\ \A i \in Handlers : job[i].agent = g => job[i].pc = "check"
      /\ \A k \in Keys : log[k].agent = g => approval[k] # "PENDING"
  BY DEF Inv, InOrder, TypeOK, Out
<1>1. UNCHANGED consent
  BY DEF HandlerStep, Submit, Authorize, Refuse, WritePending, AskApproval,
         Run, RunThrows, Note, NoteThrows, Resolve, Deny, Approve, Expire,
         Abort, history
<1>2. Kept /\ \A x \in Handlers : x # h => job'[x] = job[x]
  BY HandlerStepKeeps
<1>3. ASSUME job'[h].agent = g => job'[h].pc = "check",
             \A k \in Keys : log'[k].agent = g => approval'[k] # "PENDING",
             ran' = ran
      PROVE  Out(g)' /\ \A w \in ran' : w.agent = g => w \in ran
  BY <1>0, <1>1, <1>2, <1>3 DEF Out
\* A new entry has no approval yet.
<1>4. ASSUME NEW s \in {"PENDING_APPROVAL", "EXECUTED", "REJECTED"},
             Insert(job[h], s), job[h].key \in Keys, UNCHANGED approval,
             NEW k \in Keys, log'[k].agent = g
      PROVE  approval'[k] # "PENDING"
  <2>1. CASE log'[k] = log[k]
    BY <1>0, <1>4, <2>1
  <2>2. CASE log'[k] # log[k]
    <3>1. log[k].status = "none"
      BY <1>0, <1>4, <2>2 DEF Insert, TypeOK
    <3> QED
      BY <1>4, <3>1 DEF Inv, Entries, Logged
  <2> QED
    BY <2>1, <2>2
<1>5. ASSUME NEW k \in Keys, NEW s,
             log' = [log EXCEPT ![k].status = s]
      PROVE  \A x \in Keys : log'[x].agent = log[x].agent
  <2>1. log \in [Keys -> Entry] /\ log[k] \in Entry
    BY <1>0 DEF TypeOK
  <2>2. log'[k] = [log[k] EXCEPT !.status = s]
        /\ \A x \in Keys : x # k => log'[x] = log[x]
    BY <1>5, <2>1
  <2>3. log'[k].agent = log[k].agent
    BY <2>1, <2>2 DEF Entry
  <2> QED
    BY <2>2, <2>3
<1>6. ASSUME job' = [job EXCEPT ![h] = Idle] PROVE job'[h].agent # g
  BY <1>0, <1>6 DEF Idle
<1>7. CASE \E k \in Keys, a \in Actions, x \in Agents \cup {None} : Submit(h, k, a, x)
  <2>1. job'[h].pc = "check" /\ UNCHANGED <<log, approval, ran>>
    BY <1>0, <1>7 DEF Submit, Idle
  <2> QED
    BY <1>0, <1>3, <2>1
<1>8. CASE Authorize(h)
  <2>1. job[h].agent # g
    BY <1>0, <1>8 DEF Authorize, Consented
  <2>2. job'[h].agent = job[h].agent /\ UNCHANGED <<log, approval, ran>>
    BY <1>0, <1>8 DEF Authorize, Goto, Job, history
  <2> QED
    BY <1>0, <1>3, <2>1, <2>2
<1>9. CASE Refuse(h)
  <2>1. /\ Insert(job[h], "REJECTED") /\ job[h].key \in Keys
        /\ UNCHANGED <<approval, ran>> /\ job' = [job EXCEPT ![h] = Idle]
    BY <1>0, <1>9 DEF Refuse, End, history, Working
  <2> QED
    BY <1>3, <1>4, <1>6, <2>1
<1>10. CASE WritePending(h)
  <2>1. /\ Insert(job[h], "PENDING_APPROVAL") /\ job[h].key \in Keys
        /\ job[h].pc = "pend" /\ UNCHANGED <<approval, ran>>
        /\ \/ job' = [job EXCEPT ![h] = Idle]
           \/ job' = [job EXCEPT ![h].pc = "ask"]
    BY <1>0, <1>10 DEF WritePending, End, Goto, history, Working
  <2>2. job[h].agent # g
    BY <1>0, <2>1
  <2>3. job'[h].agent # g
    BY <1>0, <1>6, <2>1, <2>2 DEF Job
  <2> QED
    BY <1>3, <1>4, <2>1, <2>3
<1>11. CASE AskApproval(h)
  <2>1. /\ job[h].pc = "ask" /\ job[h].key \in Keys
        /\ approval' = [approval EXCEPT ![job[h].key] = "PENDING"]
        /\ UNCHANGED <<log, ran>> /\ job' = [job EXCEPT ![h] = Idle]
    BY <1>0, <1>11 DEF AskApproval, End, history, Working
  <2>2. log[job[h].key].agent # g
    BY <1>0, <2>1 DEF Tidy
  <2>3. \A k \in Keys : k # job[h].key => approval'[k] = approval[k]
    BY <1>0, <2>1 DEF TypeOK
  <2>4. \A k \in Keys : log'[k].agent = g => approval'[k] # "PENDING"
    BY <1>0, <2>1, <2>2, <2>3
  <2> QED
    BY <1>3, <1>6, <2>1, <2>4
<1>12. CASE Run(h)
  <2>1. job[h].pc = "run" /\ job[h].agent # g
    BY <1>0, <1>12 DEF Run
  <2>2. /\ job'[h].agent # g /\ UNCHANGED <<log, approval>>
        /\ ran' = ran \cup {[key |-> job[h].key, action |-> job[h].action,
                             agent |-> job[h].agent]}
    BY <1>0, <1>12, <2>1 DEF Run, Job
  <2>3. \A w \in ran' : w.agent = g => w \in ran
    BY <2>1, <2>2
  <2> QED
    BY <1>0, <1>1, <1>2, <2>2, <2>3 DEF Out
<1>13. CASE RunThrows(h) \/ NoteThrows(h)
  <2>1. job[h].agent # g
    BY <1>0, <1>13 DEF RunThrows, NoteThrows
  <2>2. job'[h].agent # g /\ UNCHANGED <<log, approval, ran>>
    BY <1>0, <1>13, <2>1 DEF RunThrows, NoteThrows, Goto, history, Job
  <2> QED
    BY <1>0, <1>3, <2>2
<1>14. CASE Note(h)
  <2>1. /\ job[h].key \in Keys
        /\ \/ Insert(job[h], Outcome(job[h].ok))
           \/ log' = [log EXCEPT ![job[h].key].status = Outcome(job[h].ok)]
        /\ UNCHANGED <<approval, ran>> /\ job' = [job EXCEPT ![h] = Idle]
        /\ Outcome(job[h].ok) \in {"EXECUTED", "REJECTED"}
    BY <1>0, <1>14 DEF Note, End, history, Working, Outcome
  <2>2. CASE Insert(job[h], Outcome(job[h].ok))
    BY <1>3, <1>4, <1>6, <2>1, <2>2
  <2>3. CASE log' = [log EXCEPT ![job[h].key].status = Outcome(job[h].ok)]
    <3>1. \A x \in Keys : log'[x].agent = log[x].agent
      BY <1>5, <2>1, <2>3
    <3> QED
      BY <1>0, <1>3, <1>6, <2>1, <3>1
  <2> QED
    BY <2>1, <2>2, <2>3
<1>15. CASE \E k \in Keys, how \in Resolving : Resolve(h, k, how)
  <2>1. PICK k \in Keys, how \in Resolving : Resolve(h, k, how)
    BY <1>15
  <2>2. job'[h].agent = log[k].agent /\ approval[k] = "PENDING"
        /\ UNCHANGED <<log, approval, ran>>
    BY <1>0, <2>1 DEF Resolve, Resolvable, Idle
  <2> QED
    BY <1>0, <1>3, <2>2
<1>16. CASE Deny(h)
  <2>1. /\ job[h].key \in Keys
        /\ log' = [log EXCEPT ![job[h].key].status = "DENIED"]
        /\ approval' = [approval EXCEPT ![job[h].key] = "DENIED"]
        /\ UNCHANGED ran /\ job' = [job EXCEPT ![h] = Idle]
    BY <1>0, <1>16 DEF Deny, End, history, Working
  <2>2. \A k \in Keys : approval'[k] \in {approval[k], "DENIED"}
    BY <1>0, <2>1 DEF TypeOK
  <2>3. \A x \in Keys : log'[x].agent = log[x].agent
    BY <1>5, <2>1
  <2> QED
    BY <1>0, <1>3, <1>6, <2>1, <2>2, <2>3
<1>17. CASE Approve(h)
  <2>1. /\ job[h].key \in Keys /\ job[h].agent # g
        /\ approval' = [approval EXCEPT ![job[h].key] = "APPROVED"]
        /\ UNCHANGED <<log, ran>> /\ job' = [job EXCEPT ![h].pc = "run"]
    BY <1>0, <1>17 DEF Approve, Goto, Working
  <2>2. \A k \in Keys : approval'[k] \in {approval[k], "APPROVED"}
    BY <1>0, <2>1 DEF TypeOK
  <2>3. job'[h].agent # g
    BY <1>0, <2>1 DEF Job
  <2> QED
    BY <1>0, <1>3, <2>1, <2>2, <2>3
<1>18. CASE Expire(h)
  <2>1. /\ job[h].key \in Keys
        /\ approval' = [approval EXCEPT ![job[h].key] = "EXPIRED"]
        /\ UNCHANGED <<log, ran>> /\ job' = [job EXCEPT ![h] = Idle]
    BY <1>0, <1>18 DEF Expire, End, history, Working
  <2>2. \A k \in Keys : approval'[k] \in {approval[k], "EXPIRED"}
    BY <1>0, <2>1 DEF TypeOK
  <2> QED
    BY <1>0, <1>3, <1>6, <2>1, <2>2
<1>19. CASE Abort(h)
  <2>1. UNCHANGED <<log, approval, ran>> /\ job' = [job EXCEPT ![h] = Idle]
    BY <1>19 DEF Abort, End
  <2> QED
    BY <1>0, <1>3, <1>6, <2>1
<1> QED
  BY <1>7, <1>8, <1>9, <1>10, <1>11, <1>12, <1>13, <1>14, <1>15, <1>16, <1>17,
     <1>18, <1>19 DEF HandlerStep

\* The conjuncts of ActionsAreFinal, of one step.
FinalStep ==
    /\ \A k \in Keys \ contested : Final(k) => log'[k] = log[k]
    /\ \A g \in Agents : Out(g) /\ ~consent'[g].active =>
          /\ Out(g)'
          /\ \A w \in ran' : w.agent = g => w \in ran

\* No step undoes the outcome of an action.
LEMMA StepIsFinal == Inv /\ InOrder /\ [Next]_vars => FinalStep
<1> SUFFICES ASSUME Inv, InOrder, [Next]_vars PROVE FinalStep
  OBVIOUS
<1>1. ASSUME NEW h \in Handlers, HandlerStep(h) PROVE FinalStep
  BY <1>1, FinalAtRest, OutStays DEF FinalStep
<1>2. ASSUME UNCHANGED <<log, approval, job, ran>> PROVE FinalStep
  BY <1>2 DEF FinalStep, Out
<1>3. CASE UNCHANGED vars
  BY <1>2, <1>3 DEF vars, history
<1>4. ASSUME NEW k \in Keys, Lapse(k) PROVE FinalStep
  BY <1>2, <1>4 DEF Lapse, history
<1>5. ASSUME NEW g \in Agents, Revoke(g) \/ \E scopes \in SUBSET ForAgents : Grant(g, scopes)
      PROVE  FinalStep
  BY <1>2, <1>5 DEF Revoke, Grant, history
<1> QED
  BY <1>1, <1>3, <1>4, <1>5 DEF Next

(* What was executed, rejected or denied stays so, and an agent whose      *)
(* consent is gone, with nothing of it under way, gets nothing done until  *)
(* it is given consent again (assertConsent, resolveApproval).             *)
THEOREM FinalActions == Spec => ActionsAreFinal
<1>1. Inv /\ InOrder /\ [Next]_vars
         => [/\ \A k \in Keys \ contested :
                   log[k].status \in {"EXECUTED", "REJECTED", "DENIED"}
                      => log'[k] = log[k]
             /\ \A g \in Agents : Out(g) /\ ~consent'[g].active =>
                   /\ Out(g)'
                   /\ \A w \in ran' : w.agent = g => w \in ran]_vars
  BY StepIsFinal DEF FinalStep, Final
<1> QED
  BY <1>1, Invariance, Orderly, PTL DEF Spec, ActionsAreFinal

-----------------------------------------------------------------------------
(* The approval of a new device.                                           *)

\* With no approval asked for, the invariant holds.
LEMMA DeviceInit == D!Init => D!Inv
  BY DEF D!Init, D!Inv, D!TypeOK, D!Working, D!Genuine, D!Status, D!Call,
      D!Idle, D!NotDecided

\* A step keeps the invariant and decides at most one approval.
LEMMA DeviceStep ==
  ASSUME D!Inv, [D!Next]_(D!vars) PROVE D!Inv' /\ D!Decision
<1>0. D!TypeOK /\ \A h \in Handlers : D!Working(h)
  BY DEF D!Inv
<1>1. CASE UNCHANGED D!vars
  BY <1>1 DEF D!vars, D!Inv, D!TypeOK, D!Working, D!Genuine, D!Decision, D!Rests
<1>2. ASSUME NEW u \in Pair, NEW q \in Few, D!CreateForNewDevice(u, q)
      PROVE  D!TypeOK' /\ (\A h \in Handlers : D!Working(h)') /\ D!Decision
  BY <1>0, <1>2
  DEF D!CreateForNewDevice, D!TypeOK, D!Status, D!Working, D!Decision,
      D!Creates, D!Rests
<1>3. ASSUME NEW q \in Few, D!TimePasses(q)
      PROVE  D!TypeOK' /\ (\A h \in Handlers : D!Working(h)') /\ D!Decision
  BY <1>0, <1>3 DEF D!TimePasses, D!TypeOK, D!Working, D!Decision, D!Rests
<1>4. ASSUME NEW h \in Handlers, NEW op \in {"status", "approve", "deny"},
             NEW u \in Pair, NEW q \in Few, NEW ok \in BOOLEAN,
             D!Begin(h, op, u, q, ok)
      PROVE  D!TypeOK' /\ (\A g \in Handlers : D!Working(g)') /\ D!Decision
  BY <1>0, <1>4
  DEF D!Begin, D!TypeOK, D!Status, D!Call, D!Working, D!Decision, D!Rests
<1>5. ASSUME NEW h \in Handlers, D!Find(h)
      PROVE  D!TypeOK' /\ (\A g \in Handlers : D!Working(g)') /\ D!Decision
  <2>1. PICK pc \in {"expire", "decide"} :
           x4' = [x4 EXCEPT ![h] = [x4[h] EXCEPT !.pc = pc, !.seen = x1[x4[h].on]]]
    BY <1>5 DEF D!Find
  <2>2. x4[h].on \in Few /\ x4[h] \in D!Call
    BY <1>0, <1>5 DEF D!Find, D!Working, D!TypeOK
  <2>3. [x4[h] EXCEPT !.pc = pc, !.seen = x1[x4[h].on]] \in D!Call
    BY <1>0, <2>2 DEF D!TypeOK, D!Call
  <2>4. UNCHANGED <<x1, x2, x3, x5>>
    BY <1>5 DEF D!Find
  <2>5. \A g \in Handlers : D!Working(g)'
    <3>1. x4'[h].on = x4[h].on /\ x4'[h].user = x4[h].user
      BY <1>0, <2>1, <2>2 DEF D!TypeOK, D!Call
    <3>2. x4[h].pc # "idle" /\ \A g \in Handlers \ {h} : x4'[g] = x4[g]
      BY <1>0, <1>5, <2>1 DEF D!TypeOK, D!Find
    <3> QED
      BY <1>0, <3>1, <3>2 DEF D!Working
  <2> QED
    BY <1>0, <2>1, <2>3, <2>4, <2>5 DEF D!TypeOK, D!Decision, D!Rests
<1>6. ASSUME NEW h \in Handlers, D!Expire(h)
      PROVE  D!TypeOK' /\ (\A g \in Handlers : D!Working(g)') /\ D!Decision
  <2>1. x4[h].on \in Few /\ x4[h] \in D!Call
    BY <1>0, <1>6 DEF D!Expire, D!Working, D!TypeOK
  <2>2. [x4[h] EXCEPT !.pc = "decide", !.seen = "EXPIRED"] \in D!Call
    BY <2>1 DEF D!Call, D!Status
  <2>3. x4' = [x4 EXCEPT ![h] = [x4[h] EXCEPT !.pc = "decide", !.seen = "EXPIRED"]]
    BY <1>6 DEF D!Expire
  <2>4. /\ x1' = [x1 EXCEPT ![x4[h].on] = "EXPIRED"]
        /\ UNCHANGED <<x2, x3, x5>>
    BY <1>6 DEF D!Expire
  <2>5. D!TypeOK'
    BY <1>0, <2>2, <2>3, <2>4 DEF D!TypeOK, D!Status
  <2>6. \A g \in Handlers : D!Working(g)'
    <3>1. x4'[h].on = x4[h].on /\ x4'[h].user = x4[h].user
      BY <1>0, <2>1, <2>3 DEF D!TypeOK, D!Call
    <3>2. x4[h].pc # "idle" /\ \A g \in Handlers \ {h} : x4'[g] = x4[g]
      BY <1>0, <1>6, <2>3 DEF D!TypeOK, D!Expire
    <3> QED
      BY <1>0, <3>1, <3>2 DEF D!Working
  <2>7. D!Closes(x4[h].on) /\ \A r \in Few \ {x4[h].on} : D!Rests(r)
    BY <1>0, <2>1, <2>4 DEF D!TypeOK, D!Closes, D!Rests
  <2> QED
    BY <2>1, <2>5, <2>6, <2>7 DEF D!Decision
<1>7. ASSUME NEW h \in Handlers, D!Approve(h)
      PROVE  D!TypeOK' /\ (\A g \in Handlers : D!Working(g)') /\ D!Decision
  BY <1>0, <1>7
  DEF D!Approve, D!MayDecide, D!End, D!Idle, D!TypeOK, D!Status, D!Call,
      D!Working, D!Decision, D!Approves, D!Rests
<1>8. ASSUME NEW h \in Handlers, D!Deny(h)
      PROVE  D!TypeOK' /\ (\A g \in Handlers : D!Working(g)') /\ D!Decision
  BY <1>0, <1>8
  DEF D!Deny, D!End, D!Idle, D!TypeOK, D!Status, D!Call, D!Working,
      D!Decision, D!Closes, D!Rests
<1>9. ASSUME NEW h \in Handlers, D!Leave(h)
      PROVE  D!TypeOK' /\ (\A g \in Handlers : D!Working(g)') /\ D!Decision
  BY <1>0, <1>9
  DEF D!Leave, D!End, D!Idle, D!TypeOK, D!Status, D!Call, D!Working,
      D!Decision, D!Rests
<1>10. D!TypeOK' /\ (\A h \in Handlers : D!Working(h)') /\ D!Decision
  <2>1. CASE UNCHANGED D!vars
    BY <1>1, <2>1 DEF D!Inv
  <2>2. CASE D!Next
    BY <1>2, <1>3, <1>4, <1>5, <1>6, <1>7, <1>8, <1>9, <2>2 DEF D!Next
  <2> QED
    BY <2>1, <2>2
<1>11. ASSUME NEW q \in Few PROVE D!Genuine(q)'
  BY <1>10
  DEF D!Inv, D!Decision, D!Approves, D!Closes, D!Creates, D!Rests, D!Genuine
<1> QED
  BY <1>10, <1>11 DEF D!Inv

(* The invariant holds of the approvals of new devices, for every number   *)
(* of them and of the service's handlers.                                  *)
THEOREM DeviceInvariance == D!Spec => []D!Inv
<1>1. D!Init => D!Inv
  BY DeviceInit
<1>2. D!Inv /\ [D!Next]_(D!vars) => D!Inv'
  BY DeviceStep
<1> QED
  BY <1>1, <1>2, PTL DEF D!Spec

(* The variables stay in their types.                                      *)
THEOREM DeviceTypeCorrect == D!Spec => []D!TypeOK
<1>1. D!Inv => D!TypeOK
  BY DEF D!Inv
<1> QED
  BY <1>1, DeviceInvariance, PTL

-----------------------------------------------------------------------------
\* How the ticket of a request moves when the request does.
LEMMA DeviceTicketMoves ==
  ASSUME D!Inv, D!Inv', NEW q \in Few
  PROVE  /\ D!Rests(q) => D!ticketOf'[q] = D!ticketOf[q] /\ D!holderOf'[q] = D!holderOf[q]
         /\ D!Creates(q) => D!ticketOf'[q] = D!ticketOf[q] /\ D!holderOf'[q] = D!holderOf[q]
         /\ D!Approves(q) => /\ D!ticketOf[q] = "open" /\ D!ticketOf'[q] = "approved"
                             /\ D!holderOf'[q] = x2[q]
         /\ D!Closes(q) => /\ D!ticketOf[q] \in {"open", "approved", "closed"}
                           /\ D!ticketOf'[q] = "closed" /\ D!holderOf'[q] = D!holderOf[q]
<1>1. x1[q] \in D!Status /\ x1'[q] \in D!Status /\ D!Genuine(q) /\ D!Genuine(q)'
  BY DEF D!Inv, D!TypeOK
<1>2. D!holderOf[q] = x5[q].user /\ D!holderOf'[q] = x5'[q].user
  BY DEF D!holderOf
<1>3. /\ x1[q] \in {"none", "PENDING"} => D!ticketOf[q] = "open"
      /\ x1[q] \in {"DENIED", "EXPIRED"} => D!ticketOf[q] = "closed"
      /\ x1[q] = "APPROVED" => D!ticketOf[q] = "approved"
  BY <1>1 DEF D!ticketOf, D!Genuine
<1>4. /\ x1'[q] \in {"none", "PENDING"} => D!ticketOf'[q] = "open"
      /\ x1'[q] \in {"DENIED", "EXPIRED"} => D!ticketOf'[q] = "closed"
      /\ x1'[q] = "APPROVED" => D!ticketOf'[q] = "approved"
  BY <1>1 DEF D!ticketOf, D!Genuine
<1> QED
  BY <1>1, <1>2, <1>3, <1>4
  DEF D!Rests, D!Creates, D!Approves, D!Closes, D!Status

\* A step of the server is a step of the ticket, or none.
LEMMA DeviceTicketStep ==
  ASSUME D!Inv, D!Inv', [D!Next]_(D!vars) PROVE [D!Ticket!Next]_(D!Ticket!vars)
<1>1. /\ D!ticketOf = [q \in Few |-> D!ticketOf[q]]
      /\ D!ticketOf' = [q \in Few |-> D!ticketOf'[q]]
      /\ D!holderOf = [q \in Few |-> D!holderOf[q]]
      /\ D!holderOf' = [q \in Few |-> D!holderOf'[q]]
  BY DEF D!ticketOf, D!holderOf
<1>2. D!Decision
  BY DeviceStep
<1>3. CASE \A q \in Few : D!Rests(q) \/ D!Creates(q)
  <2>1. D!ticketOf' = D!ticketOf /\ D!holderOf' = D!holderOf
    BY <1>1, <1>3, DeviceTicketMoves
  <2> QED
    BY <2>1 DEF D!Ticket!vars
<1>4. ASSUME NEW q \in Few, D!Approves(q) \/ D!Closes(q),
             \A r \in Few \ {q} : D!Rests(r)
      PROVE  [D!Ticket!Next]_(D!Ticket!vars)
  <2>1. \A r \in Few \ {q} : D!ticketOf'[r] = D!ticketOf[r] /\ D!holderOf'[r] = D!holderOf[r]
    BY <1>4, DeviceTicketMoves
  <2>2. CASE D!Approves(q)
    <3>1. /\ D!ticketOf[q] = "open" /\ D!ticketOf'[q] = "approved"
          /\ D!holderOf'[q] = x2[q] /\ x2[q] \in Pair
      BY <2>2, DeviceTicketMoves DEF D!Approves
    <3>2. /\ D!ticketOf' = [D!ticketOf EXCEPT ![q] = "approved"]
          /\ D!holderOf' = [D!holderOf EXCEPT ![q] = x2[q]]
      BY <1>1, <2>1, <3>1
    <3>3. D!Ticket!Approve(q, x2[q])
      BY <3>1, <3>2 DEF D!Ticket!Approve
    <3> QED
      BY <3>1, <3>3 DEF D!Ticket!Next
  <2>3. CASE D!Closes(q)
    <3>1. /\ D!ticketOf[q] \in {"open", "approved", "closed"}
          /\ D!ticketOf'[q] = "closed" /\ D!holderOf'[q] = D!holderOf[q]
      BY <2>3, DeviceTicketMoves
    <3>2. /\ D!ticketOf' = [D!ticketOf EXCEPT ![q] = "closed"]
          /\ D!holderOf' = D!holderOf
      BY <1>1, <2>1, <3>1
    <3>3. CASE D!ticketOf[q] = "closed"
      BY <1>1, <3>2, <3>3 DEF D!Ticket!vars
    <3>4. CASE D!ticketOf[q] # "closed"
      BY <3>1, <3>2, <3>4 DEF D!Ticket!Next, D!Ticket!Close
    <3> QED
      BY <3>3, <3>4
  <2> QED
    BY <1>4, <2>2, <2>3
<1> QED
  BY <1>2, <1>3, <1>4 DEF D!Decision

(* The approval of a new device implements the one-time ticket: approved   *)
(* once, by its owner with the code shown, closed for good once denied or  *)
(* expired. No step of the server, whatever its handlers read before the   *)
(* awaits in between, does anything the ticket does not allow.             *)
THEOREM DeviceTicketIsImplemented == D!Spec => D!TicketsAreImplemented
<1>1. D!Init => D!Ticket!Init
  BY DEF D!Init, D!Ticket!Init, D!ticketOf, D!holderOf, D!NotDecided
<1>2. D!Inv /\ D!Inv' /\ [D!Next]_(D!vars) => [D!Ticket!Next]_(D!Ticket!vars)
  BY DeviceTicketStep
<1> QED
  BY <1>1, <1>2, DeviceInvariance, PTL
  DEF D!Spec, D!TicketsAreImplemented, D!Ticket!Spec

-----------------------------------------------------------------------------
(* Workspaces.                                                             *)

\* With no workspace yet, the invariant holds.
LEMMA WorkspaceInit == ASSUME W!NoneIsNoValue, W!Init PROVE W!Inv
<1>1. \A q \in Few : W!MadeFor(q) = {}
  BY DEF W!NoneIsNoValue, W!Init, W!MadeFor
<1>2. \A i \in Few : W!Joiners(i) = {}
  BY DEF W!NoneIsNoValue, W!Init, W!Joiners
<1>3. W!TypeOK
  BY DEF W!Init, W!TypeOK, W!Space, W!Request, W!Invite, W!Job, W!Idle, W!Roles
<1> QED
  BY <1>1, <1>2, <1>3
  DEF W!NoneIsNoValue, W!Init, W!Inv, W!Entries, W!Unmade, W!Whole, W!Joined,
      W!OutcomesAreTold, W!MembersWereInvited, W!OnePersonalUnlessContested,
      W!Working, W!Apart, W!Idle, W!Settling, W!Reviewing, W!Resolving

\* A step that leaves the tables alone keeps what the invariant says of them.
LEMMA WorkspaceTablesRest ==
  ASSUME W!Inv, UNCHANGED <<W!tables, x8, x9>>, x10 \subseteq x10'
  PROVE  /\ W!Entries' /\ W!Joined' /\ W!OutcomesAreTold' /\ W!MembersWereInvited'
         /\ W!OnePersonalUnlessContested'
<1>1. /\ W!Entries /\ W!Joined /\ W!OutcomesAreTold /\ W!MembersWereInvited
      /\ W!OnePersonalUnlessContested
  BY DEF W!Inv
<1>2. W!Entries' /\ W!Joined'
  BY <1>1 DEF W!Entries, W!Unmade, W!Whole, W!Joined, W!tables
<1>3. W!OutcomesAreTold'
  BY <1>1 DEF W!OutcomesAreTold, W!MadeFor, W!Joiners, W!tables
<1>4. W!MembersWereInvited'
  BY <1>1 DEF W!MembersWereInvited, W!tables
<1>5. W!OnePersonalUnlessContested'
  BY <1>1 DEF W!OnePersonalUnlessContested, W!tables
<1> QED
  BY <1>2, <1>3, <1>4, <1>5

\* Calls that do not move still find what they found.
LEMMA WorkspaceOthersRest ==
  ASSUME W!Inv, UNCHANGED W!tables, x10 \subseteq x10',
         NEW g \in Handlers, x7'[g] = x7[g]
  PROVE  W!Working(g)'
<1>1. W!Working(g)
  BY DEF W!Inv
<1> QED
  BY <1>1 DEF W!Working, W!NoneOwned, W!Personal, W!Pending, W!tables

\* A call that begins, or goes on, without a change of the tables.
LEMMA WorkspaceCallMoves ==
  ASSUME W!Inv, W!TypeOK', NEW h \in Handlers,
         \A g \in Handlers \ {h} : x7'[g] = x7[g],
         UNCHANGED <<W!tables, x8, x9>>, x10 \subseteq x10',
         W!Working(h)',
         \A g \in Handlers \ {h} : W!Apart(g, h)' /\ W!Apart(h, g)'
  PROVE  W!Inv'
<1>1. \A g \in Handlers : W!Working(g)'
  BY WorkspaceOthersRest
<1>2. \A f, g \in Handlers : f # g => W!Apart(f, g)'
  <2> SUFFICES ASSUME NEW f \in Handlers, NEW g \in Handlers, f # g, f # h, g # h
               PROVE  W!Apart(f, g)'
    OBVIOUS
  <2>1. W!Apart(f, g)
    BY DEF W!Inv
  <2> QED
    BY <2>1 DEF W!Apart
<1> QED
  BY <1>1, <1>2, WorkspaceTablesRest DEF W!Inv

\* A call that ends, whatever it did to the tables.
LEMMA WorkspaceCallEnds ==
  ASSUME W!Inv, NEW h \in Handlers, W!End(h), x10' = x10
  PROVE  /\ x7' \in [Handlers -> W!Job]
         /\ \A g \in Handlers \ {h} : x7'[g] = x7[g]
         /\ (\A g \in Handlers \ {h} : W!Working(g)')
               => \A g \in Handlers : W!Working(g)'
         /\ \A f, g \in Handlers : f # g => W!Apart(f, g)'
<1>1. x7 \in [Handlers -> W!Job] /\ W!Idle \in W!Job
  BY DEF W!Inv, W!TypeOK, W!Idle, W!Job
<1>2. x7' \in [Handlers -> W!Job] /\ x7'[h] = W!Idle
      /\ \A g \in Handlers \ {h} : x7'[g] = x7[g]
  BY <1>1 DEF W!End
<1>3. W!Working(h)'
  BY <1>2 DEF W!Working, W!Idle, W!Settling, W!Reviewing, W!Resolving
<1>4. \A f, g \in Handlers : f # g => W!Apart(f, g)'
  <2> SUFFICES ASSUME NEW f \in Handlers, NEW g \in Handlers, f # g
               PROVE  W!Apart(f, g)'
    OBVIOUS
  <2>1. W!Apart(f, g)
    BY DEF W!Inv
  <2> QED
    BY <1>2, <2>1 DEF W!Apart, W!Idle, W!Settling, W!Reviewing, W!Resolving
<1> QED
  BY <1>2, <1>3, <1>4

-----------------------------------------------------------------------------
(* Calls that read and check.                                              *)

\* A sign-up that finds no default workspace keeps the invariant.
LEMMA WorkspaceReadDefaultInv ==
  ASSUME W!NoneIsNoValue, W!Inv, NEW h \in Handlers, NEW u \in People, W!ReadDefault(h, u)
  PROVE  W!Inv'
<1>1. /\ x7[h].pc = "idle" /\ x3[u] = None
      /\ x7' = [x7 EXCEPT ![h] = [pc |-> "find", user |-> u, on |-> None]]
      /\ x10' = IF \E k \in Handlers : x7[k].user = u /\ x7[k].pc \in {"find", "make"}
                      THEN x10 \cup {u} ELSE x10
      /\ UNCHANGED <<W!tables, x8, x9>>
  BY DEF W!ReadDefault, W!Begin
<1>2. /\ x7 \in [Handlers -> W!Job] /\ x10 \subseteq People \cup Few \cup Few
      /\ x3 \in [People -> Other \cup {None}]
  BY DEF W!Inv, W!TypeOK
<1>3. /\ [pc |-> "find", user |-> u, on |-> None] \in W!Job
      /\ x10 \subseteq x10'
      /\ x10' \subseteq People \cup Few \cup Few
  BY <1>1, <1>2 DEF W!Job
<1>4. /\ x7'[h] = [pc |-> "find", user |-> u, on |-> None]
      /\ \A g \in Handlers \ {h} : x7'[g] = x7[g]
  BY <1>1, <1>2
<1>5. W!TypeOK'
  BY <1>1, <1>2, <1>3 DEF W!Inv, W!TypeOK, W!tables
<1>6. u \in x10 \/ W!NoneOwned(u)
  BY <1>1 DEF W!Inv, W!OnePersonalUnlessContested, W!NoneOwned, W!NoneIsNoValue
<1>7. W!Working(h)'
  BY <1>1, <1>3, <1>4, <1>6
  DEF W!Working, W!Settling, W!Reviewing, W!Resolving, W!NoneOwned, W!tables
<1>8. ASSUME NEW g \in Handlers \ {h}
      PROVE  W!Apart(g, h)' /\ W!Apart(h, g)'
  BY <1>1, <1>4 DEF W!Apart, W!Settling, W!Reviewing, W!Resolving
<1> QED
  BY <1>1, <1>3, <1>4, <1>5, <1>7, <1>8, WorkspaceCallMoves

\* A review that begins.
LEMMA WorkspaceReviewBegins ==
  ASSUME W!Inv, NEW h \in Handlers, NEW a \in People, NEW q \in Few,
         NEW pc \in W!Reviewing, x7[h].pc = "idle", W!Pending(q), W!Begin(h, pc, a, q),
         W!Contest(q), UNCHANGED <<W!tables, x8, x9>>
  PROVE  W!Inv'
<1>1. /\ x7' = [x7 EXCEPT ![h] = [pc |-> pc, user |-> a, on |-> q]]
      /\ x10' = IF W!Past(q) # {} THEN x10 \cup {q} ELSE x10
  BY DEF W!Begin, W!Contest
<1>2. /\ x7 \in [Handlers -> W!Job] /\ x10 \subseteq People \cup Few \cup Few
  BY DEF W!Inv, W!TypeOK
<1>3. /\ [pc |-> pc, user |-> a, on |-> q] \in W!Job
      /\ x10 \subseteq x10'
      /\ x10' \subseteq People \cup Few \cup Few
  BY <1>1, <1>2 DEF W!Job, W!Reviewing
<1>4. /\ x7'[h] = [pc |-> pc, user |-> a, on |-> q]
      /\ \A g \in Handlers \ {h} : x7'[g] = x7[g]
  BY <1>1, <1>2
<1>5. W!TypeOK'
  BY <1>1, <1>2, <1>3 DEF W!Inv, W!TypeOK, W!tables
<1>6. W!Working(h)'
  BY <1>4
  DEF W!Working, W!Settling, W!Reviewing, W!Resolving, W!Pending, W!tables
<1>7. ASSUME NEW g \in Handlers \ {h}
      PROVE  W!Apart(g, h)' /\ W!Apart(h, g)'
  BY <1>1, <1>4 DEF W!Apart, W!Past, W!Settling, W!Reviewing, W!Resolving
<1> QED
  BY <1>3, <1>4, <1>5, <1>6, <1>7, WorkspaceCallMoves

\* An approval that passes its check keeps the invariant.
LEMMA WorkspaceReadApproveInv ==
  ASSUME W!Inv, NEW h \in Handlers, NEW a \in People, NEW q \in Few,
         W!ReadApprove(h, a, q)
  PROVE  W!Inv'
BY WorkspaceReviewBegins DEF W!ReadApprove, W!Reviewing

\* A rejection that passes its check keeps the invariant.
LEMMA WorkspaceReadRejectInv ==
  ASSUME W!Inv, NEW h \in Handlers, NEW a \in People, NEW q \in Few,
         W!ReadReject(h, a, q)
  PROVE  W!Inv'
BY WorkspaceReviewBegins DEF W!ReadReject, W!Reviewing

\* The resolution of an invite that begins.
LEMMA WorkspaceResolutionBegins ==
  ASSUME W!Inv, NEW h \in Handlers, NEW u \in People, NEW i \in Few,
         NEW pc \in W!Resolving, x7[h].pc = "idle", x5[i].status = "PENDING",
         pc = "accept" => u = x5[i].to, W!Begin(h, pc, u, i),
         W!Contest(i), UNCHANGED <<W!tables, x8, x9>>
  PROVE  W!Inv'
<1>1. /\ x7' = [x7 EXCEPT ![h] = [pc |-> pc, user |-> u, on |-> i]]
      /\ x10' = IF W!Past(i) # {} THEN x10 \cup {i} ELSE x10
  BY DEF W!Begin, W!Contest
<1>2. /\ x7 \in [Handlers -> W!Job] /\ x10 \subseteq People \cup Few \cup Few
  BY DEF W!Inv, W!TypeOK
<1>3. /\ [pc |-> pc, user |-> u, on |-> i] \in W!Job
      /\ x10 \subseteq x10'
      /\ x10' \subseteq People \cup Few \cup Few
  BY <1>1, <1>2 DEF W!Job, W!Resolving
<1>4. /\ x7'[h] = [pc |-> pc, user |-> u, on |-> i]
      /\ \A g \in Handlers \ {h} : x7'[g] = x7[g]
  BY <1>1, <1>2
<1>5. W!TypeOK'
  BY <1>1, <1>2, <1>3 DEF W!Inv, W!TypeOK, W!tables
<1>6. W!Working(h)'
  BY <1>4
  DEF W!Working, W!Settling, W!Reviewing, W!Resolving, W!Pending, W!tables
<1>7. ASSUME NEW g \in Handlers \ {h}
      PROVE  W!Apart(g, h)' /\ W!Apart(h, g)'
  BY <1>1, <1>4 DEF W!Apart, W!Past, W!Settling, W!Reviewing, W!Resolving
<1> QED
  BY <1>3, <1>4, <1>5, <1>6, <1>7, WorkspaceCallMoves

\* An acceptance that passes its checks keeps the invariant.
LEMMA WorkspaceReadInviteInv ==
  ASSUME W!Inv, NEW h \in Handlers, NEW u \in People, NEW i \in Few,
         W!ReadInvite(h, u, i)
  PROVE  W!Inv'
BY WorkspaceResolutionBegins DEF W!ReadInvite, W!Resolving

\* A revocation that passes its checks keeps the invariant.
LEMMA WorkspaceReadRevokeInv ==
  ASSUME W!Inv, NEW h \in Handlers, NEW u \in People, NEW i \in Few,
         W!ReadRevoke(h, u, i)
  PROVE  W!Inv'
BY WorkspaceResolutionBegins DEF W!ReadRevoke, W!Resolving

\* Looking for a personal workspace keeps the invariant.
LEMMA WorkspaceFindPersonalInv ==
  ASSUME W!Inv, NEW h \in Handlers, W!FindPersonal(h)
  PROVE  W!Inv'
<1>0. PICK u \in People : u = x7[h].user
  BY DEF W!FindPersonal, W!Inv, W!Working
<1>1. /\ x7[h].pc = "find" /\ UNCHANGED <<W!tables, x8, x9>>
      /\ x10' = x10 /\ x7 \in [Handlers -> W!Job] /\ x7[h] \in W!Job
      /\ u \in x10 \/ W!NoneOwned(u)
  BY <1>0 DEF W!FindPersonal, W!Inv, W!TypeOK, W!Working, W!Settling, W!history
<1>2. ASSUME NEW pc \in {"make", "repair"}, NEW x \in Other \cup {x7[h].on},
             pc = "repair" => x \in W!Personal(u),
             pc = "make" => W!Personal(u) = {},
             x7' = [x7 EXCEPT ![h] = [pc |-> pc, user |-> u, on |-> x]]
      PROVE  W!Inv'
  <2>1. /\ x7'[h] = [pc |-> pc, user |-> u, on |-> x]
        /\ \A g \in Handlers \ {h} : x7'[g] = x7[g]
        /\ x7' \in [Handlers -> W!Job]
    BY <1>0, <1>1, <1>2 DEF W!Job
  <2>2. W!TypeOK'
    BY <1>1, <2>1 DEF W!Inv, W!TypeOK, W!tables
  <2>3. W!Working(h)'
    <3>1. W!Personal(u)' = W!Personal(u)
      BY <1>1 DEF W!Personal, W!tables
    <3>2. W!NoneOwned(u) => W!NoneOwned(u)'
      BY <1>1 DEF W!NoneOwned, W!tables
    <3> QED
      BY <1>1, <1>2, <2>1, <3>1, <3>2
      DEF W!Working, W!Settling, W!Reviewing, W!Resolving
  <2>4. ASSUME NEW g \in Handlers \ {h}
        PROVE  W!Apart(g, h)' /\ W!Apart(h, g)'
    <3>1. W!Apart(g, h) /\ W!Apart(h, g) /\ W!Working(g)
      BY DEF W!Inv
    <3> QED
      BY <1>0, <1>1, <1>2, <2>1, <3>1
      DEF W!Apart, W!Working, W!Settling, W!Reviewing, W!Resolving
  <2> QED
    BY <1>1, <2>1, <2>2, <2>3, <2>4, WorkspaceCallMoves
<1>3. CASE W!Personal(u) = {}
  <2>1. x7' = [x7 EXCEPT ![h] = [x7[h] EXCEPT !.pc = "make"]]
    BY <1>0, <1>3 DEF W!FindPersonal, W!Goto
  <2>2. [x7[h] EXCEPT !.pc = "make"] = [pc |-> "make", user |-> u, on |-> x7[h].on]
    BY <1>0, <1>1 DEF W!Job
  <2> QED
    BY <1>2, <1>3, <2>1, <2>2
<1>4. CASE W!Personal(u) # {}
  <2>1. PICK w \in W!Personal(u) : W!Begin(h, "repair", u, w)
    BY <1>0, <1>4 DEF W!FindPersonal
  <2>2. w \in Other
    BY DEF W!Personal
  <2> QED
    BY <1>2, <2>1, <2>2 DEF W!Begin
<1> QED
  BY <1>3, <1>4

-----------------------------------------------------------------------------
(* Calls that commit.                                                      *)

\* A call that is cut short keeps the invariant.
LEMMA WorkspaceStopInv ==
  ASSUME W!Inv, NEW h \in Handlers, W!Stop(h)
  PROVE  W!Inv'
<1>1. W!End(h) /\ UNCHANGED <<W!tables, W!history>>
  BY DEF W!Stop
<1>2. \A g \in Handlers \ {h} : x7'[g] = x7[g]
  BY <1>1, WorkspaceCallEnds DEF W!history
<1>3. \A g \in Handlers \ {h} : W!Working(g)'
  BY <1>1, <1>2, WorkspaceOthersRest DEF W!history
<1>4. W!TypeOK'
  BY <1>1, WorkspaceCallEnds DEF W!Inv, W!TypeOK, W!tables, W!history
<1> QED
  BY <1>1, <1>3, <1>4, WorkspaceCallEnds, WorkspaceTablesRest
  DEF W!Inv, W!history

\* Pointing at the workspace that was found keeps the invariant.
LEMMA WorkspaceRepairDefaultInv ==
  ASSUME W!Inv, NEW h \in Handlers, W!RepairDefault(h)
  PROVE  W!Inv'
<1>0. PICK u \in People : u = x7[h].user
  BY DEF W!RepairDefault, W!Inv, W!Working
<1>1. /\ W!End(h) /\ x7[h].pc = "repair"
      /\ x3' = [x3 EXCEPT ![u] = x7[h].on]
      /\ UNCHANGED <<x1, x2, x4, x5, x6, x8, x9, x10>>
  BY <1>0 DEF W!RepairDefault, W!history
<1>2. /\ x7[h].on \in Other /\ x3 \in [People -> Other \cup {None}]
      /\ u \in x10 \/ W!NoneOwned(u)
  BY <1>0, <1>1 DEF W!Inv, W!TypeOK, W!Working, W!Personal, W!Settling
<1>3. \A g \in Handlers \ {h} : x7'[g] = x7[g]
  BY <1>1, WorkspaceCallEnds
<1>4. ASSUME NEW g \in Handlers \ {h}
      PROVE  W!Working(g)'
  <2>1. W!Working(g)
    BY DEF W!Inv
  <2> QED
    BY <1>1, <1>3, <2>1 DEF W!Working, W!NoneOwned, W!Personal, W!Pending
<1>5. W!TypeOK'
  BY <1>1, <1>2, WorkspaceCallEnds DEF W!Inv, W!TypeOK
<1>6. W!OnePersonalUnlessContested'
  BY <1>1, <1>2 DEF W!Inv, W!OnePersonalUnlessContested, W!NoneOwned
<1>7. W!Entries' /\ W!Joined'
  BY <1>1 DEF W!Inv, W!Entries, W!Unmade, W!Whole, W!Joined
<1>8. W!OutcomesAreTold'
  BY <1>1 DEF W!Inv, W!OutcomesAreTold, W!MadeFor, W!Joiners
<1>9. W!MembersWereInvited'
  <2>1. W!MembersWereInvited
    BY DEF W!Inv
  <2> QED
    BY <1>1, <2>1 DEF W!MembersWereInvited
<1> QED
  BY <1>1, <1>4, <1>5, <1>6, <1>7, <1>8, <1>9, WorkspaceCallEnds DEF W!Inv

\* A workspace that is made has its owner in it, and nobody else is touched.
LEMMA WorkspaceSpaceMade ==
  ASSUME W!NoneIsNoValue, W!Inv, NEW w \in Other, NEW u \in People,
         NEW type \in {"PERSONAL", "BUSINESS"}, W!MakeSpace(w, type, u),
         UNCHANGED <<x5, x9>>
  PROVE  /\ x1' \in [Other -> W!Space]
         /\ x2' \in [Other \X People -> W!Roles \cup {None}]
         /\ W!Joined' /\ W!MembersWereInvited'
         /\ \A i \in Few : W!Whole(i)'
         /\ x1[w].type = "none" /\ x1'[w].type # "none"
         /\ x1'[w] = [type |-> type, owner |-> u]
         /\ \A x \in Other \ {w} : x1'[x] = x1[x]
         /\ \A x \in Other \ {w}, v \in People : x2'[<<x, v>>] = x2[<<x, v>>]
         /\ \A v \in People : W!Personal(v) \subseteq W!Personal(v)'
         /\ \A v \in People : W!NoneOwned(v) /\ ~(type = "PERSONAL" /\ u = v)
                                => W!NoneOwned(v)'
<1>1. /\ x1[w].type = "none"
      /\ x1' = [x1 EXCEPT ![w] = [type |-> type, owner |-> u]]
      /\ x2' = [x2 EXCEPT ![<<w, u>>] = "OWNER"]
  BY DEF W!MakeSpace
<1>2. /\ x1 \in [Other -> W!Space] /\ x2 \in [Other \X People -> W!Roles \cup {None}]
      /\ W!Entries /\ W!Joined /\ W!MembersWereInvited
  BY DEF W!Inv, W!TypeOK
<1>3. /\ x1' \in [Other -> W!Space]
      /\ x1'[w] = [type |-> type, owner |-> u]
      /\ \A x \in Other \ {w} : x1'[x] = x1[x]
  BY <1>1, <1>2 DEF W!Space
<1>4. x2' \in [Other \X People -> W!Roles \cup {None}]
  BY <1>1, <1>2 DEF W!Roles
<1>5. /\ x2'[<<w, u>>] = "OWNER"
      /\ \A x \in Other, v \in People : x # w \/ v # u => x2'[<<x, v>>] = x2[<<x, v>>]
  BY <1>1, <1>2
<1>6. \A v \in People : x2[<<w, v>>] = None
  BY <1>1, <1>2 DEF W!Entries, W!Unmade
<1>7. W!Joined'
  BY <1>2, <1>5, <1>6 DEF W!Joined
<1>8. W!MembersWereInvited'
  <2> SUFFICES ASSUME NEW x \in Other, NEW v \in People, x2'[<<x, v>>] # None
               PROVE  \/ x1'[x].owner = v /\ x2'[<<x, v>>] = "OWNER"
                      \/ \E i \in Few :
                            /\ x9'[<<x, v>>] = i
                            /\ x5'[i].space = x /\ x5'[i].to = v
                            /\ x5'[i].role = x2'[<<x, v>>]
    BY DEF W!MembersWereInvited
  <2>1. CASE x = w
    BY <1>3, <1>5, <1>6, <2>1
  <2>2. CASE x # w
    <3>1. x2'[<<x, v>>] = x2[<<x, v>>] /\ x1'[x] = x1[x]
      BY <1>3, <1>5, <2>2
    <3> QED
      BY <1>2, <3>1 DEF W!MembersWereInvited
  <2> QED
    BY <2>1, <2>2
<1>9. \A i \in Few : W!Whole(i)'
  BY <1>1, <1>2, <1>3 DEF W!Entries, W!Whole
<1>10. \A v \in People : W!Personal(v) \subseteq W!Personal(v)'
  BY <1>1, <1>3, <1>5 DEF W!Personal
<1>11. \A v \in People : W!NoneOwned(v) /\ ~(type = "PERSONAL" /\ u = v)
                           => W!NoneOwned(v)'
  BY <1>3 DEF W!NoneOwned
<1> QED
  BY <1>1, <1>3, <1>4, <1>5, <1>7, <1>8, <1>9, <1>10, <1>11

\* Making a personal workspace keeps the invariant.
LEMMA WorkspaceMakePersonalInv ==
  ASSUME W!NoneIsNoValue, W!Inv, NEW h \in Handlers, W!MakePersonal(h)
  PROVE  W!Inv'
<1>0. PICK u \in People : u = x7[h].user
  BY DEF W!MakePersonal, W!Inv, W!Working
<1>1. PICK w \in Other : /\ W!MakeSpace(w, "PERSONAL", u)
                         /\ x3' = [x3 EXCEPT ![u] = w]
  BY <1>0 DEF W!MakePersonal
<1>2. /\ W!End(h) /\ x7[h].pc = "make"
      /\ UNCHANGED <<x4, x5, x6, x8, x9, x10>>
  BY DEF W!MakePersonal, W!history
<1>3. /\ x3 \in [People -> Other \cup {None}]
      /\ x8 \in [Other -> Few \cup {None}]
      /\ u \in x10 \/ W!NoneOwned(u)
      /\ W!Entries
  BY <1>0, <1>2 DEF W!Inv, W!TypeOK, W!Working, W!Settling
<1>4. \A g \in Handlers \ {h} : x7'[g] = x7[g]
  BY <1>2, WorkspaceCallEnds
<1>m. /\ x1[w].type = "none" /\ x1'[w].type # "none"
      /\ x1'[w] = [type |-> "PERSONAL", owner |-> u]
      /\ \A x \in Other \ {w} : x1'[x] = x1[x]
      /\ \A x \in Other \ {w}, v \in People : x2'[<<x, v>>] = x2[<<x, v>>]
      /\ \A v \in People : W!Personal(v) \subseteq W!Personal(v)'
      /\ \A v \in People \ {u} : W!NoneOwned(v) => W!NoneOwned(v)'
      /\ \A i \in Few : W!Whole(i)'
  BY <1>1, <1>2, WorkspaceSpaceMade
<1>5. ASSUME NEW g \in Handlers \ {h}
      PROVE  W!Working(g)'
  <2>1. W!Working(g) /\ W!Apart(h, g)
    BY DEF W!Inv
  <2>2. CASE x7[g].pc \in W!Settling
    <3>1. PICK v \in People : v = x7[g].user
      BY <2>1, <2>2 DEF W!Working, W!Settling
    <3>2. v \in x10 \/ W!NoneOwned(v)'
      BY <1>0, <1>2, <1>m, <2>1, <2>2, <3>1 DEF W!Apart, W!Working
    <3>3. x7[g].pc = "repair" => x7[g].on \in W!Personal(v)'
      BY <1>m, <2>1, <3>1 DEF W!Working
    <3> QED
      BY <1>2, <1>4, <2>2, <3>1, <3>2, <3>3
      DEF W!Working, W!Settling, W!Reviewing, W!Resolving
  <2>3. CASE x7[g].pc \notin W!Settling
    BY <1>2, <1>4, <2>1, <2>3 DEF W!Working, W!Settling, W!Pending
  <2> QED
    BY <2>2, <2>3
<1>6. W!TypeOK'
  BY <1>1, <1>2, <1>3, WorkspaceCallEnds, WorkspaceSpaceMade
  DEF W!Inv, W!TypeOK
<1>7. W!Entries'
  <2>1. ASSUME NEW x \in Other
        PROVE  W!Unmade(x)'
    BY <1>m, <1>2, <1>3 DEF W!Entries, W!Unmade
  <2> QED
    BY <1>2, <1>3, <1>m, <2>1 DEF W!Entries
<1>8. W!OnePersonalUnlessContested'
  <2> SUFFICES ASSUME NEW v \in People \ x10, NEW x \in Other,
                      x1'[x] = [type |-> "PERSONAL", owner |-> v]
               PROVE  x3'[v] = x
    BY <1>2 DEF W!OnePersonalUnlessContested
  <2>1. CASE x = w
    BY <1>1, <1>3, <1>m, <2>1
  <2>2. CASE x # w
    <3>1. x1[x] = [type |-> "PERSONAL", owner |-> v]
      BY <1>m, <2>2
    <3>2. v # u /\ x3[v] = x
      BY <1>3, <3>1 DEF W!NoneOwned, W!Inv, W!OnePersonalUnlessContested
    <3> QED
      BY <1>1, <1>3, <3>2
  <2> QED
    BY <2>1, <2>2
<1>9. W!OutcomesAreTold'
  BY <1>2 DEF W!Inv, W!OutcomesAreTold, W!MadeFor, W!Joiners
<1>10. W!Joined' /\ W!MembersWereInvited'
  BY <1>1, <1>2, WorkspaceSpaceMade
<1> QED
  BY <1>2, <1>5, <1>6, <1>7, <1>8, <1>9, <1>10, WorkspaceCallEnds DEF W!Inv

\* A request that is reviewed is still a request, with who asked for it.
LEMMA WorkspaceReviewType ==
  ASSUME W!Inv, NEW h \in Handlers, NEW q \in Few,
         NEW s \in {"APPROVED", "REJECTED"}, NEW a \in People, W!Review(q, s, a)
  PROVE  /\ x4' \in [Few -> W!Request]
         /\ x4'[q].status = s /\ x4'[q].by = x4[q].by
         /\ \A x \in Few \ {q} : x4'[x] = x4[x]
<1>1. /\ x4 \in [Few -> W!Request] /\ x4[q] \in W!Request
      /\ x4' = [x4 EXCEPT ![q] = [x4[q] EXCEPT !.status = s, !.reviewer = a]]
  BY DEF W!Inv, W!TypeOK, W!Review
<1>2. PICK r : r = [x4[q] EXCEPT !.status = s, !.reviewer = a]
  OBVIOUS
<1>3. r \in W!Request /\ r.status = s /\ r.by = x4[q].by
  BY <1>1, <1>2 DEF W!Request
<1> QED
  BY <1>1, <1>2, <1>3

\* Committing a rejection keeps the invariant.
LEMMA WorkspaceCommitRejectInv ==
  ASSUME W!Inv, NEW h \in Handlers, W!CommitReject(h)
  PROVE  W!Inv'
<1>0. PICK q \in Few, a \in People : q = x7[h].on /\ a = x7[h].user
  BY DEF W!CommitReject, W!Inv, W!Working, W!Reviewing
<1>1. /\ W!End(h) /\ x7[h].pc = "reject" /\ W!Review(q, "REJECTED", a)
      /\ UNCHANGED <<x1, x2, x3, x5, x6, x8, x9, x10>>
  BY <1>0 DEF W!CommitReject, W!history
<1>2. /\ W!Entries /\ W!OutcomesAreTold
      /\ W!Pending(q) \/ q \in x10
      /\ x4[q].status # "none"
  BY <1>0, <1>1 DEF W!Inv, W!Working, W!Reviewing
<1>3. \A g \in Handlers \ {h} : x7'[g] = x7[g]
  BY <1>1, WorkspaceCallEnds
<1>4. /\ x4' \in [Few -> W!Request]
      /\ x4'[q].status = "REJECTED" /\ x4'[q].by = x4[q].by
      /\ \A x \in Few \ {q} : x4'[x] = x4[x]
  BY <1>1, WorkspaceReviewType
<1>5. ASSUME NEW g \in Handlers \ {h}
      PROVE  W!Working(g)'
  <2>1. W!Working(g) /\ W!Apart(h, g)
    BY DEF W!Inv
  <2>2. CASE x7[g].pc \in W!Reviewing
    <3>1. PICK x \in Few : x = x7[g].on
      BY <2>1, <2>2 DEF W!Working
    <3>2. x4'[x].status # "none" /\ (W!Pending(x)' \/ x \in x10)
      BY <1>0, <1>1, <1>2, <1>4, <2>1, <2>2, <3>1
      DEF W!Working, W!Apart, W!Pending, W!Reviewing
    <3> QED
      BY <1>1, <1>3, <2>1, <2>2, <3>1, <3>2
      DEF W!Working, W!Settling, W!Reviewing, W!Resolving, W!NoneOwned,
          W!Personal
  <2>3. CASE x7[g].pc \notin W!Reviewing
    BY <1>1, <1>3, <2>1, <2>3 DEF W!Working, W!NoneOwned, W!Personal
  <2> QED
    BY <2>2, <2>3
<1>6. W!TypeOK'
  BY <1>1, <1>4, WorkspaceCallEnds DEF W!Inv, W!TypeOK
<1>7. W!Entries'
  BY <1>1, <1>2, <1>4 DEF W!Entries, W!Unmade, W!Whole
<1>8. W!OutcomesAreTold'
  BY <1>1, <1>2, <1>4 DEF W!OutcomesAreTold, W!MadeFor, W!Joiners, W!Pending
<1>9. W!Joined'
  BY <1>1 DEF W!Inv, W!Joined
<1>10. W!MembersWereInvited'
  <2>1. W!MembersWereInvited
    BY DEF W!Inv
  <2> QED
    BY <1>1, <2>1 DEF W!MembersWereInvited
<1>11. W!OnePersonalUnlessContested'
  BY <1>1 DEF W!Inv, W!OnePersonalUnlessContested
<1> QED
  BY <1>1, <1>5, <1>6, <1>7, <1>8, <1>9, <1>10, <1>11, WorkspaceCallEnds
  DEF W!Inv

\* Committing an approval, which makes a workspace, keeps the invariant.
LEMMA WorkspaceCommitApproveInv ==
  ASSUME W!NoneIsNoValue, W!Inv, NEW h \in Handlers, W!CommitApprove(h)
  PROVE  W!Inv'
<1>0. PICK q \in Few, a \in People, u \in People :
         q = x7[h].on /\ a = x7[h].user /\ u = x4[q].by
  BY DEF W!CommitApprove, W!Inv, W!Working, W!Reviewing, W!Entries
<1>1. PICK w \in Other : /\ W!MakeSpace(w, "BUSINESS", u)
                         /\ x8' = [x8 EXCEPT ![w] = q]
  BY <1>0 DEF W!CommitApprove
<1>2. /\ W!End(h) /\ x7[h].pc = "approve" /\ W!Review(q, "APPROVED", a)
      /\ UNCHANGED <<x3, x5, x6, x9, x10>>
  BY <1>0 DEF W!CommitApprove, W!history
<1>3. /\ W!Entries /\ W!OutcomesAreTold
      /\ W!Pending(q) \/ q \in x10
      /\ x4[q].status # "none"
      /\ x8 \in [Other -> Few \cup {None}]
  BY <1>0, <1>2 DEF W!Inv, W!Working, W!Reviewing, W!TypeOK
<1>4. \A g \in Handlers \ {h} : x7'[g] = x7[g]
  BY <1>2, WorkspaceCallEnds
<1>5. /\ x4' \in [Few -> W!Request]
      /\ x4'[q].status = "APPROVED" /\ x4'[q].by = x4[q].by
      /\ \A x \in Few \ {q} : x4'[x] = x4[x]
  BY <1>2, WorkspaceReviewType
<1>6. /\ x1[w].type = "none" /\ x1'[w].type # "none"
      /\ x1'[w] = [type |-> "BUSINESS", owner |-> u]
      /\ \A x \in Other \ {w} : x1'[x] = x1[x]
      /\ \A x \in Other \ {w}, v \in People : x2'[<<x, v>>] = x2[<<x, v>>]
      /\ \A v \in People : W!Personal(v) \subseteq W!Personal(v)'
      /\ \A v \in People : W!NoneOwned(v) => W!NoneOwned(v)'
      /\ \A i \in Few : W!Whole(i)'
  BY <1>1, <1>2, WorkspaceSpaceMade
<1>7. ASSUME NEW g \in Handlers \ {h}
      PROVE  W!Working(g)'
  <2>1. W!Working(g) /\ W!Apart(h, g)
    BY DEF W!Inv
  <2>2. CASE x7[g].pc \in W!Reviewing
    <3>1. PICK x \in Few : x = x7[g].on
      BY <2>1, <2>2 DEF W!Working
    <3>2. x4'[x].status # "none" /\ (W!Pending(x)' \/ x \in x10)
      BY <1>0, <1>2, <1>3, <1>5, <2>1, <2>2, <3>1
      DEF W!Working, W!Apart, W!Pending, W!Reviewing
    <3> QED
      BY <1>2, <1>4, <2>1, <2>2, <3>1, <3>2
      DEF W!Working, W!Settling, W!Reviewing, W!Resolving
  <2>3. CASE x7[g].pc \in W!Settling
    <3>1. PICK v \in People : v = x7[g].user
      BY <2>1, <2>3 DEF W!Working, W!Settling
    <3> QED
      BY <1>2, <1>4, <1>6, <2>1, <2>3, <3>1
      DEF W!Working, W!Settling, W!Reviewing, W!Resolving
  <2>4. CASE x7[g].pc \notin W!Reviewing \cup W!Settling
    BY <1>2, <1>4, <2>1, <2>4 DEF W!Working, W!Settling
  <2> QED
    BY <2>2, <2>3, <2>4
<1>8. W!TypeOK'
  <2>1. x8' \in [Other -> Few \cup {None}]
    BY <1>1, <1>3
  <2>2. x1' \in [Other -> W!Space] /\ x2' \in [Other \X People -> W!Roles \cup {None}]
    BY <1>1, <1>2, WorkspaceSpaceMade
  <2> QED
    BY <1>2, <1>5, <2>1, <2>2, WorkspaceCallEnds DEF W!Inv, W!TypeOK
<1>9. W!Entries'
  <2>1. ASSUME NEW x \in Other
        PROVE  W!Unmade(x)'
    BY <1>1, <1>3, <1>6 DEF W!Entries, W!Unmade
  <2> QED
    BY <1>0, <1>3, <1>5, <1>6, <2>1 DEF W!Entries
<1>10. W!OutcomesAreTold'
  <2>1. \A i \in Few : W!Joiners(i)' = W!Joiners(i)
    BY <1>2 DEF W!Joiners
  <2>2. x8[w] = None
    BY <1>3, <1>6 DEF W!Entries, W!Unmade
  <2>3. W!MadeFor(q)' = W!MadeFor(q) \cup {w}
    BY <1>1, <1>3 DEF W!MadeFor
  <2>4. \A x \in Few \ {q} : W!MadeFor(x)' = W!MadeFor(x)
    BY <1>1, <1>3, <2>2 DEF W!MadeFor, W!NoneIsNoValue
  <2>5. q \notin x10 => W!MadeFor(q)' = {w}
    BY <1>3, <2>3 DEF W!OutcomesAreTold, W!Pending
  <2> QED
    BY <1>2, <1>3, <1>5, <2>1, <2>4, <2>5 DEF W!OutcomesAreTold
<1>11. W!Joined' /\ W!MembersWereInvited'
  BY <1>1, <1>2, WorkspaceSpaceMade
<1>12. W!OnePersonalUnlessContested'
  BY <1>2, <1>6 DEF W!Inv, W!OnePersonalUnlessContested
<1> QED
  BY <1>2, <1>7, <1>8, <1>9, <1>10, <1>11, <1>12, WorkspaceCallEnds DEF W!Inv

\* The invite of a call that ends gets a status, and nothing else changes.
LEMMA WorkspaceInviteType ==
  ASSUME W!Inv, NEW i \in Few,
         NEW s \in {"ACCEPTED", "EXPIRED", "REVOKED"}, W!Resolve(i, s)
  PROVE  /\ x5' \in [Few -> W!Invite]
         /\ x5'[i].status = s
         /\ \A x \in Few \ {i} : x5'[x] = x5[x]
         /\ \A x \in Few : /\ x5'[x].space = x5[x].space
                           /\ x5'[x].to = x5[x].to
                           /\ x5'[x].role = x5[x].role
<1>1. /\ x5 \in [Few -> W!Invite] /\ x5[i] \in W!Invite
      /\ x5' = [x5 EXCEPT ![i] = [x5[i] EXCEPT !.status = s]]
  BY DEF W!Inv, W!TypeOK, W!Resolve
<1>2. PICK r : r = [x5[i] EXCEPT !.status = s]
  OBVIOUS
<1>3. /\ r \in W!Invite /\ r.status = s /\ r.space = x5[i].space
      /\ r.to = x5[i].to /\ r.role = x5[i].role
  BY <1>1, <1>2 DEF W!Invite
<1> QED
  BY <1>1, <1>2, <1>3

\* What other calls know when an invite is resolved.
LEMMA WorkspaceOthersResolve ==
  ASSUME W!Inv, NEW h \in Handlers, x7[h].pc \in W!Resolving, NEW i \in Few,
         i = x7[h].on, NEW s \in {"ACCEPTED", "EXPIRED", "REVOKED"}, W!Resolve(i, s),
         UNCHANGED <<x1, x4, x10>>,
         \A v \in People : W!Personal(v) \subseteq W!Personal(v)',
         NEW g \in Handlers \ {h}, x7'[g] = x7[g]
  PROVE  W!Working(g)'
<1>1. W!Working(g) /\ W!Apart(h, g) /\ W!Working(h)
  BY DEF W!Inv
<1>2. /\ x5'[i].status = s
      /\ \A x \in Few \ {i} : x5'[x] = x5[x]
      /\ \A x \in Few : x5'[x].to = x5[x].to
  BY WorkspaceInviteType
<1>3. CASE x7[g].pc \in W!Resolving
  <2>1. PICK x \in Few : x = x7[g].on
    BY <1>1, <1>3 DEF W!Working
  <2>2. /\ x5'[x].status # "none"
        /\ x5'[x].status = "PENDING" \/ x \in x10
        /\ x7[g].pc = "accept" => x7[g].user = x5'[x].to
    BY <1>1, <1>2, <1>3, <2>1 DEF W!Working, W!Apart
  <2> QED
    BY <1>1, <1>3, <2>1, <2>2
    DEF W!Working, W!Settling, W!Reviewing, W!Resolving
<1>4. CASE x7[g].pc \in W!Settling
  <2>1. PICK v \in People : v = x7[g].user
    BY <1>1, <1>4 DEF W!Working, W!Settling
  <2>2. W!NoneOwned(v) => W!NoneOwned(v)'
    BY DEF W!NoneOwned
  <2> QED
    BY <1>1, <1>4, <2>1, <2>2
    DEF W!Working, W!Settling, W!Reviewing, W!Resolving
<1>5. CASE x7[g].pc \notin W!Resolving \cup W!Settling
  BY <1>1, <1>5 DEF W!Working, W!Resolving, W!Settling, W!Reviewing, W!Pending
<1> QED
  BY <1>3, <1>4, <1>5

\* An invite that is turned down, or has expired, lets nobody in.
LEMMA WorkspaceInviteCloses ==
  ASSUME W!Inv, NEW h \in Handlers, x7[h].pc \in W!Resolving, W!End(h),
         NEW s \in {"EXPIRED", "REVOKED"}, W!Resolve(x7[h].on, s),
         UNCHANGED <<x1, x2, x3, x4, x6, W!history>>
  PROVE  W!Inv'
<1>0. PICK i \in Few : i = x7[h].on
  BY DEF W!Inv, W!Working
<1>1. /\ W!Entries /\ W!Joined /\ W!OutcomesAreTold /\ W!MembersWereInvited
      /\ x5[i].status = "PENDING" \/ i \in x10
      /\ x5[i].status # "none"
      /\ W!Resolve(i, s)
      /\ UNCHANGED <<x8, x9, x10>>
  BY <1>0 DEF W!Inv, W!Working, W!history
<1>2. \A g \in Handlers \ {h} : x7'[g] = x7[g]
  BY <1>1, WorkspaceCallEnds
<1>3. /\ x5' \in [Few -> W!Invite]
      /\ x5'[i].status = s
      /\ \A x \in Few \ {i} : x5'[x] = x5[x]
      /\ \A x \in Few : /\ x5'[x].space = x5[x].space
                        /\ x5'[x].to = x5[x].to
                        /\ x5'[x].role = x5[x].role
  BY <1>1, WorkspaceInviteType
<1>4. \A v \in People : W!Personal(v)' = W!Personal(v)
  BY DEF W!Personal
<1>5. \A g \in Handlers \ {h} : W!Working(g)'
  BY <1>0, <1>1, <1>2, <1>4, WorkspaceOthersResolve
<1>6. W!TypeOK'
  BY <1>1, <1>3, WorkspaceCallEnds DEF W!Inv, W!TypeOK
<1>7. W!Entries'
  BY <1>1, <1>3 DEF W!Entries, W!Unmade, W!Whole
<1>8. W!Joined'
  <2>1. x9 \in [Other \X People -> Few \cup {None}]
    BY DEF W!Inv, W!TypeOK
  <2> QED
    BY <1>1, <1>3, <2>1 DEF W!Joined
<1>9. W!OutcomesAreTold'
  BY <1>1, <1>3 DEF W!OutcomesAreTold, W!MadeFor, W!Joiners
<1>10. W!MembersWereInvited'
  <2> SUFFICES ASSUME NEW x \in Other, NEW v \in People, x2'[<<x, v>>] # None
               PROVE  \/ x1'[x].owner = v /\ x2'[<<x, v>>] = "OWNER"
                      \/ \E j \in Few :
                            /\ x9'[<<x, v>>] = j
                            /\ x5'[j].space = x /\ x5'[j].to = v
                            /\ x5'[j].role = x2'[<<x, v>>]
    BY DEF W!MembersWereInvited
  <2> QED
    BY <1>1, <1>3 DEF W!MembersWereInvited
<1>11. W!OnePersonalUnlessContested'
  BY <1>1 DEF W!Inv, W!OnePersonalUnlessContested
<1> QED
  BY <1>1, <1>5, <1>6, <1>7, <1>8, <1>9, <1>10, <1>11, WorkspaceCallEnds
  DEF W!Inv

\* Marking an invite expired keeps the invariant.
LEMMA WorkspaceCommitExpireInv ==
  ASSUME W!Inv, NEW h \in Handlers, W!CommitExpire(h)
  PROVE  W!Inv'
BY WorkspaceInviteCloses DEF W!CommitExpire, W!Resolving

\* Marking an invite revoked keeps the invariant.
LEMMA WorkspaceCommitRevokeInv ==
  ASSUME W!Inv, NEW h \in Handlers, W!CommitRevoke(h)
  PROVE  W!Inv'
BY WorkspaceInviteCloses DEF W!CommitRevoke, W!Resolving

\* Joining by an invite keeps the invariant.
LEMMA WorkspaceCommitAcceptInv ==
  ASSUME W!NoneIsNoValue, W!Inv, NEW h \in Handlers, W!CommitAccept(h)
  PROVE  W!Inv'
<1>0. PICK i \in Few, w \in Other, u \in People :
         /\ i = x7[h].on /\ w = x5[i].space /\ u = x7[h].user
         /\ u = x5[i].to /\ x5[i].role \in W!Roles /\ x1[w].type # "none"
  BY DEF W!CommitAccept, W!Inv, W!Working, W!Resolving, W!Entries, W!Whole
<1>1. /\ x7[h].pc = "accept" /\ W!End(h)
      /\ UNCHANGED <<x1, x3, x4, x6, x8, x10>>
  BY DEF W!CommitAccept
<1>2. /\ W!Entries /\ W!Joined /\ W!OutcomesAreTold /\ W!MembersWereInvited
      /\ x5[i].status = "PENDING" \/ i \in x10
      /\ x5[i].status # "none"
      /\ x2 \in [Other \X People -> W!Roles \cup {None}]
      /\ x9 \in [Other \X People -> Few \cup {None}]
  BY <1>0, <1>1 DEF W!Inv, W!Working, W!TypeOK, W!Resolving
<1>3. \A g \in Handlers \ {h} : x7'[g] = x7[g]
  BY <1>1, WorkspaceCallEnds
<1>4. CASE x2[<<w, u>>] # None
  <2>1. UNCHANGED <<x2, x9, x5>>
    BY <1>0, <1>4 DEF W!CommitAccept
  <2>2. UNCHANGED <<W!tables, x8, x9>> /\ x10' = x10
    BY <1>1, <2>1 DEF W!tables
  <2>3. \A g \in Handlers \ {h} : W!Working(g)'
    BY <1>3, <2>2, WorkspaceOthersRest
  <2>4. W!TypeOK'
    BY <1>1, <2>2, WorkspaceCallEnds DEF W!Inv, W!TypeOK, W!tables
  <2> QED
    BY <1>1, <2>2, <2>3, <2>4, WorkspaceCallEnds, WorkspaceTablesRest DEF W!Inv
<1>5. CASE x2[<<w, u>>] = None
  <2>1. /\ x2' = [x2 EXCEPT ![<<w, u>>] = x5[i].role]
        /\ x9' = [x9 EXCEPT ![<<w, u>>] = i]
        /\ W!Resolve(i, "ACCEPTED")
    BY <1>0, <1>5 DEF W!CommitAccept
  <2>2. /\ x5' \in [Few -> W!Invite]
        /\ x5'[i].status = "ACCEPTED"
        /\ \A x \in Few \ {i} : x5'[x] = x5[x]
        /\ \A x \in Few : /\ x5'[x].space = x5[x].space
                          /\ x5'[x].to = x5[x].to
                          /\ x5'[x].role = x5[x].role
    BY <2>1, WorkspaceInviteType
  <2>3. /\ x2' \in [Other \X People -> W!Roles \cup {None}]
        /\ x9' \in [Other \X People -> Few \cup {None}]
        /\ x2'[<<w, u>>] = x5[i].role /\ x9'[<<w, u>>] = i
        /\ \A x \in Other \X People : x # <<w, u>> =>
              x2'[x] = x2[x] /\ x9'[x] = x9[x]
    BY <1>0, <1>2, <2>1
  <2>4. x5[i].role # None
    BY <1>0 DEF W!NoneIsNoValue
  <2>5. \A v \in People : W!Personal(v) \subseteq W!Personal(v)'
    BY <1>1, <1>5, <2>3 DEF W!Personal, W!NoneIsNoValue, W!Roles
  <2>6. \A g \in Handlers \ {h} : W!Working(g)'
    BY <1>0, <1>1, <1>3, <2>1, <2>5, WorkspaceOthersResolve DEF W!Resolving
  <2>7. W!TypeOK'
    BY <1>1, <2>2, <2>3, WorkspaceCallEnds DEF W!Inv, W!TypeOK
  <2>8. W!Entries'
    <3>1. ASSUME NEW x \in Other, x1'[x].type = "none"
          PROVE  x8'[x] = None /\ \A v \in People : x2'[<<x, v>>] = None
      <4>1. x # w /\ x1' = x1 /\ x8' = x8
        BY <1>0, <1>1, <3>1
      <4>2. x8[x] = None /\ \A v \in People : x2[<<x, v>>] = None
        BY <1>2, <3>1, <4>1 DEF W!Entries, W!Unmade
      <4>3. \A v \in People : x2'[<<x, v>>] = x2[<<x, v>>]
        BY <2>3, <4>1
      <4> QED
        BY <4>1, <4>2, <4>3
    <3>2. ASSUME NEW x \in Few
          PROVE  W!Whole(x)'
      <4>1. x5'[x].status # "none" => x5[x].status # "none"
        BY <1>2, <2>2
      <4>2. W!Whole(x) /\ x1' = x1
        BY <1>1, <1>2 DEF W!Entries
      <4> QED
        BY <2>2, <4>1, <4>2 DEF W!Whole
    <3> QED
      BY <1>1, <1>2, <3>1, <3>2 DEF W!Entries, W!Unmade
  <2>9. W!Joined'
    BY <1>2, <2>2, <2>3, <2>4 DEF W!Joined
  <2>10. W!OutcomesAreTold'
    <3>1. x9[<<w, u>>] = None
      BY <1>2, <1>5 DEF W!Joined
    <3>2. W!Joiners(i)' = W!Joiners(i) \cup {<<w, u>>}
      BY <2>3 DEF W!Joiners
    <3>3. \A x \in Few \ {i} : W!Joiners(x)' = W!Joiners(x)
      BY <2>3, <3>1 DEF W!Joiners, W!NoneIsNoValue
    <3>4. \A q \in Few : W!MadeFor(q)' = W!MadeFor(q)
      BY <1>1 DEF W!MadeFor
    <3>5. ASSUME NEW x \in Few \ x10'
          PROVE  x5'[x].status = "ACCEPTED" <=> W!Joiners(x)' # {}
      <4>1. CASE x = i
        BY <2>2, <3>2, <4>1
      <4>2. CASE x # i
        BY <1>1, <1>2, <2>2, <3>3, <4>2 DEF W!OutcomesAreTold
      <4> QED
        BY <4>1, <4>2
    <3>6. ASSUME NEW q \in Few \ x10'
          PROVE  IF x4'[q].status = "APPROVED"
                 THEN \E x \in Other : W!MadeFor(q)' = {x} ELSE W!MadeFor(q)' = {}
      BY <1>1, <1>2, <3>4 DEF W!OutcomesAreTold
    <3> QED
      BY <3>5, <3>6 DEF W!OutcomesAreTold
  <2>11. W!MembersWereInvited'
    <3> SUFFICES ASSUME NEW x \in Other, NEW v \in People, x2'[<<x, v>>] # None
                 PROVE  \/ x1'[x].owner = v /\ x2'[<<x, v>>] = "OWNER"
                        \/ \E j \in Few :
                              /\ x9'[<<x, v>>] = j
                              /\ x5'[j].space = x /\ x5'[j].to = v
                              /\ x5'[j].role = x2'[<<x, v>>]
      BY DEF W!MembersWereInvited
    <3>1. CASE x = w /\ v = u
      BY <1>0, <2>2, <2>3, <3>1
    <3>2. CASE ~(x = w /\ v = u)
      <4>1. /\ x2'[<<x, v>>] = x2[<<x, v>>]
            /\ x9'[<<x, v>>] = x9[<<x, v>>]
        BY <2>3, <3>2
      <4> QED
        BY <1>1, <1>2, <2>2, <4>1 DEF W!MembersWereInvited
    <3> QED
      BY <3>1, <3>2
  <2>12. W!OnePersonalUnlessContested'
    BY <1>1 DEF W!Inv, W!OnePersonalUnlessContested
  <2> QED
    BY <1>1, <2>6, <2>7, <2>8, <2>9, <2>10, <2>11, <2>12, WorkspaceCallEnds
    DEF W!Inv
<1> QED
  BY <1>4, <1>5

-----------------------------------------------------------------------------
(* What is not a step of a call.                                           *)

\* Asking for a business workspace keeps the invariant.
LEMMA WorkspaceRequestSpaceInv ==
  ASSUME W!Inv, NEW u \in People, NEW q \in Few, W!RequestSpace(u, q)
  PROVE  W!Inv'
<1>1. /\ x4[q].status = "none" /\ x4[q] \in W!Request
      /\ x4 \in [Few -> W!Request]
      /\ x4' = [x4 EXCEPT ![q] = [x4[q] EXCEPT !.status = "PENDING", !.by = u]]
      /\ UNCHANGED <<x1, x2, x3, x5, x6, x7, x8, x9, x10>>
  BY DEF W!RequestSpace, W!Inv, W!TypeOK, W!history
<1>2. PICK r : r = [x4[q] EXCEPT !.status = "PENDING", !.by = u]
  OBVIOUS
<1>3. r \in W!Request /\ r.status = "PENDING" /\ r.by = u
  BY <1>1, <1>2 DEF W!Request
<1>4. /\ x4' \in [Few -> W!Request] /\ x4'[q] = r
      /\ \A x \in Few \ {q} : x4'[x] = x4[x]
  BY <1>1, <1>2, <1>3
<1>5. /\ W!Entries /\ W!Joined /\ W!OutcomesAreTold /\ W!MembersWereInvited
  BY DEF W!Inv
<1>6. W!TypeOK'
  BY <1>1, <1>4 DEF W!Inv, W!TypeOK
<1>7. W!Entries' /\ W!Joined'
  BY <1>1, <1>3, <1>4, <1>5 DEF W!Entries, W!Unmade, W!Whole, W!Joined
<1>8. W!OutcomesAreTold'
  BY <1>1, <1>3, <1>4, <1>5 DEF W!OutcomesAreTold, W!MadeFor, W!Joiners
<1>9. W!MembersWereInvited'
  BY <1>1, <1>5 DEF W!MembersWereInvited
<1>10. W!OnePersonalUnlessContested'
  BY <1>1 DEF W!Inv, W!OnePersonalUnlessContested
<1>11. ASSUME NEW g \in Handlers
       PROVE  W!Working(g)'
  <2>1. W!Working(g)
    BY DEF W!Inv
  <2> QED
    BY <1>1, <1>3, <1>4, <2>1 DEF W!Working, W!NoneOwned, W!Personal, W!Pending
<1>12. \A f, g \in Handlers : f # g => W!Apart(f, g)'
  BY <1>1 DEF W!Inv, W!Apart
<1> QED
  BY <1>6, <1>7, <1>8, <1>9, <1>10, <1>11, <1>12 DEF W!Inv

\* Sending an invite keeps the invariant.
LEMMA WorkspaceSendInviteInv ==
  ASSUME W!OfferedAreRoles, W!NoneIsNoValue, W!Inv, NEW u \in People, NEW to \in People,
         NEW w \in Other, NEW role \in Offered, NEW i \in Few,
         W!SendInvite(u, w, to, role, i)
  PROVE  W!Inv'
<1>1. /\ x2[<<w, u>>] \in {"OWNER", "ADMIN"} /\ x5[i].status = "none"
      /\ x5' = [x5 EXCEPT ![i] = [status |-> "PENDING", space |-> w,
                                          to |-> to, role |-> role]]
      /\ UNCHANGED <<x1, x2, x3, x4, x6, x7, x8, x9, x10>>
  BY DEF W!SendInvite, W!Manages, W!history
<1>2. /\ W!Entries /\ W!Joined /\ W!OutcomesAreTold /\ W!MembersWereInvited
      /\ x5 \in [Few -> W!Invite] /\ role \in W!Roles
      /\ x9 \in [Other \X People -> Few \cup {None}]
  BY DEF W!Inv, W!TypeOK, W!OfferedAreRoles
<1>3. [status |-> "PENDING", space |-> w, to |-> to, role |-> role] \in W!Invite
  BY <1>2 DEF W!Invite
<1>4. /\ x5' \in [Few -> W!Invite]
      /\ x5'[i] = [status |-> "PENDING", space |-> w, to |-> to, role |-> role]
      /\ \A x \in Few \ {i} : x5'[x] = x5[x]
  BY <1>1, <1>2, <1>3
<1>5. x1[w].type # "none"
  BY <1>1, <1>2 DEF W!Entries, W!Unmade, W!NoneIsNoValue, W!Roles
<1>6. \A x \in Other \X People : x9[x] # i
  <2>1. ASSUME NEW x \in Other, NEW v \in People, x9[<<x, v>>] = i
        PROVE  FALSE
    BY <1>1, <1>2, <2>1 DEF W!Joined, W!NoneIsNoValue
  <2> QED
    BY <2>1
<1>7. W!TypeOK'
  BY <1>1, <1>4 DEF W!Inv, W!TypeOK
<1>8. W!Entries'
  BY <1>1, <1>2, <1>4, <1>5 DEF W!Entries, W!Unmade, W!Whole
<1>9. W!Joined'
  BY <1>1, <1>2, <1>4 DEF W!Joined
<1>10. W!OutcomesAreTold'
  <2>1. \A x \in Few : W!Joiners(x)' = W!Joiners(x)
    BY <1>1 DEF W!Joiners
  <2>2. W!Joiners(i) = {}
    BY <1>6 DEF W!Joiners
  <2>3. \A q \in Few : W!MadeFor(q)' = W!MadeFor(q)
    BY <1>1 DEF W!MadeFor
  <2> QED
    BY <1>1, <1>2, <1>4, <2>1, <2>2, <2>3 DEF W!OutcomesAreTold
<1>11. W!MembersWereInvited'
  <2> SUFFICES ASSUME NEW x \in Other, NEW v \in People, x2'[<<x, v>>] # None
               PROVE  \/ x1'[x].owner = v /\ x2'[<<x, v>>] = "OWNER"
                      \/ \E j \in Few :
                            /\ x9'[<<x, v>>] = j
                            /\ x5'[j].space = x /\ x5'[j].to = v
                            /\ x5'[j].role = x2'[<<x, v>>]
    BY DEF W!MembersWereInvited
  <2> QED
    BY <1>1, <1>2, <1>4, <1>6 DEF W!MembersWereInvited
<1>12. W!OnePersonalUnlessContested'
  BY <1>1 DEF W!Inv, W!OnePersonalUnlessContested
<1>13. ASSUME NEW g \in Handlers
       PROVE  W!Working(g)'
  <2>1. W!Working(g)
    BY DEF W!Inv
  <2> QED
    BY <1>1, <1>4, <2>1
    DEF W!Working, W!NoneOwned, W!Personal, W!Pending, W!Settling,
        W!Reviewing, W!Resolving
<1>14. \A f, g \in Handlers : f # g => W!Apart(f, g)'
  BY <1>1 DEF W!Inv, W!Apart
<1> QED
  BY <1>7, <1>8, <1>9, <1>10, <1>11, <1>12, <1>13, <1>14 DEF W!Inv

\* An invite whose time runs out keeps the invariant.
LEMMA WorkspaceLapseInv ==
  ASSUME W!Inv, NEW i \in Few, W!Lapse(i)
  PROVE  W!Inv'
<1>1. /\ x6' = x6 \cup {i}
      /\ UNCHANGED <<x1, x2, x3, x4, x5, x7, x8, x9, x10>>
  BY DEF W!Lapse, W!history
<1>2. W!MembersWereInvited /\ W!OutcomesAreTold
  BY DEF W!Inv
<1>3. W!TypeOK'
  BY <1>1 DEF W!Inv, W!TypeOK
<1>4. W!Entries' /\ W!Joined'
  BY <1>1 DEF W!Inv, W!Entries, W!Unmade, W!Whole, W!Joined
<1>5. W!OutcomesAreTold'
  BY <1>1, <1>2 DEF W!OutcomesAreTold, W!MadeFor, W!Joiners
<1>6. W!MembersWereInvited'
  BY <1>1, <1>2 DEF W!MembersWereInvited
<1>7. W!OnePersonalUnlessContested'
  BY <1>1 DEF W!Inv, W!OnePersonalUnlessContested
<1>8. ASSUME NEW g \in Handlers
      PROVE  W!Working(g)'
  <2>1. W!Working(g)
    BY DEF W!Inv
  <2> QED
    BY <1>1, <2>1 DEF W!Working, W!NoneOwned, W!Personal, W!Pending
<1>9. \A f, g \in Handlers : f # g => W!Apart(f, g)'
  BY <1>1 DEF W!Inv, W!Apart
<1> QED
  BY <1>3, <1>4, <1>5, <1>6, <1>7, <1>8, <1>9 DEF W!Inv

-----------------------------------------------------------------------------
\* Every step keeps the invariant.
LEMMA WorkspaceStep ==
  ASSUME W!NoneIsNoValue, W!OfferedAreRoles, W!Inv, [W!Next]_(W!vars) PROVE W!Inv'
<1>1. CASE UNCHANGED W!vars
  <2>1. UNCHANGED <<W!tables, x8, x9>> /\ x10' = x10 /\ x7' = x7
    BY <1>1 DEF W!vars, W!history
  <2>2. W!TypeOK'
    BY <2>1 DEF W!Inv, W!TypeOK, W!tables
  <2>3. \A g \in Handlers : W!Working(g)'
    BY <2>1, WorkspaceOthersRest
  <2>4. \A f, g \in Handlers : f # g => W!Apart(f, g)'
    BY <2>1 DEF W!Inv, W!Apart
  <2> QED
    BY <2>1, <2>2, <2>3, <2>4, WorkspaceTablesRest DEF W!Inv
<1>2. CASE W!Next
  BY <1>2, WorkspaceRequestSpaceInv, WorkspaceSendInviteInv,
     WorkspaceLapseInv, WorkspaceReadDefaultInv, WorkspaceReadApproveInv,
     WorkspaceReadRejectInv, WorkspaceReadInviteInv, WorkspaceReadRevokeInv,
     WorkspaceFindPersonalInv, WorkspaceRepairDefaultInv,
     WorkspaceMakePersonalInv, WorkspaceCommitApproveInv,
     WorkspaceCommitRejectInv, WorkspaceCommitAcceptInv,
     WorkspaceCommitExpireInv, WorkspaceCommitRevokeInv, WorkspaceStopInv
  DEF W!Next
<1> QED
  BY <1>1, <1>2

\* What the invariant says of the properties the runs check.
LEMMA WorkspaceInvImplies ==
  ASSUME W!NoneIsNoValue, W!Inv
  PROVE  W!TypeOK /\ W!MembersWereInvited /\ W!OnePersonalUnlessContested /\ W!OutcomesAreTold
BY DEF W!Inv

-----------------------------------------------------------------------------
(* Verification levels.                                                    *)

\* With no level raised yet, the invariant holds.
LEMMA AssuranceInit == ASSUME A!NoneIsNoValue, A!Init PROVE A!Inv
<1>1. A!TypeOK
  BY DEF A!Init, A!TypeOK, A!Level, A!Request, A!Job, A!Idle
<1>2. A!ProfileCatchesUp
  BY DEF A!Init, A!ProfileCatchesUp, A!TierOf
<1> QED
  BY <1>1, <1>2
  DEF A!Init, A!Inv, A!Asked, A!Working, A!Apart, A!Idle, A!Changing,
      A!Recomputing, A!LevelThreeIsReviewed

\* A step that raises no level and resolves no request.
LEMMA AssuranceQuiet ==
  ASSUME A!Inv, A!TypeOK', NEW h \in Handlers,
         \A g \in Handlers \ {h} : x9'[g] = x9[g],
         UNCHANGED <<x1, x5, x6, x7, x8, x10>>,
         x11 \subseteq x11', x12 \subseteq x12', x13 \subseteq x13',
         x11' \subseteq x12',
         A!Working(h)', \A g \in Handlers \ {h} : A!Apart(g, h)' /\ A!Apart(h, g)',
         x9[h].pc \in A!Recomputing =>
            \/ x9'[h].pc \in A!Recomputing /\ x9'[h].user = x9[h].user
            \/ x9[h].user \in x12'
  PROVE  A!Inv'
<1>1. /\ A!Asked /\ A!LevelThreeIsReviewed /\ A!ProfileCatchesUp
      /\ \A g \in Handlers : A!Working(g)
  BY DEF A!Inv
<1>2. A!Asked'
  BY <1>1 DEF A!Asked
<1>3. \A g \in Handlers \ {h} : A!Working(g)'
  BY <1>1 DEF A!Working, A!Reviewable
<1>4. \A f, g \in Handlers : f # g => A!Apart(f, g)'
  <2> SUFFICES ASSUME NEW f \in Handlers, NEW g \in Handlers, f # g, f # h, g # h
               PROVE  A!Apart(f, g)'
    OBVIOUS
  <2>1. A!Apart(f, g)
    BY DEF A!Inv
  <2> QED
    BY <2>1 DEF A!Apart
<1>5. A!LevelThreeIsReviewed'
  BY <1>1 DEF A!LevelThreeIsReviewed
<1>6. A!ProfileCatchesUp'
  <2> SUFFICES ASSUME NEW u \in Few \ x12', A!Busy(u, A!Recomputing)' = {}
               PROVE  A!TierOf(x1[u], x6[u]) =
                         IF x8[u] = None THEN "UNVERIFIED" ELSE x8[u]
    BY DEF A!ProfileCatchesUp
  <2>1. A!Busy(u, A!Recomputing) = {}
    BY DEF A!Busy
  <2> QED
    BY <1>1, <2>1 DEF A!ProfileCatchesUp
<1> QED
  BY <1>2, <1>3, <1>4, <1>5, <1>6 DEF A!Inv

\* A call that begins with nothing to race with.
LEMMA AssuranceStartJobInv ==
  ASSUME A!Inv, NEW h \in Handlers, x9[h].pc = "idle",
         NEW u \in Few \cup {None}, NEW q \in Other \cup {None},
         NEW pc \in {"send", "disable", "askUser", "reject"}, A!StartJob(h, u, q, pc),
         UNCHANGED <<x1, A!facts, x7, x8, x10, x11, x12>>,
         pc # "reject" => u \in Few /\ x13' = x13,
         pc = "reject" =>
            /\ q \in Other /\ A!Reviewable(q)
            /\ x13' = IF A!Reviewing(q) # {} THEN x13 \cup {q} ELSE x13
  PROVE  A!Inv'
<1>1. /\ x9 \in [Handlers -> A!Job] /\ x13 \subseteq Other
      /\ x9' = [x9 EXCEPT ![h] = [A!Idle EXCEPT !.pc = pc, !.user = u, !.req = q]]
  BY DEF A!Inv, A!TypeOK, A!StartJob
<1>0. PICK j : j = [A!Idle EXCEPT !.pc = pc, !.user = u, !.req = q]
  OBVIOUS
<1>2. j \in A!Job /\ j.pc = pc /\ j.user = u /\ j.req = q
  <2>1. j = [pc |-> pc, user |-> u, req |-> q, code |-> None, seen |-> 0]
    BY <1>0 DEF A!Idle
  <2> QED
    BY <2>1 DEF A!Job, A!Level
<1>3. /\ x9'[h] = j
      /\ \A g \in Handlers \ {h} : x9'[g] = x9[g]
      /\ x9' \in [Handlers -> A!Job]
  BY <1>0, <1>1, <1>2
<1>4. x13 \subseteq x13' /\ x13' \subseteq Other
  BY <1>1
<1>5. A!TypeOK'
  BY <1>3, <1>4 DEF A!Inv, A!TypeOK, A!facts
<1>6. A!Working(h)'
  BY <1>2, <1>3 DEF A!Working, A!Changing, A!Reviewable
<1>7. ASSUME NEW g \in Handlers \ {h}
      PROVE  A!Apart(g, h)' /\ A!Apart(h, g)'
  BY <1>2, <1>3 DEF A!Apart, A!Changing, A!Recomputing, A!Reviewing
<1>8. x11' \subseteq x12' /\ x9[h].pc \notin A!Recomputing
  BY DEF A!Inv, A!Recomputing
<1> QED
  BY <1>3, <1>4, <1>5, <1>6, <1>7, <1>8, AssuranceQuiet DEF A!facts

\* Starting to send a code keeps the invariant.
LEMMA AssuranceStartSendInv ==
  ASSUME A!Inv, NEW h \in Handlers, NEW u \in Few, A!StartSend(h, u) PROVE A!Inv'
BY AssuranceStartJobInv DEF A!StartSend, A!history

\* Starting to switch SMS off keeps the invariant.
LEMMA AssuranceStartDisableInv ==
  ASSUME A!Inv, NEW h \in Handlers, NEW u \in Few, A!StartDisable(h, u) PROVE A!Inv'
BY AssuranceStartJobInv DEF A!StartDisable, A!history

\* Starting to ask for a review keeps the invariant.
LEMMA AssuranceStartAskInv ==
  ASSUME A!Inv, NEW h \in Handlers, NEW u \in Few, A!StartAsk(h, u) PROVE A!Inv'
BY AssuranceStartJobInv DEF A!StartAsk, A!history

\* Starting to reject a request keeps the invariant.
LEMMA AssuranceStartRejectInv ==
  ASSUME A!Inv, NEW h \in Handlers, NEW q \in Other, A!StartReject(h, q) PROVE A!Inv'
BY AssuranceStartJobInv DEF A!StartReject

\* A call that begins and will change the level.
LEMMA AssuranceStartChangeInv ==
  ASSUME A!Inv, NEW h \in Handlers, x9[h].pc = "idle",
         NEW u \in Few, NEW q \in Other \cup {None}, NEW c \in Pair \cup {None},
         NEW pc \in A!Changing, A!StartChange(h, u, q, c, pc),
         UNCHANGED <<x1, A!facts, x7, x8, x10>>,
         pc # "approve" => x13' = x13,
         pc = "approve" =>
            /\ q \in Other /\ A!Reviewable(q) /\ u = x7[q].user
            /\ x13' = IF A!Reviewing(q) # {} THEN x13 \cup {q} ELSE x13
  PROVE  A!Inv'
<1>1. /\ x9 \in [Handlers -> A!Job] /\ x13 \subseteq Other
      /\ x11 \subseteq x12 /\ x12 \subseteq Few /\ x1 \in [Few -> A!Level]
      /\ x9' = [x9 EXCEPT ![h] = [pc |-> pc, user |-> u, req |-> q,
                                    code |-> c, seen |-> x1[u]]]
      /\ x11' = IF A!Busy(u, A!Changing) # {} THEN x11 \cup {u} ELSE x11
      /\ x12' = IF A!Busy(u, A!Changing \cup A!Recomputing) # {} THEN x12 \cup {u} ELSE x12
  BY DEF A!Inv, A!TypeOK, A!StartChange
<1>2. [pc |-> pc, user |-> u, req |-> q, code |-> c, seen |-> x1[u]] \in A!Job
  BY <1>1 DEF A!Job, A!Changing
<1>3. /\ x9'[h] = [pc |-> pc, user |-> u, req |-> q, code |-> c, seen |-> x1[u]]
      /\ \A g \in Handlers \ {h} : x9'[g] = x9[g]
      /\ x9' \in [Handlers -> A!Job]
  BY <1>1, <1>2
<1>4. x13 \subseteq x13' /\ x13' \subseteq Other
  BY <1>1
<1>5. /\ x11 \subseteq x11' /\ x12 \subseteq x12' /\ x12' \subseteq Few
      /\ x11' \subseteq x12'
  BY <1>1 DEF A!Busy
<1>6. A!TypeOK'
  BY <1>3, <1>4, <1>5 DEF A!Inv, A!TypeOK, A!facts
<1>7. A!Working(h)'
  BY <1>3 DEF A!Working, A!Changing, A!Reviewable
<1>8. ASSUME NEW g \in Handlers \ {h}
      PROVE  A!Apart(g, h)' /\ A!Apart(h, g)'
  BY <1>1, <1>3 DEF A!Apart, A!Busy, A!Changing, A!Recomputing, A!Reviewing
<1>9. x9[h].pc \notin A!Recomputing
  BY DEF A!Recomputing
<1> QED
  BY <1>3, <1>4, <1>5, <1>6, <1>7, <1>8, <1>9, AssuranceQuiet DEF A!facts

\* Starting to confirm an e-mail address keeps the invariant.
LEMMA AssuranceStartConfirmInv ==
  ASSUME A!Inv, NEW h \in Handlers, NEW u \in Few, A!StartConfirm(h, u) PROVE A!Inv'
<1>1. x2[u] \in Pair \cup {None}
  BY DEF A!Inv, A!TypeOK
<1> QED
  BY <1>1, AssuranceStartChangeInv DEF A!StartConfirm, A!Changing

\* Starting to confirm a telephone keeps the invariant.
LEMMA AssuranceStartSmsInv ==
  ASSUME A!Inv, NEW h \in Handlers, NEW u \in Few, A!StartSms(h, u) PROVE A!Inv'
BY AssuranceStartChangeInv DEF A!StartSms, A!Changing

\* Starting to approve a request keeps the invariant.
LEMMA AssuranceStartApproveInv ==
  ASSUME A!Inv, NEW h \in Handlers, NEW q \in Other, A!StartApprove(h, q) PROVE A!Inv'
<1>1. x7[q].user \in Few
  BY DEF A!Inv, A!Asked, A!StartApprove, A!Reviewable
<1> QED
  BY <1>1, AssuranceStartChangeInv DEF A!StartApprove, A!Changing

\* A call that ends, or goes on to a step it need not be alone for.
LEMMA AssuranceGoesOn ==
  ASSUME A!Inv, NEW h \in Handlers, x9[h].pc \notin A!Recomputing,
         \/ A!End(h)
         \/ x9[h].pc = "askUser" /\ A!Goto(h, "askCreate"),
         UNCHANGED <<x1, x5, x6, x7, x8, A!history>>,
         x2' \in [Few -> Pair \cup {None}],
         x3' = x3, x4' \in [Few -> BOOLEAN]
  PROVE  A!Inv'
<1>1. x9 \in [Handlers -> A!Job] /\ x9[h] \in A!Job /\ x11 \subseteq x12 /\ A!Working(h)
  BY DEF A!Inv, A!TypeOK
<1>2. PICK j \in A!Job : /\ x9' = [x9 EXCEPT ![h] = j]
                         /\ \/ j.pc = "idle"
                            \/ j.pc = "askCreate" /\ j.user = x9[h].user /\ x9[h].pc = "askUser"
  <2>1. CASE A!End(h)
    <3>1. A!Idle \in A!Job /\ A!Idle.pc = "idle"
      BY DEF A!Idle, A!Job, A!Level
    <3> QED
      BY <2>1, <3>1 DEF A!End
  <2>2. CASE x9[h].pc = "askUser" /\ A!Goto(h, "askCreate")
    <3>1. PICK j : j = [x9[h] EXCEPT !.pc = "askCreate"]
      OBVIOUS
    <3>2. j \in A!Job /\ j.pc = "askCreate" /\ j.user = x9[h].user
      BY <1>1, <3>1 DEF A!Job
    <3> QED
      BY <2>2, <3>1, <3>2 DEF A!Goto
  <2> QED
    BY <2>1, <2>2
<1>3. /\ x9' \in [Handlers -> A!Job] /\ x9'[h] = j
      /\ \A g \in Handlers \ {h} : x9'[g] = x9[g]
  BY <1>1, <1>2
<1>4. A!TypeOK'
  BY <1>3 DEF A!Inv, A!TypeOK, A!history
<1>5. A!Working(h)'
  BY <1>1, <1>2, <1>3 DEF A!Working, A!Changing
<1>6. ASSUME NEW g \in Handlers \ {h}
      PROVE  A!Apart(g, h)' /\ A!Apart(h, g)'
  BY <1>2, <1>3 DEF A!Apart, A!Changing, A!Recomputing
<1> QED
  BY <1>1, <1>3, <1>4, <1>5, <1>6, AssuranceQuiet DEF A!history

\* Sending a code keeps the invariant.
LEMMA AssuranceSendCodeInv ==
  ASSUME A!Inv, NEW h \in Handlers, NEW c \in Pair, A!SendCode(h, c) PROVE A!Inv'
<1>1. /\ x2' \in [Few -> Pair \cup {None}] /\ x4 \in [Few -> BOOLEAN]
      /\ x9[h].pc \notin A!Recomputing
  BY DEF A!Inv, A!TypeOK, A!SendCode, A!Recomputing
<1> QED
  BY <1>1, AssuranceGoesOn DEF A!SendCode

\* Switching SMS off keeps the invariant.
LEMMA AssuranceDisableSmsInv ==
  ASSUME A!Inv, NEW h \in Handlers, A!DisableSms(h) PROVE A!Inv'
<1>1. /\ x2 \in [Few -> Pair \cup {None}] /\ x4' \in [Few -> BOOLEAN]
      /\ x9[h].pc \notin A!Recomputing
  BY DEF A!Inv, A!TypeOK, A!DisableSms, A!Recomputing
<1> QED
  BY <1>1, AssuranceGoesOn DEF A!DisableSms

\* Reading the user who asks keeps the invariant.
LEMMA AssuranceAskUserInv ==
  ASSUME A!Inv, NEW h \in Handlers, A!AskUser(h) PROVE A!Inv'
<1>1. /\ x2 \in [Few -> Pair \cup {None}] /\ x4 \in [Few -> BOOLEAN]
      /\ x9[h].pc \notin A!Recomputing
  BY DEF A!Inv, A!TypeOK, A!AskUser, A!Recomputing
<1> QED
  BY <1>1, AssuranceGoesOn DEF A!AskUser, A!facts

\* Reading the user to recompute the profile keeps the invariant.
LEMMA AssuranceReadUserInv ==
  ASSUME A!Inv, NEW h \in Handlers, A!ReadUser(h) PROVE A!Inv'
<1>0. PICK u \in Few : u = x9[h].user
  BY DEF A!ReadUser, A!Inv, A!Working
<1>1. /\ x9 \in [Handlers -> A!Job] /\ x9[h] \in A!Job /\ x11 \subseteq x12
      /\ x1 \in [Few -> A!Level] /\ x9[h].pc = "recompute"
      /\ x9' = [x9 EXCEPT ![h] = [x9[h] EXCEPT !.pc = "upsert", !.seen = x1[u]]]
      /\ UNCHANGED <<x1, A!facts, x7, x8, A!history>>
  BY <1>0 DEF A!Inv, A!TypeOK, A!ReadUser
<1>2. PICK j : j = [x9[h] EXCEPT !.pc = "upsert", !.seen = x1[u]]
  OBVIOUS
<1>3. j \in A!Job /\ j.pc = "upsert" /\ j.seen = x1[u] /\ j.user = u
  BY <1>0, <1>1, <1>2 DEF A!Job
<1>4. /\ x9' \in [Handlers -> A!Job] /\ x9'[h] = j
      /\ \A g \in Handlers \ {h} : x9'[g] = x9[g]
  BY <1>1, <1>2, <1>3
<1>5. A!TypeOK'
  BY <1>1, <1>4 DEF A!Inv, A!TypeOK, A!facts, A!history
<1>6. A!Working(h)'
  BY <1>1, <1>3, <1>4 DEF A!Working, A!Changing
<1>7. ASSUME NEW g \in Handlers \ {h}
      PROVE  A!Apart(g, h)' /\ A!Apart(h, g)'
  <2>1. A!Apart(g, h) /\ A!Apart(h, g)
    BY DEF A!Inv
  <2> QED
    BY <1>0, <1>1, <1>3, <1>4, <2>1
    DEF A!Apart, A!Changing, A!Recomputing, A!history
<1> QED
  BY <1>0, <1>1, <1>3, <1>4, <1>5, <1>6, <1>7, AssuranceQuiet
  DEF A!facts, A!history, A!Recomputing

\* A handler that is cut short keeps the invariant.
LEMMA AssuranceAbortInv ==
  ASSUME A!Inv, NEW h \in Handlers, A!Abort(h) PROVE A!Inv'
<1>1. /\ x9 \in [Handlers -> A!Job] /\ x11 \subseteq x12 /\ x12 \subseteq Few
      /\ x9' = [x9 EXCEPT ![h] = A!Idle] /\ A!Working(h) /\ x9[h].pc # "idle"
      /\ x12' = IF x9[h].pc \in A!Recomputing THEN x12 \cup {x9[h].user} ELSE x12
      /\ UNCHANGED <<x1, A!facts, x7, x8, x10, x11, x13>>
  BY DEF A!Inv, A!TypeOK, A!Abort, A!End
<1>2. /\ A!Idle \in A!Job /\ A!Idle.pc = "idle"
  BY DEF A!Idle, A!Job, A!Level
<1>3. /\ x9' \in [Handlers -> A!Job] /\ x9'[h] = A!Idle
      /\ \A g \in Handlers \ {h} : x9'[g] = x9[g]
  BY <1>1, <1>2
<1>4. x12 \subseteq x12' /\ x12' \subseteq Few
  BY <1>1 DEF A!Working, A!Recomputing
<1>5. A!TypeOK'
  BY <1>1, <1>3, <1>4 DEF A!Inv, A!TypeOK, A!facts
<1>6. A!Working(h)'
  BY <1>2, <1>3 DEF A!Working, A!Changing
<1>7. ASSUME NEW g \in Handlers \ {h}
      PROVE  A!Apart(g, h)' /\ A!Apart(h, g)'
  BY <1>2, <1>3 DEF A!Apart, A!Changing, A!Recomputing
<1> QED
  BY <1>1, <1>3, <1>4, <1>5, <1>6, <1>7, AssuranceQuiet DEF A!facts
-----------------------------------------------------------------------------
(* The steps that raise a level.                                           *)

\* What others know when h has set the level of u.
LEMMA AssuranceLevelMoves ==
  ASSUME A!Inv, A!TypeOK', NEW h \in Handlers, NEW u \in Few, u = x9[h].user,
         x9[h].pc \in A!Changing, NEW l \in A!Level,
         x1' = [x1 EXCEPT ![u] = l],
         \A g \in Handlers \ {h} : x9'[g] = x9[g],
         x9'[h].pc = "idle" \/ (x9'[h].pc = "recompute" /\ x9'[h].user = u),
         UNCHANGED <<x11, x12, x13>>,
         \A q \in Other : x7[q].status # "none" =>
            x7'[q].status # "none" /\ x7'[q].user = x7[q].user,
         \A q \in Other : A!Reviewable(q) =>
            A!Reviewable(q)' \/ (x9[h].pc = "approve" /\ q = x9[h].req)
  PROVE  /\ \A g \in Handlers : A!Working(g)'
         /\ \A f, g \in Handlers : f # g => A!Apart(f, g)'
<1>1. /\ \A g \in Handlers : A!Working(g)
      /\ \A f, g \in Handlers : f # g => A!Apart(f, g)
      /\ x1 \in [Few -> A!Level]
  BY DEF A!Inv, A!TypeOK
<1>2. A!Working(h)'
  BY DEF A!Working, A!Changing
<1>3. ASSUME NEW g \in Handlers \ {h}
      PROVE  A!Working(g)'
  <2>1. /\ x9[g].user = u /\ x9[g].pc \in A!Changing => u \in x11
        /\ x9[g].user = u /\ x9[g].pc = "upsert" => u \in x12
    BY <1>1 DEF A!Apart, A!Recomputing
  <2>2. ASSUME x9[g].pc \in {"approve", "reject"}
        PROVE  /\ x9[g].req \in Other /\ x7'[x9[g].req].status # "none"
               /\ x7'[x9[g].req].status = "PENDING" \/ x9[g].req \in x13
               /\ x7'[x9[g].req].user = x7[x9[g].req].user
    BY <1>1, <2>2 DEF A!Working, A!Apart, A!Reviewable
  <2>3. \A v \in Few \ {u} : x1'[v] = x1[v]
    BY <1>1
  <2>4. A!Working(g) /\ x9'[g] = x9[g]
    BY <1>1
  <2> QED
    BY <2>1, <2>2, <2>3, <2>4 DEF A!Working, A!Reviewable, A!Changing
<1>4. \A f, g \in Handlers : f # g => A!Apart(f, g)'
  <2> SUFFICES ASSUME NEW f \in Handlers, NEW g \in Handlers, f # g
               PROVE  A!Apart(f, g)'
    OBVIOUS
  <2>1. A!Apart(f, g)
    BY <1>1
  <2> QED
    BY <2>1 DEF A!Apart, A!Changing, A!Recomputing
<1> QED
  BY <1>2, <1>3, <1>4

\* A level is set without a review.
LEMMA AssuranceConfirmOrSms ==
  ASSUME A!Inv, A!TypeOK', NEW h \in Handlers, NEW u \in Few, u = x9[h].user,
         x9[h].pc \in {"confirm", "sms"}, NEW l \in A!Level,
         x1' = [x1 EXCEPT ![u] = l],
         u \notin x11 => l >= x1[u], l = 3 => x1[u] = 3,
         \A g \in Handlers \ {h} : x9'[g] = x9[g],
         x9'[h].pc = "idle" \/ (x9'[h].pc = "recompute" /\ x9'[h].user = u),
         x9'[h].pc = "idle" /\ u \notin x12 => A!TierOf(l, x6[u]) = A!TierOf(x1[u], x6[u]),
         UNCHANGED <<x5, x6, x7, x8, A!history>>
  PROVE  A!Inv' /\ A!LevelRises
<1>1. /\ x1 \in [Few -> 0..3] /\ A!LevelThreeIsReviewed /\ A!ProfileCatchesUp
      /\ A!Asked /\ x11 \subseteq x12
  BY DEF A!Inv, A!TypeOK, A!Level
<1>2. UNCHANGED <<x10, x11, x12, x13>>
  BY DEF A!history
<1>3. /\ x1'[u] = l /\ \A v \in Few \ {u} : x1'[v] = x1[v]
  BY <1>1
<1>4. A!LevelRises
  BY <1>1, <1>3 DEF A!LevelRises
<1>5. A!LevelThreeIsReviewed'
  <2>1. \A v \in Few : x1'[v] = 3 => x1[v] = 3
    BY <1>3
  <2>2. \A v \in Few \ x11 : x1[v] = 3 => x1'[v] = 3
    BY <1>1, <1>3 DEF A!Level
  <2>3. \A q \in Other : q \in x10 => x7[q].user \in Few
    BY <1>1 DEF A!Asked
  <2> QED
    BY <1>1, <1>2, <2>1, <2>2, <2>3 DEF A!LevelThreeIsReviewed
<1>6. A!ProfileCatchesUp'
  <2> SUFFICES ASSUME NEW v \in Few \ x12, A!Busy(v, A!Recomputing)' = {}
               PROVE  A!TierOf(x1'[v], x6[v]) =
                         IF x8[v] = None THEN "UNVERIFIED" ELSE x8[v]
    BY <1>2 DEF A!ProfileCatchesUp
  <2>1. A!Busy(v, A!Recomputing) = {}
    BY DEF A!Busy, A!Recomputing
  <2>2. v = u => x9'[h].pc = "idle"
    BY DEF A!Busy, A!Recomputing
  <2>3. A!TierOf(x1'[v], x6[v]) = A!TierOf(x1[v], x6[v])
    BY <1>3, <2>2
  <2> QED
    BY <1>1, <2>1, <2>3 DEF A!ProfileCatchesUp
<1>7. A!Asked'
  BY <1>1, <1>2 DEF A!Asked
<1>8. /\ \A g \in Handlers : A!Working(g)'
      /\ \A f, g \in Handlers : f # g => A!Apart(f, g)'
  BY <1>2, AssuranceLevelMoves DEF A!Changing, A!Reviewable
<1> QED
  BY <1>1, <1>2, <1>4, <1>5, <1>6, <1>7, <1>8 DEF A!Inv

\* Confirming an e-mail address keeps the invariant.
LEMMA AssuranceConfirmInv ==
  ASSUME A!Inv, NEW h \in Handlers, A!Confirm(h) PROVE A!Inv' /\ A!LevelRises
<1>0. PICK u \in Few : u = x9[h].user
  BY DEF A!Confirm, A!Inv, A!Working
<1> DEFINE l == A!LevelByEmail(x9[h].seen, x1[u])
<1>1. /\ x9[h].pc = "confirm" /\ x1' = [x1 EXCEPT ![u] = l]
      /\ x3' = [x3 EXCEPT ![u] = TRUE] /\ x2' = [x2 EXCEPT ![u] = None]
      /\ x9' = [x9 EXCEPT ![h] = A!Idle]
      /\ UNCHANGED <<x4, x5, x6, x7, x8, A!history>>
  BY <1>0 DEF A!Confirm, A!End
<1>2. /\ x1 \in [Few -> 0..3] /\ x9 \in [Handlers -> A!Job]
      /\ x3 \in [Few -> BOOLEAN] /\ x2 \in [Few -> Pair \cup {None}]
      /\ x1[u] \in 0..3 /\ x11 \subseteq x12
      /\ u \notin x11 => x9[h].seen = x1[u]
  BY <1>0, <1>1 DEF A!Inv, A!TypeOK, A!Level, A!Working, A!Changing
<1>3. A!Idle \in A!Job /\ A!Idle.pc = "idle"
  BY DEF A!Idle, A!Job, A!Level
<1>4. /\ l \in 0..3
      /\ l = 3 => x1[u] = 3
      /\ u \notin x11 => l >= x1[u]
      /\ u \notin x11 => A!TierOf(l, x6[u]) = A!TierOf(x1[u], x6[u])
  BY <1>2 DEF A!LevelByEmail, A!TierOf
<1>5. /\ x9' \in [Handlers -> A!Job] /\ x9'[h] = A!Idle
      /\ \A g \in Handlers \ {h} : x9'[g] = x9[g]
      /\ x1' \in [Few -> 0..3] /\ x3' \in [Few -> BOOLEAN]
      /\ x2' \in [Few -> Pair \cup {None}]
  BY <1>1, <1>2, <1>3, <1>4
<1>6. A!TypeOK'
  BY <1>1, <1>5 DEF A!Inv, A!TypeOK, A!Level, A!history
<1> QED
  <2>1. /\ x9[h].pc \in {"confirm", "sms"} /\ x9'[h].pc = "idle" /\ l \in A!Level
        /\ u \notin x12 => A!TierOf(l, x6[u]) = A!TierOf(x1[u], x6[u])
    BY <1>1, <1>2, <1>3, <1>4, <1>5 DEF A!Level
  <2> HIDE DEF l
  <2> QED
    BY <1>0, <1>1, <1>4, <1>5, <1>6, <2>1, AssuranceConfirmOrSms

\* Confirming a telephone keeps the invariant.
LEMMA AssuranceEnableSmsInv ==
  ASSUME A!Inv, NEW h \in Handlers, A!EnableSms(h) PROVE A!Inv' /\ A!LevelRises
<1>0. PICK u \in Few : u = x9[h].user
  BY DEF A!EnableSms, A!Inv, A!Working
<1> DEFINE l == A!LevelBySms(x9[h].seen, x1[u])
<1>1. /\ x9[h].pc = "sms" /\ x1' = [x1 EXCEPT ![u] = l]
      /\ x4' = [x4 EXCEPT ![u] = TRUE]
      /\ x9' = [x9 EXCEPT ![h] = [x9[h] EXCEPT !.pc = "recompute"]]
      /\ UNCHANGED <<x2, x3, x5, x6, x7, x8, A!history>>
  BY <1>0 DEF A!EnableSms, A!Goto
<1>2. /\ x1 \in [Few -> 0..3] /\ x9 \in [Handlers -> A!Job]
      /\ x4 \in [Few -> BOOLEAN] /\ x9[h] \in A!Job
      /\ x1[u] \in 0..3
      /\ u \notin x11 => x9[h].seen = x1[u]
  BY <1>0, <1>1 DEF A!Inv, A!TypeOK, A!Level, A!Working, A!Changing
<1>3. PICK j : j = [x9[h] EXCEPT !.pc = "recompute"]
  OBVIOUS
<1>4. j \in A!Job /\ j.pc = "recompute" /\ j.user = u
  BY <1>0, <1>2, <1>3 DEF A!Job
<1>5. /\ l \in 0..3
      /\ l = 3 => x1[u] = 3
      /\ u \notin x11 => l >= x1[u]
  BY <1>2 DEF A!LevelBySms
<1>6. /\ x9' \in [Handlers -> A!Job] /\ x9'[h] = j
      /\ \A g \in Handlers \ {h} : x9'[g] = x9[g]
      /\ x1' \in [Few -> 0..3] /\ x4' \in [Few -> BOOLEAN]
  BY <1>1, <1>2, <1>3, <1>4, <1>5
<1>7. A!TypeOK'
  BY <1>1, <1>6 DEF A!Inv, A!TypeOK, A!Level, A!history
<1> QED
  <2>1. /\ x9[h].pc \in {"confirm", "sms"} /\ l \in A!Level
        /\ x9'[h].pc = "recompute" /\ x9'[h].user = u
    BY <1>1, <1>4, <1>5, <1>6 DEF A!Level
  <2> HIDE DEF l
  <2> QED
    BY <1>0, <1>1, <1>5, <1>6, <1>7, <2>1, AssuranceConfirmOrSms

\* Committing an approval, with the level it gives, keeps the invariant.
LEMMA AssuranceCommitApprovalInv ==
  ASSUME A!Inv, NEW h \in Handlers, A!CommitApproval(h) PROVE A!Inv' /\ A!LevelRises
<1>0. PICK u \in Few, q \in Other : u = x9[h].user /\ q = x9[h].req
  BY DEF A!CommitApproval, A!Inv, A!Working
<1>1. /\ x9[h].pc = "approve" /\ x1' = [x1 EXCEPT ![u] = 3]
      /\ x5' = [x5 EXCEPT ![u] = TRUE]
      /\ x7' = [x7 EXCEPT ![q] = [x7[q] EXCEPT !.status = "APPROVED"]]
      /\ x10' = x10 \cup {q}
      /\ x9' = [x9 EXCEPT ![h] = [x9[h] EXCEPT !.pc = "recompute"]]
      /\ UNCHANGED <<x2, x3, x4, x6, x8, x11, x12, x13>>
  BY <1>0 DEF A!CommitApproval, A!Goto
<1>2. /\ x1 \in [Few -> 0..3] /\ x9 \in [Handlers -> A!Job]
      /\ x5 \in [Few -> BOOLEAN] /\ x9[h] \in A!Job
      /\ x7 \in [Other -> A!Request] /\ x7[q] \in A!Request
      /\ x10 \subseteq Other
      /\ A!LevelThreeIsReviewed /\ A!ProfileCatchesUp /\ A!Asked /\ x11 \subseteq x12
      /\ u = x7[q].user /\ x7[q].status # "none"
      /\ A!Reviewable(q) \/ q \in x13
  BY <1>0, <1>1 DEF A!Inv, A!TypeOK, A!Level, A!Working
<1>3. PICK j, r : /\ j = [x9[h] EXCEPT !.pc = "recompute"]
                  /\ r = [x7[q] EXCEPT !.status = "APPROVED"]
  OBVIOUS
<1>4. /\ j \in A!Job /\ j.pc = "recompute" /\ j.user = u
      /\ r \in A!Request /\ r.status = "APPROVED" /\ r.user = u
  BY <1>0, <1>2, <1>3 DEF A!Job, A!Request
<1>5. /\ x9' \in [Handlers -> A!Job] /\ x9'[h] = j
      /\ \A g \in Handlers \ {h} : x9'[g] = x9[g]
      /\ x1' \in [Few -> 0..3] /\ x5' \in [Few -> BOOLEAN]
      /\ x7' \in [Other -> A!Request] /\ x7'[q] = r
      /\ \A x \in Other \ {q} : x7'[x] = x7[x]
      /\ x1'[u] = 3 /\ \A v \in Few \ {u} : x1'[v] = x1[v]
      /\ x5'[u] = TRUE /\ \A v \in Few \ {u} : x5'[v] = x5[v]
  <2>1. x9' = [x9 EXCEPT ![h] = j] /\ x7' = [x7 EXCEPT ![q] = r]
    BY <1>1, <1>3
  <2>2. /\ x9' \in [Handlers -> A!Job] /\ x9'[h] = j
        /\ \A g \in Handlers \ {h} : x9'[g] = x9[g]
    BY <1>2, <1>4, <2>1
  <2>3. /\ x7' \in [Other -> A!Request] /\ x7'[q] = r
        /\ \A x \in Other \ {q} : x7'[x] = x7[x]
    BY <1>2, <1>4, <2>1
  <2>4. /\ x1' \in [Few -> 0..3] /\ x5' \in [Few -> BOOLEAN]
        /\ x1'[u] = 3 /\ \A v \in Few \ {u} : x1'[v] = x1[v]
        /\ x5'[u] = TRUE /\ \A v \in Few \ {u} : x5'[v] = x5[v]
    <3>1. x1' \in [Few -> 0..3] /\ x5' \in [Few -> BOOLEAN]
      BY <1>1, <1>2
    <3>2. x1'[u] = 3 /\ \A v \in Few \ {u} : x1'[v] = x1[v]
      BY <1>1, <1>2
    <3>3. x5'[u] = TRUE /\ \A v \in Few \ {u} : x5'[v] = x5[v]
      BY <1>1, <1>2
    <3> QED
      BY <3>1, <3>2, <3>3
  <2> QED
    BY <2>2, <2>3, <2>4
<1>6. A!TypeOK'
  BY <1>1, <1>2, <1>5 DEF A!Inv, A!TypeOK, A!Level
<1>7. A!LevelRises
  BY <1>2, <1>5 DEF A!LevelRises
<1>8. A!Asked'
  BY <1>1, <1>2, <1>4, <1>5 DEF A!Asked
<1>9. A!LevelThreeIsReviewed'
  <2>1. \A x \in Other : x7'[x].user = x7[x].user
    BY <1>2, <1>4, <1>5
  <2>2. ASSUME NEW v \in Few, x1'[v] = 3
        PROVE  x5'[v] /\ \E x \in x10' : x7'[x].user = v
    <3>1. CASE v = u
      BY <1>1, <1>4, <1>5, <3>1
    <3>2. CASE v # u
      <4>1. x5[v] /\ \E x \in x10 : x7[x].user = v
        BY <1>2, <1>5, <2>2, <3>2 DEF A!LevelThreeIsReviewed
      <4> QED
        BY <1>1, <1>2, <1>5, <2>1, <3>2, <4>1
    <3> QED
      BY <3>1, <3>2
  <2>3. ASSUME NEW x \in Other \ x13'
        PROVE  /\ x \in x10' <=> x7'[x].status = "APPROVED"
               /\ x \in x10' /\ x7'[x].user \notin x11'
                     => x1'[x7'[x].user] = 3
    <3>1. CASE x = q
      <4>1. x \in x10' /\ x7'[x] = r
        BY <1>1, <1>5, <3>1
      <4>2. x1'[r.user] = 3
        BY <1>4, <1>5
      <4> QED
        BY <1>4, <4>1, <4>2
    <3>2. CASE x # q
      <4>1. /\ x \in x10' <=> x \in x10
            /\ x7'[x] = x7[x]
            /\ x \in x10 => x7[x].user \in Few
        BY <1>1, <1>2, <1>5, <3>2 DEF A!Asked
      <4>2. /\ x \in x10 <=> x7[x].status = "APPROVED"
            /\ x \in x10 /\ x7[x].user \notin x11
                  => x1[x7[x].user] = 3
        BY <1>1, <1>2 DEF A!LevelThreeIsReviewed
      <4> QED
        BY <1>1, <1>5, <4>1, <4>2
    <3> QED
      BY <3>1, <3>2
  <2> QED
    BY <2>2, <2>3 DEF A!LevelThreeIsReviewed
<1>10. A!ProfileCatchesUp'
  <2> SUFFICES ASSUME NEW v \in Few \ x12, A!Busy(v, A!Recomputing)' = {}
               PROVE  A!TierOf(x1'[v], x6[v]) =
                         IF x8[v] = None THEN "UNVERIFIED" ELSE x8[v]
    BY <1>1 DEF A!ProfileCatchesUp
  <2>1. v # u
    BY <1>4, <1>5 DEF A!Busy, A!Recomputing
  <2>2. A!Busy(v, A!Recomputing) = {}
    BY <1>1, <1>5 DEF A!Busy, A!Recomputing
  <2> QED
    BY <1>2, <1>5, <2>1, <2>2 DEF A!ProfileCatchesUp
<1>11. /\ \A g \in Handlers : A!Working(g)'
       /\ \A f, g \in Handlers : f # g => A!Apart(f, g)'
  <2>1. \A x \in Other : x7[x].status # "none" =>
           x7'[x].status # "none" /\ x7'[x].user = x7[x].user
    BY <1>2, <1>4, <1>5
  <2>2. \A x \in Other : A!Reviewable(x) =>
            A!Reviewable(x)' \/ (x9[h].pc = "approve" /\ x = x9[h].req)
    BY <1>0, <1>1, <1>5 DEF A!Reviewable
  <2>3. 3 \in A!Level /\ x9[h].pc \in A!Changing
    BY <1>1 DEF A!Level, A!Changing
  <2> QED
    <3>1. x9'[h].pc = "recompute" /\ x9'[h].user = u
      BY <1>4, <1>5
    <3>2. UNCHANGED <<x11, x12, x13>>
      BY <1>1
    <3> QED
      BY <1>0, <1>1, <1>5, <1>6, <2>1, <2>2, <2>3, <3>1, <3>2,
         AssuranceLevelMoves
<1> QED
  BY <1>1, <1>2, <1>6, <1>7, <1>8, <1>9, <1>10, <1>11 DEF A!Inv

-----------------------------------------------------------------------------
(* The steps that end a call.                                              *)

\* What others know when h has ended without touching a level.
LEMMA AssuranceEnded ==
  ASSUME A!Inv, NEW h \in Handlers, x9'[h].pc = "idle",
         \A g \in Handlers \ {h} : x9'[g] = x9[g],
         UNCHANGED <<x1, x11, x12, x13>>,
         \A q \in Other : x7[q].status # "none" =>
            x7'[q].status # "none" /\ x7'[q].user = x7[q].user,
         \A q \in Other : A!Reviewable(q) =>
            A!Reviewable(q)' \/ (x9[h].pc = "reject" /\ q = x9[h].req)
  PROVE  /\ \A g \in Handlers : A!Working(g)'
         /\ \A f, g \in Handlers : f # g => A!Apart(f, g)'
<1>1. /\ \A g \in Handlers : A!Working(g)
      /\ \A f, g \in Handlers : f # g => A!Apart(f, g)
  BY DEF A!Inv
<1>2. A!Working(h)'
  BY DEF A!Working, A!Changing
<1>3. ASSUME NEW g \in Handlers \ {h}
      PROVE  A!Working(g)'
  <2>1. ASSUME x9[g].pc \in {"approve", "reject"}
        PROVE  /\ x9[g].req \in Other /\ x7'[x9[g].req].status # "none"
               /\ x7'[x9[g].req].status = "PENDING" \/ x9[g].req \in x13
               /\ x7'[x9[g].req].user = x7[x9[g].req].user
    BY <1>1, <2>1 DEF A!Working, A!Apart, A!Reviewable
  <2>2. A!Working(g) /\ x9'[g] = x9[g]
    BY <1>1
  <2> QED
    BY <2>1, <2>2 DEF A!Working, A!Reviewable
<1>4. \A f, g \in Handlers : f # g => A!Apart(f, g)'
  <2> SUFFICES ASSUME NEW f \in Handlers, NEW g \in Handlers, f # g
               PROVE  A!Apart(f, g)'
    OBVIOUS
  <2>1. A!Apart(f, g)
    BY <1>1
  <2> QED
    BY <2>1 DEF A!Apart, A!Changing, A!Recomputing
<1> QED
  BY <1>2, <1>3, <1>4

\* Inserting a request keeps the invariant.
LEMMA AssuranceAskCreateInv ==
  ASSUME A!Inv, NEW h \in Handlers, NEW q \in Other, A!AskCreate(h, q) PROVE A!Inv'
<1>0. PICK u \in Few : u = x9[h].user
  BY DEF A!AskCreate, A!Inv, A!Working
<1>1. /\ x9[h].pc = "askCreate" /\ x7[q].status = "none"
      /\ x7' = [x7 EXCEPT ![q] = [user |-> u, status |-> "PENDING"]]
      /\ x9' = [x9 EXCEPT ![h] = A!Idle]
      /\ UNCHANGED <<x1, A!facts, x8, A!history>>
  BY <1>0 DEF A!AskCreate, A!End
<1>2. /\ x9 \in [Handlers -> A!Job] /\ x7 \in [Other -> A!Request]
      /\ A!LevelThreeIsReviewed /\ A!ProfileCatchesUp /\ A!Asked /\ x11 \subseteq x12
      /\ x10 \subseteq Other
  BY DEF A!Inv, A!TypeOK
<1>3. A!Idle \in A!Job /\ A!Idle.pc = "idle"
  BY DEF A!Idle, A!Job, A!Level
<1>4. /\ x9' \in [Handlers -> A!Job] /\ x9'[h] = A!Idle
      /\ \A g \in Handlers \ {h} : x9'[g] = x9[g]
  BY <1>1, <1>2, <1>3
<1>5. /\ x7' \in [Other -> A!Request]
      /\ x7'[q] = [user |-> u, status |-> "PENDING"]
      /\ \A x \in Other \ {q} : x7'[x] = x7[x]
  BY <1>1, <1>2 DEF A!Request
<1>6. q \notin x10
  BY <1>1, <1>2 DEF A!Asked
<1>7. A!TypeOK'
  BY <1>1, <1>4, <1>5 DEF A!Inv, A!TypeOK, A!facts, A!history
<1>8. A!Asked'
  BY <1>1, <1>2, <1>5, <1>6 DEF A!Asked, A!history
<1>9. A!LevelThreeIsReviewed'
  BY <1>1, <1>2, <1>5, <1>6 DEF A!LevelThreeIsReviewed, A!facts, A!history
<1>10. A!ProfileCatchesUp'
  <2>1. ASSUME NEW v \in Few, A!Busy(v, A!Recomputing)' = {}
        PROVE  A!Busy(v, A!Recomputing) = {}
    BY <1>1, <1>4, <2>1 DEF A!Busy, A!Recomputing
  <2> QED
    BY <1>1, <1>2, <2>1 DEF A!ProfileCatchesUp, A!facts, A!history
<1>11. /\ \A g \in Handlers : A!Working(g)'
       /\ \A f, g \in Handlers : f # g => A!Apart(f, g)'
  <2>1. UNCHANGED <<x1, x11, x12, x13>> /\ x9'[h].pc = "idle"
    BY <1>1, <1>3, <1>4 DEF A!history
  <2>2. \A x \in Other : x7[x].status # "none" => x7'[x] = x7[x]
    BY <1>1, <1>5
  <2> QED
    BY <1>4, <2>1, <2>2, AssuranceEnded DEF A!Reviewable
<1> QED
  BY <1>1, <1>2, <1>7, <1>8, <1>9, <1>10, <1>11 DEF A!Inv, A!history

\* Committing a rejection keeps the invariant.
LEMMA AssuranceCommitRejectionInv ==
  ASSUME A!Inv, NEW h \in Handlers, A!CommitRejection(h) PROVE A!Inv'
<1>0. PICK q \in Other : q = x9[h].req
  BY DEF A!CommitRejection, A!Inv, A!Working
<1>1. /\ x9[h].pc = "reject"
      /\ x7' = [x7 EXCEPT ![q] = [x7[q] EXCEPT !.status = "REJECTED"]]
      /\ x9' = [x9 EXCEPT ![h] = A!Idle]
      /\ UNCHANGED <<x1, A!facts, x8, A!history>>
  BY <1>0 DEF A!CommitRejection, A!End
<1>2. /\ x9 \in [Handlers -> A!Job] /\ x7 \in [Other -> A!Request]
      /\ x7[q] \in A!Request /\ x10 \subseteq Other
      /\ A!LevelThreeIsReviewed /\ A!ProfileCatchesUp /\ A!Asked /\ x11 \subseteq x12
      /\ x7[q].status # "none"
      /\ x7[q].status = "PENDING" \/ q \in x13
  BY <1>0, <1>1 DEF A!Inv, A!TypeOK, A!Working, A!Reviewable
<1>3. A!Idle \in A!Job /\ A!Idle.pc = "idle"
  BY DEF A!Idle, A!Job, A!Level
<1>4. PICK r : r = [x7[q] EXCEPT !.status = "REJECTED"]
  OBVIOUS
<1>5. r \in A!Request /\ r.status = "REJECTED" /\ r.user = x7[q].user
  BY <1>2, <1>4 DEF A!Request
<1>6. /\ x9' \in [Handlers -> A!Job] /\ x9'[h] = A!Idle
      /\ \A g \in Handlers \ {h} : x9'[g] = x9[g]
  BY <1>1, <1>2, <1>3
<1>7. /\ x7' \in [Other -> A!Request] /\ x7'[q] = r
      /\ \A x \in Other \ {q} : x7'[x] = x7[x]
  <2>1. x7' = [x7 EXCEPT ![q] = r]
    BY <1>1, <1>4
  <2> QED
    BY <1>2, <1>5, <2>1
<1>8. \A x \in Other : x7'[x].user = x7[x].user
  BY <1>5, <1>7
<1>9. A!TypeOK'
  BY <1>1, <1>6, <1>7 DEF A!Inv, A!TypeOK, A!facts, A!history
<1>10. A!Asked'
  BY <1>1, <1>2, <1>5, <1>7 DEF A!Asked, A!history
<1>11. A!LevelThreeIsReviewed'
  <2>1. q \in x13 \/ q \notin x10
    BY <1>2 DEF A!LevelThreeIsReviewed
  <2>2. \A v \in Few : x1[v] = 3 =>
            x5[v] /\ \E x \in x10 : x7'[x].user = v
    BY <1>2, <1>8 DEF A!LevelThreeIsReviewed
  <2>3. ASSUME NEW x \in Other \ x13
        PROVE  /\ x \in x10 <=> x7'[x].status = "APPROVED"
               /\ x \in x10 /\ x7'[x].user \notin x11
                     => x1[x7'[x].user] = 3
    <3>1. CASE x = q
      BY <1>5, <1>7, <2>1, <3>1
    <3>2. CASE x # q
      BY <1>2, <1>7, <3>2 DEF A!LevelThreeIsReviewed
    <3> QED
      BY <3>1, <3>2
  <2> QED
    BY <1>1, <2>2, <2>3 DEF A!LevelThreeIsReviewed, A!facts, A!history
<1>12. A!ProfileCatchesUp'
  <2>1. ASSUME NEW v \in Few, A!Busy(v, A!Recomputing)' = {}
        PROVE  A!Busy(v, A!Recomputing) = {}
    BY <1>1, <1>6, <2>1 DEF A!Busy, A!Recomputing
  <2> QED
    BY <1>1, <1>2, <2>1 DEF A!ProfileCatchesUp, A!facts, A!history
<1>13. /\ \A g \in Handlers : A!Working(g)'
       /\ \A f, g \in Handlers : f # g => A!Apart(f, g)'
  <2>1. UNCHANGED <<x1, x11, x12, x13>> /\ x9'[h].pc = "idle"
    BY <1>1, <1>3, <1>6 DEF A!history
  <2>2. \A x \in Other : x7[x].status # "none" =>
           x7'[x].status # "none" /\ x7'[x].user = x7[x].user
    BY <1>5, <1>7
  <2>3. \A x \in Other : A!Reviewable(x) =>
           A!Reviewable(x)' \/ (x9[h].pc = "reject" /\ x = x9[h].req)
    BY <1>0, <1>1, <1>7 DEF A!Reviewable
  <2> QED
    BY <1>6, <2>1, <2>2, <2>3, AssuranceEnded
<1> QED
  BY <1>1, <1>2, <1>9, <1>10, <1>11, <1>12, <1>13 DEF A!Inv, A!history

\* Writing the profile keeps the invariant.
LEMMA AssuranceUpsertProfileInv ==
  ASSUME A!NoneIsNoValue, A!Inv, NEW h \in Handlers, A!UpsertProfile(h) PROVE A!Inv'
<1>0. PICK u \in Few : u = x9[h].user
  BY DEF A!UpsertProfile, A!Inv, A!Working
<1>1. /\ x9[h].pc = "upsert"
      /\ x8' = [x8 EXCEPT ![u] = A!TierOf(x9[h].seen, x6[u])]
      /\ x9' = [x9 EXCEPT ![h] = A!Idle]
      /\ UNCHANGED <<x1, A!facts, x7, A!history>>
  BY <1>0 DEF A!UpsertProfile, A!End
<1>2. /\ x9 \in [Handlers -> A!Job] /\ x8 \in [Few -> A!Tier \cup {None}]
      /\ A!LevelThreeIsReviewed /\ A!ProfileCatchesUp /\ A!Asked /\ x11 \subseteq x12
      /\ \A f, g \in Handlers : f # g => A!Apart(f, g)
      /\ u \notin x12 => x9[h].seen = x1[u]
  BY <1>0, <1>1 DEF A!Inv, A!TypeOK, A!Working
<1>3. A!Idle \in A!Job /\ A!Idle.pc = "idle"
  BY DEF A!Idle, A!Job, A!Level
<1>4. /\ x9' \in [Handlers -> A!Job] /\ x9'[h] = A!Idle
      /\ \A g \in Handlers \ {h} : x9'[g] = x9[g]
  BY <1>1, <1>2, <1>3
<1>5. PICK t : t = A!TierOf(x9[h].seen, x6[u])
  OBVIOUS
<1>6. t \in A!Tier /\ t # None
  BY <1>5 DEF A!TierOf, A!Tier, A!NoneIsNoValue
<1>7. /\ x8' \in [Few -> A!Tier \cup {None}] /\ x8'[u] = t
      /\ \A v \in Few \ {u} : x8'[v] = x8[v]
  <2>1. x8' = [x8 EXCEPT ![u] = t]
    BY <1>1, <1>5
  <2> QED
    BY <1>2, <1>6, <2>1
<1>8. A!TypeOK'
  BY <1>1, <1>4, <1>7 DEF A!Inv, A!TypeOK, A!facts, A!history
<1>9. A!Asked' /\ A!LevelThreeIsReviewed'
  BY <1>1, <1>2 DEF A!Asked, A!LevelThreeIsReviewed, A!facts, A!history
<1>10. A!ProfileCatchesUp'
  <2> SUFFICES ASSUME NEW v \in Few \ x12, A!Busy(v, A!Recomputing)' = {}
               PROVE  A!TierOf(x1[v], x6[v]) =
                         IF x8'[v] = None THEN "UNVERIFIED" ELSE x8'[v]
    BY <1>1 DEF A!ProfileCatchesUp, A!facts, A!history
  <2>1. CASE v = u
    BY <1>2, <1>5, <1>6, <1>7, <2>1
  <2>2. CASE v # u
    <3>1. A!Busy(v, A!Recomputing) = {}
      BY <1>0, <1>4, <2>2 DEF A!Busy
    <3> QED
      BY <1>2, <1>7, <2>2, <3>1 DEF A!ProfileCatchesUp
  <2> QED
    BY <2>1, <2>2
<1>11. /\ \A g \in Handlers : A!Working(g)'
       /\ \A f, g \in Handlers : f # g => A!Apart(f, g)'
  <2>1. UNCHANGED <<x1, x11, x12, x13, x7>> /\ x9'[h].pc = "idle"
    BY <1>1, <1>3, <1>4 DEF A!history
  <2> QED
    BY <1>4, <2>1, AssuranceEnded DEF A!Reviewable
<1> QED
  BY <1>1, <1>2, <1>8, <1>9, <1>10, <1>11 DEF A!Inv, A!history
-----------------------------------------------------------------------------
\* Every step keeps the invariant, and lowers no level but a raced one.
LEMMA AssuranceStep ==
  ASSUME A!NoneIsNoValue, A!Inv, [A!Next]_(A!vars) PROVE A!Inv' /\ A!LevelRises
<1>0. x1 \in [Few -> 0..3]
  BY DEF A!Inv, A!TypeOK, A!Level
<1>1. CASE x1' = x1
  <2>1. A!LevelRises
    BY <1>0, <1>1 DEF A!LevelRises
  <2>2. CASE UNCHANGED A!vars
    <3>1. UNCHANGED <<x1, x2, x3, x4, x5, x6, x7,
                      x8, x9, x10, x11, x12, x13>>
      BY <2>2 DEF A!vars, A!facts, A!history
    <3>2. A!TypeOK' /\ A!Asked' /\ A!LevelThreeIsReviewed' /\ A!ProfileCatchesUp'
      BY <3>1
      DEF A!Inv, A!TypeOK, A!Asked, A!LevelThreeIsReviewed,
          A!ProfileCatchesUp, A!Busy
    <3>3. /\ \A g \in Handlers : A!Working(g)'
          /\ \A f, g \in Handlers : f # g => A!Apart(f, g)'
      BY <3>1 DEF A!Inv, A!Working, A!Apart, A!Reviewable
    <3> QED
      BY <2>1, <3>1, <3>2, <3>3 DEF A!Inv
  <2>3. ASSUME NEW h \in Handlers, A!HandlerStep(h)
        PROVE  A!Inv'
    BY <2>3, AssuranceStartSendInv, AssuranceStartConfirmInv,
       AssuranceStartSmsInv, AssuranceStartDisableInv, AssuranceStartAskInv,
       AssuranceSendCodeInv, AssuranceAskCreateInv, AssuranceStartApproveInv,
       AssuranceStartRejectInv, AssuranceConfirmInv, AssuranceEnableSmsInv,
       AssuranceDisableSmsInv, AssuranceAskUserInv,
       AssuranceCommitApprovalInv, AssuranceCommitRejectionInv,
       AssuranceReadUserInv, AssuranceUpsertProfileInv, AssuranceAbortInv
    DEF A!HandlerStep
  <2> QED
    BY <2>1, <2>2, <2>3 DEF A!Next
<1>2. CASE x1' # x1
  <2>1. PICK h \in Handlers : A!HandlerStep(h)
    BY <1>2 DEF A!Next, A!vars
  <2>2. A!Confirm(h) \/ A!EnableSms(h) \/ A!CommitApproval(h)
    BY <1>2, <2>1
    DEF A!HandlerStep, A!StartSend, A!StartConfirm, A!StartSms,
        A!StartDisable, A!StartAsk, A!SendCode, A!AskCreate, A!StartApprove,
        A!StartReject, A!DisableSms, A!AskUser, A!CommitRejection, A!ReadUser,
        A!UpsertProfile, A!Abort
  <2> QED
    BY <2>2, AssuranceConfirmInv, AssuranceEnableSmsInv,
       AssuranceCommitApprovalInv
<1> QED
  BY <1>1, <1>2

\* What the invariant says of the properties the runs check.
LEMMA AssuranceInvImplies ==
  A!Inv => A!TypeOK /\ A!LevelThreeIsReviewed /\ A!ProfileCatchesUp
  BY DEF A!Inv

-----------------------------------------------------------------------------
(* The browser's session.                                                  *)

\* With the page just loaded, the invariant holds.
LEMMA BrowserInit == ASSUME B!CopiesAreSound, B!NoneIsNoValue, B!Init PROVE B!Inv
<1>1. PICK r \in Pair, c \in Handlers, visited \in BOOLEAN, fresh \in BOOLEAN :
        LET row == IF visited THEN r ELSE None
            token == IF visited /\ fresh THEN r ELSE None
        IN /\ x1 = [access |-> token, refresh |-> row]
           /\ x9 = {row} \ {None} /\ x2 = x9
           /\ x3 = [[k \in Handlers |-> B!NoCall] EXCEPT ![c] =
                         [B!NoCall EXCEPT !.pc = "sent", !.copy = Main,
                                        !.why = "mount", !.good = token # None]]
  BY DEF B!Init
<1>2. /\ x4 = [k \in Handlers |-> B!NoRefresh]
      /\ x5 = [k \in Copies |-> None]
      /\ x6 = B!NoMessage /\ x7 = B!NoMessage
      /\ x8 = "loading"
      /\ x10 = [k \in Pair |-> None]
      /\ x11 = FALSE /\ x12 = None /\ x13 = FALSE
  BY DEF B!Init
<1> DEFINE token == IF visited /\ fresh THEN r ELSE None
<1>3. PICK g \in BOOLEAN : g = (token # None)
  OBVIOUS
<1>4. PICK first : first = [B!NoCall EXCEPT !.pc = "sent", !.copy = Main, !.why = "mount",
                                          !.good = g]
  OBVIOUS
<1>5. x3 = [[k \in Handlers |-> B!NoCall] EXCEPT ![c] = first]
  BY <1>1, <1>3, <1>4
<1>6. B!NoCall \in B!Call /\ B!NoCall.pc = "idle"
  BY DEF B!Call, B!NoCall
<1>7. first \in B!Call /\ first.copy = Main
  BY <1>4, <1>6, B!CopiesAreSound DEF B!Call, B!CopiesAreSound
<1>8. /\ x3 \in [Handlers -> B!Call]
      /\ \A k \in Handlers : x3[k] = first \/ x3[k] = B!NoCall
  BY <1>5, <1>6, <1>7
<1>9. B!NoRefresh \in B!Refresh /\ B!NoMessage \in B!Message
  BY DEF B!NoRefresh, B!Refresh, B!NoMessage, B!Message
<1>10. /\ x1 \in B!Jar /\ x9 \subseteq Pair /\ x2 \subseteq x9
       /\ x1.refresh \in x9 \cup {None}
  BY <1>1 DEF B!Jar, B!NoneIsNoValue
<1>11. B!TypeOK
  BY <1>2, <1>8, <1>9, <1>10 DEF B!TypeOK
<1>12. \A k \in Handlers : x3[k].pc # "idle" => x3[k].copy \in Copies
  BY <1>8, <1>6, <1>7 DEF B!CopiesAreSound
<1> QED
  BY <1>2, <1>10, <1>11, <1>12
  DEF B!Inv, B!Known, B!Refreshing, B!Brought, B!Rotated, B!Leaving,
      B!Entering, B!SignedOutStaysOut, B!LoginTakes, B!NoRefresh, B!NoMessage,
      B!NoneIsNoValue

\* What stays known of rows and refreshes when no token is issued.
LEMMA BrowserRefreshesRest ==
  ASSUME B!Inv, x9' = x9,
         \A r \in Pair : \/ x10'[r] = x10[r]
                         \/ r \in x9 /\ x10'[r] \notin Copies,
         \A c \in Handlers : x3'[c].pc # "idle" => x3'[c].copy \in Copies,
         \A c \in Handlers : \/ x4'[c].pc = "idle"
                             \/ /\ x4'[c] = x4[c] /\ x3'[c] = x3[c]
                                /\ x5'[x3[c].copy] = x5[x3[c].copy]
  PROVE  /\ \A r \in Pair \ x9' : x10'[r] = None
         /\ \A c \in Handlers : B!Refreshing(c)'
<1>1. /\ \A r \in Pair \ x9 : x10[r] = None
      /\ \A c \in Handlers : B!Refreshing(c)
      /\ x9 \subseteq Pair
  BY DEF B!Inv, B!Known, B!TypeOK
<1>2. \A r \in Pair \ x9' : x10'[r] = None
  BY <1>1
<1>3. \A c \in Handlers : B!Refreshing(c)'
  <2> SUFFICES ASSUME NEW c \in Handlers PROVE B!Refreshing(c)'
    OBVIOUS
  <2>1. CASE x4'[c].pc = "idle"
    BY <2>1 DEF B!Refreshing
  <2>2. CASE x4'[c].pc # "idle"
    <3>1. B!Refreshing(c)
      BY <1>1
    <3>2. x4[c].row \in x9 => x4[c].row \in Pair
      BY <1>1
    <3> QED
      BY <2>2, <3>1, <3>2 DEF B!Refreshing
  <2> QED
    BY <2>1, <2>2
<1> QED
  BY <1>2, <1>3

\* And of the rows that answers bring.
LEMMA BrowserAnswersRest ==
  ASSUME B!Inv, None \notin Pair, x9' = x9,
         x1'.refresh \in {x1.refresh, None},
         x7' = x7 \/ x7'.pc # "answered",
         \A r \in Pair : x10'[r] = x10[r] \/ x10'[r] \notin Copies,
         \A c \in Handlers : x4'[c].pc = "idle" \/ x4'[c] = x4[c]
  PROVE  B!Brought'
<1>1. B!Brought /\ x9 \subseteq Pair
  BY DEF B!Inv, B!TypeOK
<1>2. \A r : B!Fresh(r) => B!Fresh(r)'
  <2> SUFFICES ASSUME NEW r, B!Fresh(r) PROVE B!Fresh(r)'
    OBVIOUS
  <2>1. r \in Pair /\ r # x1'.refresh
    BY <1>1 DEF B!Fresh
  <2> QED
    BY <2>1 DEF B!Fresh
<1> QED
  BY <1>1, <1>2 DEF B!Brought

\* A row that was rotated is still about to be answered for.
LEMMA BrowserRestRotated ==
  ASSUME B!Inv, None \notin Pair,
         x1'.refresh \in {x1.refresh, None},
         \A r \in Pair : x10'[r] = x10[r] \/ x10'[r] \notin Copies,
         \A c \in Handlers : x4[c].pc = "issued" =>
            \/ x4'[c] = x4[c] /\ x3'[c].copy = x3[c].copy
            \/ x10'[x4[c].row] \notin Copies
  PROVE  B!Rotated'
<1>1. B!Rotated /\ x1.refresh \in Pair \cup {None}
  BY DEF B!Inv, B!Known, B!TypeOK
<1>2. SUFFICES ASSUME x1'.refresh # None, x10'[x1'.refresh] \in Copies
               PROVE  \E c \in Handlers : /\ x4'[c].pc = "issued"
                                          /\ x4'[c].row = x1'.refresh
                                          /\ x3'[c].copy = x10'[x1'.refresh]
  BY DEF B!Rotated
<1>3. x1'.refresh = x1.refresh /\ x10'[x1.refresh] = x10[x1.refresh]
  BY <1>1, <1>2
<1>4. PICK c \in Handlers : /\ x4[c].pc = "issued" /\ x4[c].row = x1.refresh
                            /\ x3[c].copy = x10[x1.refresh]
  BY <1>1, <1>2, <1>3 DEF B!Rotated
<1> QED
  BY <1>2, <1>3, <1>4

\* What the callers of the calls in cs make of their end.
LEMMA BrowserSettles ==
  ASSUME B!Inv, NEW cs \in SUBSET Handlers, NEW ok \in BOOLEAN, B!Settle(cs, ok),
         \A k \in cs : x3'[k].pc = "idle",
         \A k \in Handlers \ cs : x3'[k] = x3[k]
  PROVE  /\ B!Entering' /\ B!LoginTakes'
         /\ x8' \in {"loading", "unauthenticated", "authenticated"}
         /\ x13' \in BOOLEAN
<1>1. /\ B!Entering /\ B!LoginTakes /\ x13 \in BOOLEAN
      /\ x8 \in {"loading", "unauthenticated", "authenticated"}
  BY DEF B!Inv, B!TypeOK
<1>2. \A k \in B!Asking(Handlers)' : k \in B!Asking(Handlers \ cs) /\ x3'[k].why = x3[k].why
  BY DEF B!Asking
<1>3. /\ B!Asking(Handlers \ cs) \subseteq B!Asking(Handlers)
      /\ B!Asking(cs) \subseteq B!Asking(Handlers)
  BY DEF B!Asking
<1>4. CASE \E c \in B!Asking(cs) : x3[c].why = "login"
  BY <1>1, <1>2, <1>4 DEF B!Settle, B!Entering, B!LoginTakes
<1>5. CASE ~ \E c \in B!Asking(cs) : x3[c].why = "login"
  <2>1. x13' = x13
    BY <1>5 DEF B!Settle
  <2>2. x13 => B!Asking(cs) = {}
    BY <1>1, <1>3, <1>5 DEF B!Entering
  <2>3. CASE x13
    <3>1. x8' = x8
      BY <2>2, <2>3 DEF B!Settle
    <3>2. \A k \in B!Asking(Handlers)' : x3'[k].why = "login"
      BY <1>1, <1>2, <1>3, <2>3 DEF B!Entering
    <3> QED
      BY <1>1, <2>1, <2>3, <3>1, <3>2 DEF B!Entering, B!LoginTakes
  <2>4. CASE ~x13
    <3>1. x8' \in {"loading", "unauthenticated", "authenticated"}
      BY <1>1 DEF B!Settle
    <3> QED
      BY <1>1, <2>1, <2>4, <3>1 DEF B!Entering, B!LoginTakes
  <2> QED
    BY <2>3, <2>4
<1> QED
  BY <1>4, <1>5
-----------------------------------------------------------------------------
(* The calls.                                                              *)

\* A call ends or begins, and refreshes go on.
LEMMA BrowserCallMoves ==
  ASSUME B!NoneIsNoValue, B!Inv, NEW c \in Handlers, x4[c].pc = "idle",
         NEW v \in B!Call, x3' = [x3 EXCEPT ![c] = v],
         v.pc # "idle" => v.copy \in Copies,
         UNCHANGED <<x1, x2, x4, x5, x6, x7, x9, x10,
                     x11, x12>>,
         x8' \in {"loading", "unauthenticated", "authenticated"},
         x13' \in BOOLEAN,
         B!Entering', B!LoginTakes'
  PROVE  B!Inv'
<1>1. /\ B!TypeOK /\ B!Known /\ B!Leaving /\ B!SignedOutStaysOut /\ x3 \in [Handlers -> B!Call]
      /\ \A k \in Handlers : B!Refreshing(k)
  BY DEF B!Inv, B!TypeOK
<1>2. x3' \in [Handlers -> B!Call] /\ x3'[c] = v /\ \A k \in Handlers \ {c} : x3'[k] = x3[k]
  BY <1>1
<1>3. B!TypeOK'
  BY <1>1, <1>2 DEF B!TypeOK
<1>4. \A k \in Handlers : x3'[k].pc # "idle" => x3'[k].copy \in Copies
  BY <1>1, <1>2 DEF B!Refreshing
<1>5. \A k \in Handlers : x4[k].pc # "idle" => x3'[k] = x3[k]
  BY <1>2
<1>6. B!Known' /\ (\A k \in Handlers : B!Refreshing(k)') /\ B!Brought'
  <2>1. /\ x1'.refresh \in {x1.refresh, None} /\ None \notin Pair
        /\ \A k \in Handlers : x4'[k] = x4[k] /\ x5' = x5
    BY DEF B!NoneIsNoValue
  <2>2. /\ \A r \in Pair \ x9' : x10'[r] = None
        /\ \A k \in Handlers : B!Refreshing(k)'
        /\ B!Brought'
    BY <1>4, <1>5, <2>1, BrowserRefreshesRest, BrowserAnswersRest
  <2> QED
    BY <1>1, <2>2 DEF B!Known
<1>7. B!Rotated'
  <2>1. /\ x1'.refresh \in {x1.refresh, None} /\ None \notin Pair
        /\ \A k \in Handlers : x4[k].pc = "issued" =>
              x4'[k] = x4[k] /\ x3'[k].copy = x3[k].copy
    BY <1>5 DEF B!NoneIsNoValue
  <2> QED
    BY <2>1, BrowserRestRotated
<1>8. B!Leaving' /\ B!SignedOutStaysOut'
  BY <1>1 DEF B!Leaving, B!SignedOutStaysOut
<1> QED
  BY <1>3, <1>6, <1>7, <1>8 DEF B!Inv

\* A call that was sent has no refresh of its own.
LEMMA BrowserNoneOfItsOwn ==
  ASSUME B!Inv, NEW c \in Handlers, x3[c].pc # "wait" PROVE x4[c].pc = "idle"
BY DEF B!Inv, B!Refreshing

\* A request that is sent keeps the invariant.
LEMMA BrowserStartCallInv ==
  ASSUME B!NoneIsNoValue, B!Inv, NEW c \in Handlers, NEW copy \in Copies, B!StartCall(c, copy)
  PROVE  B!Inv'
<1> DEFINE v == [pc |-> "sent", copy |-> copy, why |-> "data",
                 good |-> x1.access # None, on |-> None]
<1>1. v \in B!Call
  BY DEF B!Call
<1>2. /\ x3' = [x3 EXCEPT ![c] = v] /\ x4[c].pc = "idle"
      /\ UNCHANGED <<x1, x2, x4, x5, x6, x7, x9, x10,
                     x11, x12, x8, x13>>
  BY DEF B!StartCall, B!Send, B!Idle, B!history
<1>3. /\ B!Entering /\ B!LoginTakes /\ x3 \in [Handlers -> B!Call] /\ x13 \in BOOLEAN
      /\ x8 \in {"loading", "unauthenticated", "authenticated"}
  BY DEF B!Inv, B!TypeOK
<1>4. B!Entering' /\ B!LoginTakes'
  BY <1>2, <1>3 DEF B!Entering, B!LoginTakes, B!Asking
<1> QED
  BY <1>1, <1>2, <1>3, <1>4, BrowserCallMoves

\* A call that ends is settled.
LEMMA BrowserCallEnds ==
  ASSUME B!NoneIsNoValue, B!Inv, NEW c \in Handlers, x4[c].pc = "idle",
         NEW ok \in BOOLEAN, B!Settle({c}, ok),
         x3' = [x3 EXCEPT ![c] = B!NoCall],
         UNCHANGED <<x1, x2, x4, x5, x6, x7, x9, x10,
                     x11, x12>>
  PROVE  B!Inv'
<1>1. B!NoCall \in B!Call /\ B!NoCall.pc = "idle"
  BY DEF B!NoCall, B!Call
<1>2. x3 \in [Handlers -> B!Call]
  BY DEF B!Inv, B!TypeOK
<1>3. x3'[c].pc = "idle" /\ \A k \in Handlers \ {c} : x3'[k] = x3[k]
  BY <1>1, <1>2
<1>4. /\ B!Entering' /\ B!LoginTakes' /\ x13' \in BOOLEAN
      /\ x8' \in {"loading", "unauthenticated", "authenticated"}
  BY <1>3, BrowserSettles
<1> QED
  BY <1>1, <1>4, BrowserCallMoves

\* An answer that is not a 401 keeps the invariant.
LEMMA BrowserAnsweredInv ==
  ASSUME B!NoneIsNoValue, B!Inv, NEW c \in Handlers, B!Answered(c) PROVE B!Inv'
BY BrowserCallEnds, BrowserNoneOfItsOwn DEF B!Answered

\* A request that fails keeps the invariant.
LEMMA BrowserFailsInv ==
  ASSUME B!NoneIsNoValue, B!Inv, NEW c \in Handlers, B!Fails(c) PROVE B!Inv'
BY BrowserCallEnds, BrowserNoneOfItsOwn DEF B!Fails

\* A call that is refused joins its copy's refresh, or starts it with the
\* cookie of this moment.
LEMMA BrowserUnauthorizedInv ==
  ASSUME B!NoneIsNoValue, B!Inv, NEW c \in Handlers, B!Unauthorized(c) PROVE B!Inv'
<1>0. /\ x3[c].pc = "sent" /\ x3[c] \in B!Call /\ x3 \in [Handlers -> B!Call]
      /\ x4 \in [Handlers -> B!Refresh] /\ x5 \in [Copies -> Handlers \cup {None}]
      /\ x11 \in BOOLEAN /\ x1 \in B!Jar
      /\ \A k \in Handlers : B!Refreshing(k)
      /\ B!Known /\ B!Rotated /\ B!Leaving /\ B!Brought /\ B!Entering /\ B!LoginTakes
      /\ B!SignedOutStaysOut
  BY DEF B!Inv, B!TypeOK, B!Unauthorized
<1>1. PICK copy \in Copies : copy = x3[c].copy
  BY <1>0 DEF B!Refreshing
<1>2. x4[c].pc = "idle"
  BY <1>0, BrowserNoneOfItsOwn
<1>3. UNCHANGED <<x1, x2, x6, x7, x8, x9, x10, x12, x13>>
  BY DEF B!Unauthorized
<1>4. ASSUME NEW n \in Handlers, x3' = [x3 EXCEPT ![c].pc = "wait", ![c].on = n]
      PROVE  \E v \in B!Call :
               /\ x3' = [x3 EXCEPT ![c] = v]
               /\ v.pc = "wait" /\ v.on = n /\ v.copy = copy /\ v.why = x3[c].why
  <2>1. PICK v : v = [x3[c] EXCEPT !.pc = "wait", !.on = n]
    OBVIOUS
  <2>2. v \in B!Call /\ v.pc = "wait" /\ v.on = n /\ v.copy = copy /\ v.why = x3[c].why
    BY <1>0, <1>1, <2>1 DEF B!Call
  <2> QED
    BY <1>4, <2>1, <2>2
<1>5. ASSUME NEW v \in B!Call, x3' = [x3 EXCEPT ![c] = v],
             v.pc = "wait", v.why = x3[c].why
      PROVE  B!Entering' /\ B!LoginTakes'
  <2>1. x3'[c] = v /\ \A k \in Handlers \ {c} : x3'[k] = x3[k]
    BY <1>0, <1>5
  <2> QED
    BY <1>0, <1>3, <1>5, <2>1 DEF B!Entering, B!LoginTakes, B!Asking
<1>6. CASE x5[copy] # None
  <2>1. /\ x3' = [x3 EXCEPT ![c].pc = "wait", ![c].on = x5[copy]]
        /\ x5[copy] \in Handlers
        /\ UNCHANGED <<x4, x5, x11>>
    BY <1>0, <1>1, <1>6 DEF B!Unauthorized, B!Sharing
  <2>2. PICK v \in B!Call : /\ x3' = [x3 EXCEPT ![c] = v]
                            /\ v.pc = "wait" /\ v.copy = copy /\ v.why = x3[c].why
    BY <1>4, <2>1
  <2>3. B!Entering' /\ B!LoginTakes'
    BY <1>5, <2>2
  <2>4. /\ x8' \in {"loading", "unauthenticated", "authenticated"}
        /\ x13' \in BOOLEAN
    BY <1>3 DEF B!Inv, B!TypeOK
  <2> QED
    BY <1>2, <1>3, <2>1, <2>2, <2>3, <2>4, BrowserCallMoves
<1>7. CASE x5[copy] = None
  <2> DEFINE new == [pc |-> "sent", row |-> x1.refresh, new |-> None]
  <2>1. /\ x3' = [x3 EXCEPT ![c].pc = "wait", ![c].on = c]
        /\ x4' = [x4 EXCEPT ![c] = new]
        /\ x5' = [x5 EXCEPT ![copy] = c]
        /\ x11' = (x11 \/ x6.pc # "idle")
    BY <1>1, <1>7 DEF B!Unauthorized, B!Sharing
  <2>2. PICK v \in B!Call : /\ x3' = [x3 EXCEPT ![c] = v]
                            /\ v.pc = "wait" /\ v.on = c /\ v.copy = copy
                            /\ v.why = x3[c].why
    BY <1>4, <2>1
  <2>3. new \in B!Refresh
    BY <1>0 DEF B!Refresh, B!Jar
  <2>4. /\ x3' \in [Handlers -> B!Call] /\ x3'[c] = v
        /\ \A k \in Handlers \ {c} : x3'[k] = x3[k]
    BY <1>0, <2>2
  <2>5. /\ x4' \in [Handlers -> B!Refresh] /\ x4'[c] = new
        /\ \A k \in Handlers \ {c} : x4'[k] = x4[k]
    BY <1>0, <2>1, <2>3
  <2>6. /\ x5' \in [Copies -> Handlers \cup {None}] /\ x5'[copy] = c
        /\ \A x \in Copies \ {copy} : x5'[x] = x5[x]
    BY <1>0, <2>1
  <2>7. B!TypeOK'
    BY <1>3, <2>1, <2>4, <2>5, <2>6 DEF B!Inv, B!TypeOK
  <2>8. B!Entering' /\ B!LoginTakes'
    BY <1>5, <2>2
  <2>9. B!Refreshing(c)'
    <3>1. x1.refresh # None => x10[x1.refresh] # copy
      BY <1>0, <1>1, <1>7 DEF B!Rotated, B!Refreshing, B!NoneIsNoValue
    <3>2. x1.refresh \in x9 \cup {None}
      BY <1>0 DEF B!Known
    <3> QED
      BY <1>3, <2>2, <2>4, <2>5, <2>6, <3>1, <3>2 DEF B!Refreshing
  <2>10. ASSUME NEW k \in Handlers \ {c}
         PROVE  B!Refreshing(k)'
    <3>1. x4[k].pc # "idle" => x3[k].copy \in Copies \ {copy}
      BY <1>0, <1>7 DEF B!Refreshing, B!NoneIsNoValue
    <3>2. x4[k].pc # "idle" => x5'[x3[k].copy] = x5[x3[k].copy]
      BY <2>6, <3>1
    <3> QED
      BY <1>0, <1>3, <2>4, <2>5, <3>2 DEF B!Refreshing
  <2>11. B!Brought'
    <3>1. \A r : B!Fresh(r) => B!Fresh(r)'
      BY <1>3, <2>5 DEF B!Fresh
    <3>2. \A k \in Handlers : x4'[k].pc = "issued" => k # c
      BY <2>5
    <3> QED
      BY <1>0, <1>3, <2>5, <3>1, <3>2 DEF B!Brought
  <2>12. B!Rotated'
    <3>1. \A k \in Handlers : x4[k].pc = "issued" =>
             x4'[k] = x4[k] /\ x3'[k].copy = x3[k].copy
      BY <1>2, <2>4, <2>5
    <3> QED
      BY <1>3, <3>1, BrowserRestRotated DEF B!NoneIsNoValue
  <2>13. B!Known' /\ B!SignedOutStaysOut'
    BY <1>0, <1>3 DEF B!Known, B!SignedOutStaysOut
  <2>14. B!Leaving'
    <3>1. x12 # None => x1.refresh = None
      BY <1>0 DEF B!SignedOutStaysOut
    <3> QED
      BY <1>0, <1>3, <2>1, <2>5, <3>1 DEF B!Leaving
  <2> QED
    BY <2>7, <2>8, <2>9, <2>10, <2>11, <2>12, <2>13, <2>14 DEF B!Inv
<1> QED
  BY <1>0, <1>1, <1>6, <1>7

\* What the end of the refresh of c leaves alone.
LEMMA BrowserOthersRefresh ==
  ASSUME B!Inv, NEW c \in Handlers, x4[c].pc # "idle", B!EndRefresh(c),
         \A k \in Handlers \ B!Waiting(c) : x3'[k] = x3[k]
  PROVE  /\ x4' \in [Handlers -> B!Refresh] /\ x4'[c] = B!NoRefresh
         /\ x5' \in [Copies -> Handlers \cup {None}]
         /\ \A k \in Handlers \ {c} : x4'[k] = x4[k]
         /\ \A k \in Handlers \ {c} : x4[k].pc # "idle" =>
               /\ x3'[k] = x3[k]
               /\ x5'[x3[k].copy] = x5[x3[k].copy]
<1>0. /\ x4 \in [Handlers -> B!Refresh] /\ x5 \in [Copies -> Handlers \cup {None}]
      /\ \A k \in Handlers : B!Refreshing(k)
  BY DEF B!Inv, B!TypeOK
<1>1. B!NoRefresh \in B!Refresh
  BY DEF B!NoRefresh, B!Refresh
<1>2. /\ x4' = [x4 EXCEPT ![c] = B!NoRefresh]
      /\ x5' = [x5 EXCEPT ![x3[c].copy] = None]
  BY DEF B!EndRefresh
<1>3. /\ x4' \in [Handlers -> B!Refresh] /\ x4'[c] = B!NoRefresh
      /\ x5' \in [Copies -> Handlers \cup {None}]
      /\ \A k \in Handlers \ {c} : x4'[k] = x4[k]
      /\ \A x \in Copies : x # x3[c].copy => x5'[x] = x5[x]
  BY <1>0, <1>1, <1>2
<1>4. ASSUME NEW k \in Handlers \ {c}, x4[k].pc # "idle"
      PROVE  x3'[k] = x3[k] /\ x5'[x3[k].copy] = x5[x3[k].copy]
  <2>1. k \notin B!Waiting(c)
    BY <1>0, <1>4 DEF B!Refreshing, B!Waiting
  <2>2. x3[k].copy \in Copies /\ x3[k].copy # x3[c].copy
    BY <1>0, <1>4 DEF B!Refreshing
  <2> QED
    BY <1>3, <2>1, <2>2
<1> QED
  BY <1>3, <1>4

\* The answer to a refresh that worked keeps the invariant.
LEMMA BrowserRefreshedInv ==
  ASSUME B!NoneIsNoValue, B!Inv, NEW c \in Handlers, B!Refreshed(c) PROVE B!Inv'
<1>0. /\ x3 \in [Handlers -> B!Call] /\ x4[c] \in B!Refresh
      /\ x9 \subseteq Pair /\ x2 \subseteq x9
      /\ \A k \in Handlers : B!Refreshing(k)
      /\ B!Known /\ B!Leaving /\ B!Brought /\ B!Entering /\ B!LoginTakes
      /\ x4[c].pc = "issued" /\ B!EndRefresh(c)
  BY DEF B!Inv, B!TypeOK, B!Refreshed
<1>1. PICK new \in Pair : new = x4[c].new
  BY <1>0 DEF B!Brought, B!Fresh
<1>2. /\ x1' = [access |-> new, refresh |-> new]
      /\ x3' = [k \in Handlers |-> IF k \in B!Waiting(c)
                                  THEN [x3[k] EXCEPT !.pc = "again", !.good = TRUE,
                                                       !.on = None]
                                  ELSE x3[k]]
      /\ UNCHANGED <<x2, x6, x7, x8, x9, x10, x11, x12, x13>>
  BY <1>1 DEF B!Refreshed, B!history
<1>3. /\ B!Fresh(new) /\ new # None
      /\ x7.pc = "answered" => new # x7.row
      /\ \A d \in Handlers \ {c} : x4[d].pc = "issued" => new # x4[d].new
  BY <1>0, <1>1 DEF B!Brought, B!NoneIsNoValue
<1>4. ASSUME NEW k \in Handlers
      PROVE  /\ x3'[k] \in B!Call /\ x3'[k].why = x3[k].why
             /\ x3'[k].copy = x3[k].copy
             /\ x3'[k].pc = "idle" <=> x3[k].pc = "idle"
             /\ k \notin B!Waiting(c) => x3'[k] = x3[k]
  <2>1. CASE k \in B!Waiting(c)
    <3>1. PICK v : v = [x3[k] EXCEPT !.pc = "again", !.good = TRUE, !.on = None]
      OBVIOUS
    <3>2. v \in B!Call /\ v.why = x3[k].why /\ v.copy = x3[k].copy /\ v.pc = "again"
      BY <1>0, <3>1 DEF B!Call
    <3> QED
      BY <1>2, <2>1, <3>1, <3>2 DEF B!Waiting
  <2>2. CASE k \notin B!Waiting(c)
    BY <1>0, <1>2, <2>2
  <2> QED
    BY <2>1, <2>2
<1>5. x3' \in [Handlers -> B!Call]
  <2>1. DOMAIN x3' = Handlers /\ x3' = [k \in Handlers |-> x3'[k]]
    BY <1>2
  <2> QED
    BY <1>4, <2>1
<1>6. /\ x4' \in [Handlers -> B!Refresh] /\ x4'[c] = B!NoRefresh
      /\ x5' \in [Copies -> Handlers \cup {None}]
      /\ \A k \in Handlers \ {c} : x4'[k] = x4[k]
      /\ \A k \in Handlers \ {c} : x4[k].pc # "idle" =>
            /\ x3'[k] = x3[k]
            /\ x5'[x3[k].copy] = x5[x3[k].copy]
  BY <1>0, <1>4, BrowserOthersRefresh
<1>7. B!TypeOK'
  <2>1. x1' \in B!Jar
    BY <1>2 DEF B!Jar
  <2> QED
    BY <1>2, <1>5, <1>6, <2>1 DEF B!Inv, B!TypeOK
<1>8. (\A k \in Handlers : B!Refreshing(k)') /\ \A r \in Pair \ x9' : x10'[r] = None
  <2>1. \A k \in Handlers : x3'[k].pc # "idle" => x3'[k].copy \in Copies
    BY <1>0, <1>4 DEF B!Refreshing
  <2>2. \A k \in Handlers : \/ x4'[k].pc = "idle"
                            \/ /\ x4'[k] = x4[k] /\ x3'[k] = x3[k]
                               /\ x5'[x3[k].copy] = x5[x3[k].copy]
    BY <1>6 DEF B!NoRefresh
  <2> QED
    BY <1>2, <2>1, <2>2, BrowserRefreshesRest
<1>9. B!Known'
  BY <1>0, <1>2, <1>3, <1>8 DEF B!Known, B!Fresh
<1>10. B!Brought'
  <2>1. \A r : B!Fresh(r) /\ r # new => B!Fresh(r)'
    <3>1. x1'.refresh = new /\ x9' = x9 /\ x10' = x10
      BY <1>2
    <3>2. \A k \in Handlers : x4'[k].pc # "idle" => x4'[k] = x4[k]
      BY <1>6 DEF B!NoRefresh
    <3> QED
      BY <3>1, <3>2 DEF B!Fresh
  <2>2. \A k \in Handlers : x4'[k].pc = "issued" => k # c /\ x4'[k] = x4[k]
    BY <1>6 DEF B!NoRefresh
  <2>3. x7.pc = "answered" => B!Fresh(x7.row)'
    BY <1>0, <1>2, <1>3, <2>1 DEF B!Brought
  <2>4. ASSUME NEW k \in Handlers, x4'[k].pc = "issued"
        PROVE  /\ x4'[k] = x4[k] /\ B!Fresh(x4[k].new)'
               /\ x7.pc = "answered" => x4[k].new # x7.row
               /\ \A d \in Handlers \ {k} : x4'[d].pc = "issued" =>
                     x4[k].new # x4'[d].new
    <3>1. k # c /\ x4'[k] = x4[k] /\ x4[k].pc = "issued"
      BY <2>2, <2>4
    <3>2. B!Fresh(x4[k].new)'
      BY <1>0, <1>3, <2>1, <3>1 DEF B!Brought
    <3>3. ASSUME NEW d \in Handlers \ {k}, x4'[d].pc = "issued"
          PROVE  x4[k].new # x4[d].new
      BY <1>0, <2>2, <3>1, <3>3 DEF B!Brought
    <3> QED
      BY <1>0, <2>2, <3>1, <3>2, <3>3 DEF B!Brought
  <2> QED
    BY <1>2, <2>3, <2>4 DEF B!Brought
<1>11. B!Rotated'
  BY <1>2, <1>3 DEF B!Rotated, B!Fresh
<1>12. x12 = None /\ (x6.pc # "idle" => x11)
  BY <1>0 DEF B!Leaving, B!Refreshing
<1>13. B!Leaving' /\ B!SignedOutStaysOut'
  BY <1>0, <1>2, <1>12 DEF B!Leaving, B!SignedOutStaysOut
<1>14. B!Entering' /\ B!LoginTakes'
  BY <1>0, <1>2, <1>4 DEF B!Entering, B!LoginTakes, B!Asking
<1> QED
  BY <1>7, <1>8, <1>9, <1>10, <1>11, <1>13, <1>14 DEF B!Inv

\* The answer to a refresh that did not work keeps the invariant.
LEMMA BrowserNotRefreshedInv ==
  ASSUME B!NoneIsNoValue, B!Inv, NEW c \in Handlers, B!NotRefreshed(c) PROVE B!Inv'
<1>0. /\ x3 \in [Handlers -> B!Call] /\ x4[c] \in B!Refresh
      /\ x9 \subseteq Pair /\ x2 \subseteq x9
      /\ x10 \in [Pair -> Copies \cup {None, "logout", "elsewhere", "unheard"}]
      /\ \A k \in Handlers : B!Refreshing(k)
      /\ B!Known /\ B!Leaving /\ B!SignedOutStaysOut
      /\ x4[c].pc # "idle" /\ B!EndRefresh(c) /\ B!Settle(B!Waiting(c), FALSE)
      /\ UNCHANGED <<x1, x2, x6, x7, x9, x11, x12>>
  BY DEF B!Inv, B!TypeOK, B!NotRefreshed
<1>1. B!NoCall \in B!Call /\ B!NoCall.pc = "idle"
  BY DEF B!NoCall, B!Call
<1>2. x3' = [k \in Handlers |-> IF k \in B!Waiting(c) THEN B!NoCall ELSE x3[k]]
  BY DEF B!NotRefreshed
<1>3. /\ x3' \in [Handlers -> B!Call]
      /\ \A k \in B!Waiting(c) : x3'[k].pc = "idle"
      /\ \A k \in Handlers \ B!Waiting(c) : x3'[k] = x3[k]
      /\ B!Waiting(c) \in SUBSET Handlers
  BY <1>0, <1>1, <1>2 DEF B!Waiting
<1>4. PICK row \in Pair \cup {None} : row = x4[c].row
  BY <1>0 DEF B!Refresh
<1>5. /\ x4[c].pc = "issued" => row \in x9
      /\ x10' = IF x4[c].pc = "issued"
                    THEN [x10 EXCEPT ![row] = "unheard"] ELSE x10
  BY <1>0, <1>4 DEF B!NotRefreshed, B!Refreshing
<1>6. /\ x10' \in [Pair -> Copies \cup {None, "logout", "elsewhere", "unheard"}]
      /\ \A r \in Pair : \/ x10'[r] = x10[r]
                         \/ r \in x9 /\ x10'[r] \notin Copies
      /\ x4[c].pc = "issued" => x10'[row] \notin Copies
  BY <1>0, <1>4, <1>5 DEF B!NoneIsNoValue
<1>7. /\ x4' \in [Handlers -> B!Refresh] /\ x4'[c] = B!NoRefresh
      /\ x5' \in [Copies -> Handlers \cup {None}]
      /\ \A k \in Handlers \ {c} : x4'[k] = x4[k]
      /\ \A k \in Handlers \ {c} : x4[k].pc # "idle" =>
            /\ x3'[k] = x3[k]
            /\ x5'[x3[k].copy] = x5[x3[k].copy]
  BY <1>0, <1>3, BrowserOthersRefresh
<1>8. /\ B!Entering' /\ B!LoginTakes' /\ x13' \in BOOLEAN
      /\ x8' \in {"loading", "unauthenticated", "authenticated"}
  BY <1>0, <1>3, BrowserSettles
<1>9. B!TypeOK'
  BY <1>0, <1>3, <1>6, <1>7, <1>8 DEF B!Inv, B!TypeOK
<1>10. B!Known' /\ (\A k \in Handlers : B!Refreshing(k)') /\ B!Brought'
  <2>1. \A k \in Handlers : x3'[k].pc # "idle" => x3'[k].copy \in Copies
    BY <1>0, <1>3 DEF B!Refreshing
  <2>2. \A k \in Handlers : \/ x4'[k].pc = "idle"
                            \/ /\ x4'[k] = x4[k] /\ x3'[k] = x3[k]
                               /\ x5'[x3[k].copy] = x5[x3[k].copy]
    BY <1>7 DEF B!NoRefresh
  <2>3. (\A r \in Pair \ x9' : x10'[r] = None) /\ \A k \in Handlers : B!Refreshing(k)'
    BY <1>0, <1>6, <2>1, <2>2, BrowserRefreshesRest
  <2>4. B!Brought'
    BY <1>0, <1>6, <2>2, BrowserAnswersRest DEF B!NoneIsNoValue
  <2> QED
    BY <1>0, <2>3, <2>4 DEF B!Known
<1>11. B!Rotated'
  <2>1. \A k \in Handlers : x4[k].pc = "issued" =>
            \/ x4'[k] = x4[k] /\ x3'[k].copy = x3[k].copy
            \/ x10'[x4[k].row] \notin Copies
    BY <1>4, <1>6, <1>7
  <2> QED
    BY <1>0, <1>6, <2>1, BrowserRestRotated DEF B!NoneIsNoValue
<1>12. B!Leaving' /\ B!SignedOutStaysOut'
  BY <1>0, <1>7 DEF B!Leaving, B!SignedOutStaysOut, B!NoRefresh
<1> QED
  BY <1>8, <1>9, <1>10, <1>11, <1>12 DEF B!Inv
-----------------------------------------------------------------------------
(* The refresh on the server.                                              *)

\* The refresh of c goes on to v, and no row is issued.
LEMMA BrowserRefreshMoves ==
  ASSUME B!NoneIsNoValue, B!Inv, NEW c \in Handlers, x4[c].pc \in {"sent", "checked"},
         NEW v \in B!Refresh, x4' = [x4 EXCEPT ![c] = v],
         v.pc \in {"checked", "refused"}, v.row = x4[c].row,
         v.pc = "checked" => v.row # None,
         x2' \subseteq x2,
         x10' \in [Pair -> Copies \cup {None, "logout", "elsewhere", "unheard"}],
         \A r \in Pair : \/ x10'[r] = x10[r]
                         \/ r \in x9 /\ x10'[r] \notin Copies,
         UNCHANGED <<x1, x3, x5, x6, x7, x8, x9, x11, x12,
                     x13>>
  PROVE  B!Inv'
<1>0. /\ x4 \in [Handlers -> B!Refresh] /\ x9 \subseteq Pair
      /\ \A k \in Handlers : B!Refreshing(k)
      /\ B!Known /\ B!Leaving /\ B!Brought /\ B!Entering /\ B!LoginTakes /\ B!SignedOutStaysOut
  BY DEF B!Inv, B!TypeOK
<1>1. /\ x4' \in [Handlers -> B!Refresh] /\ x4'[c] = v
      /\ \A k \in Handlers \ {c} : x4'[k] = x4[k]
  BY <1>0
<1>2. B!TypeOK'
  BY <1>1 DEF B!Inv, B!TypeOK
<1>3. \A k \in Handlers : B!Refreshing(k)'
  <2> SUFFICES ASSUME NEW k \in Handlers PROVE B!Refreshing(k)'
    OBVIOUS
  <2>1. B!Refreshing(k) /\ (x4[k].row \in x9 => x4[k].row \in Pair)
    BY <1>0
  <2>2. CASE k = c
    BY <1>1, <2>1, <2>2 DEF B!Refreshing
  <2>3. CASE k # c
    BY <1>1, <2>1, <2>3 DEF B!Refreshing
  <2> QED
    BY <2>2, <2>3
<1>4. B!Known'
  BY <1>0 DEF B!Known
<1>5. B!Brought'
  <2>1. \A r : B!Fresh(r) => B!Fresh(r)'
    BY <1>0, <1>1 DEF B!Fresh
  <2>2. \A k \in Handlers : x4'[k].pc = "issued" => x4'[k] = x4[k]
    BY <1>1
  <2> QED
    BY <1>0, <2>1, <2>2 DEF B!Brought
<1>6. B!Rotated'
  <2>1. \A k \in Handlers : x4[k].pc = "issued" => x4'[k] = x4[k]
    BY <1>1
  <2> QED
    BY <2>1, BrowserRestRotated DEF B!NoneIsNoValue
<1>7. B!Leaving' /\ B!SignedOutStaysOut'
  BY <1>0, <1>1 DEF B!Leaving, B!SignedOutStaysOut
<1>8. B!Entering' /\ B!LoginTakes'
  BY <1>0 DEF B!Entering, B!LoginTakes, B!Asking
<1> QED
  BY <1>2, <1>3, <1>4, <1>5, <1>6, <1>7, <1>8 DEF B!Inv

\* The server looking up the row of a refresh keeps the invariant.
LEMMA BrowserCheckRowInv ==
  ASSUME B!NoneIsNoValue, B!Inv, NEW c \in Handlers, B!CheckRow(c) PROVE B!Inv'
<1>0. /\ x4[c] \in B!Refresh /\ x2 \subseteq Pair
      /\ x10 \in [Pair -> Copies \cup {None, "logout", "elsewhere", "unheard"}]
  BY DEF B!Inv, B!TypeOK
<1>1. PICK pc \in {"checked", "refused"} :
         /\ pc = "checked" => x4[c].row \in x2
         /\ x4' = [x4 EXCEPT ![c].pc = pc]
  BY DEF B!CheckRow
<1>2. PICK v : v = [x4[c] EXCEPT !.pc = pc]
  OBVIOUS
<1>3. v \in B!Refresh /\ v.pc = pc /\ v.row = x4[c].row
  BY <1>0, <1>2 DEF B!Refresh
<1>4. x4' = [x4 EXCEPT ![c] = v]
  BY <1>1, <1>2
<1>5. v.pc = "checked" => v.row # None
  BY <1>0, <1>1, <1>3 DEF B!NoneIsNoValue
<1> QED
  BY <1>0, <1>3, <1>4, <1>5, BrowserRefreshMoves DEF B!CheckRow, B!history

\* A rotation that fails keeps the invariant.
LEMMA BrowserRotateFailsInv ==
  ASSUME B!NoneIsNoValue, B!Inv, NEW c \in Handlers, B!RotateFails(c) PROVE B!Inv'
<1>0. /\ x4[c] \in B!Refresh /\ x2 \subseteq Pair
      /\ x10 \in [Pair -> Copies \cup {None, "logout", "elsewhere", "unheard"}]
      /\ B!Refreshing(c) /\ x4[c].pc = "checked" /\ x9 \subseteq Pair
  BY DEF B!Inv, B!TypeOK, B!RotateFails
<1>1. PICK row \in x9 : row = x4[c].row
  BY <1>0 DEF B!Refreshing
<1>2. x10' = [x10 EXCEPT ![row] = "unheard"] /\ x2' = x2 \ {row}
  BY <1>1 DEF B!RotateFails
<1>3. /\ x10' \in [Pair -> Copies \cup {None, "logout", "elsewhere", "unheard"}]
      /\ \A r \in Pair : \/ x10'[r] = x10[r]
                         \/ r \in x9 /\ x10'[r] \notin Copies
  BY <1>0, <1>1, <1>2 DEF B!NoneIsNoValue
<1>4. PICK v : v = [x4[c] EXCEPT !.pc = "refused"]
  OBVIOUS
<1>5. v \in B!Refresh /\ v.pc = "refused" /\ v.row = x4[c].row
  BY <1>0, <1>4 DEF B!Refresh
<1>6. x4' = [x4 EXCEPT ![c] = v]
  BY <1>4 DEF B!RotateFails
<1> QED
  BY <1>0, <1>2, <1>3, <1>5, <1>6, BrowserRefreshMoves DEF B!RotateFails

\* A row is issued that nothing knows of yet.
LEMMA BrowserNewRow ==
  ASSUME B!NoneIsNoValue, B!Inv, NEW n \in Pair \ x9
  PROVE  /\ n # None /\ n # x1.refresh /\ n # x6.row /\ n # x12 /\ x10[n] = None
         /\ None \notin Copies
         /\ \A c \in Handlers : /\ x4[c].pc # "idle" => x4[c].row # n
                                /\ x4[c].pc = "issued" => x4[c].new # n
         /\ x7.pc = "answered" => x7.row # n
<1>1. /\ B!Known /\ B!Brought /\ (\A c \in Handlers : B!Refreshing(c))
  BY DEF B!Inv
<1> QED
  BY <1>1 DEF B!Known, B!Brought, B!Refreshing, B!Fresh, B!NoneIsNoValue

\* A rotation keeps the invariant.
LEMMA BrowserRotateInv ==
  ASSUME B!NoneIsNoValue, B!Inv, NEW c \in Handlers, B!Rotate(c) PROVE B!Inv'
<1>0. /\ x4 \in [Handlers -> B!Refresh] /\ x4[c] \in B!Refresh
      /\ x9 \subseteq Pair /\ x2 \subseteq x9
      /\ x10 \in [Pair -> Copies \cup {None, "logout", "elsewhere", "unheard"}]
      /\ \A k \in Handlers : B!Refreshing(k)
      /\ B!Known /\ B!Leaving /\ B!Brought /\ B!Rotated /\ B!Entering /\ B!LoginTakes
      /\ B!SignedOutStaysOut /\ x4[c].pc = "checked"
  BY DEF B!Inv, B!TypeOK, B!Rotate
<1>1. PICK row \in x9, copy \in Copies : row = x4[c].row /\ copy = x3[c].copy
  BY <1>0 DEF B!Refreshing
<1>2. PICK n \in Pair \ x9 :
         /\ x2' = (x2 \ {row}) \cup {n}
         /\ x9' = x9 \cup {n}
         /\ x4' = [x4 EXCEPT ![c].pc = "issued", ![c].new = n]
  BY <1>1 DEF B!Rotate
<1>3. /\ x10' = [x10 EXCEPT ![row] = copy]
      /\ UNCHANGED <<x1, x3, x5, x6, x7, x8, x11, x12, x13>>
  BY <1>1 DEF B!Rotate
<1>4. PICK v : v = [x4[c] EXCEPT !.pc = "issued", !.new = n]
  OBVIOUS
<1>5. v \in B!Refresh /\ v.pc = "issued" /\ v.new = n /\ v.row = row
  BY <1>0, <1>1, <1>4 DEF B!Refresh
<1>6. /\ x4' \in [Handlers -> B!Refresh] /\ x4'[c] = v
      /\ \A k \in Handlers \ {c} : x4'[k] = x4[k]
  <2>1. x4' = [x4 EXCEPT ![c] = v]
    BY <1>2, <1>4
  <2> QED
    BY <1>0, <1>5, <2>1
<1>7. /\ x10' \in [Pair -> Copies \cup {None, "logout", "elsewhere", "unheard"}]
      /\ x10'[row] = copy /\ row \in Pair
      /\ \A r \in Pair \ {row} : x10'[r] = x10[r]
  BY <1>0, <1>1, <1>3
<1>8. /\ n # None /\ n # x1.refresh /\ n # x6.row /\ n # x12 /\ x10[n] = None
      /\ None \notin Copies
      /\ \A k \in Handlers : /\ x4[k].pc # "idle" => x4[k].row # n
                             /\ x4[k].pc = "issued" => x4[k].new # n
      /\ x7.pc = "answered" => x7.row # n
  <2>1. n \in Pair \ x9
    BY <1>2
  <2> QED
    BY <2>1, BrowserNewRow
<1>9. B!TypeOK'
  BY <1>0, <1>2, <1>3, <1>6, <1>7 DEF B!Inv, B!TypeOK
<1>10. B!Known'
  BY <1>0, <1>1, <1>2, <1>3, <1>7 DEF B!Known
<1>11. ASSUME NEW k \in Handlers
       PROVE  B!Refreshing(k)'
  <2>1. B!Refreshing(k) /\ B!Refreshing(c) /\ (x4[k].row \in x9 => x4[k].row \in Pair)
    BY <1>0
  <2>2. CASE k = c
    BY <1>0, <1>1, <1>2, <1>3, <1>5, <1>6, <2>1, <2>2
    DEF B!Refreshing, B!NoneIsNoValue
  <2>3. CASE k # c
    <3>1. x4[k].pc # "idle" => x3[k].copy # copy
      BY <1>0, <1>1, <2>1, <2>3 DEF B!Refreshing
    <3> QED
      BY <1>2, <1>3, <1>6, <1>7, <2>1, <2>3, <3>1 DEF B!Refreshing
  <2> QED
    BY <2>2, <2>3
<1>12. B!Brought'
  <2>1. B!Fresh(n)'
    BY <1>2, <1>3, <1>1, <1>5, <1>6, <1>7, <1>8 DEF B!Fresh
  <2>2. \A r : B!Fresh(r) => B!Fresh(r)'
    BY <1>0, <1>1, <1>2, <1>3, <1>5, <1>6, <1>7 DEF B!Fresh
  <2> QED
    BY <1>0, <1>3, <1>5, <1>6, <1>8, <2>1, <2>2 DEF B!Brought
<1>13. B!Rotated'
  <2> SUFFICES ASSUME x1.refresh # None, x10'[x1.refresh] \in Copies
               PROVE  \E k \in Handlers : /\ x4'[k].pc = "issued"
                                          /\ x4'[k].row = x1.refresh
                                          /\ x3[k].copy = x10'[x1.refresh]
    BY <1>3 DEF B!Rotated
  <2>1. CASE x1.refresh = row
    BY <1>1, <1>5, <1>6, <1>7, <2>1
  <2>2. CASE x1.refresh # row
    <3>1. x10'[x1.refresh] = x10[x1.refresh]
      BY <1>0, <1>7, <2>2 DEF B!Known
    <3>2. PICK k \in Handlers : /\ x4[k].pc = "issued" /\ x4[k].row = x1.refresh
                                /\ x3[k].copy = x10[x1.refresh]
      BY <1>0, <3>1 DEF B!Rotated
    <3> QED
      BY <1>0, <1>6, <3>1, <3>2
  <2> QED
    BY <2>1, <2>2
<1>14. x12 = None /\ (x6.pc # "idle" => x11)
  BY <1>0 DEF B!Leaving, B!Refreshing
<1>15. B!Leaving' /\ B!SignedOutStaysOut'
  BY <1>0, <1>2, <1>3, <1>8, <1>14 DEF B!Leaving, B!SignedOutStaysOut
<1>16. B!Entering' /\ B!LoginTakes'
  BY <1>0, <1>3 DEF B!Entering, B!LoginTakes, B!Asking
<1> QED
  BY <1>9, <1>10, <1>11, <1>12, <1>13, <1>15, <1>16 DEF B!Inv
-----------------------------------------------------------------------------
(* Signing out and in, and what happens to the row or the cookies by       *)
(* itself.                                                                 *)

\* A step that leaves the tab's calls alone, issues no row and brings none.
LEMMA BrowserCallsRest ==
  ASSUME B!NoneIsNoValue, B!Inv, UNCHANGED <<x3, x4, x5, x9>>,
         x1' \in B!Jar, x1'.refresh \in {x1.refresh, None}, x2' \subseteq x2,
         x7' \in B!Message, x7' = x7 \/ x7'.pc # "answered",
         x6' \in B!Message, {x6'.row, x12'} \subseteq x9 \cup {None},
         x10' \in [Pair -> Copies \cup {None, "logout", "elsewhere", "unheard"}],
         \A r \in Pair : \/ x10'[r] = x10[r]
                         \/ r \in x9 /\ x10'[r] \notin Copies,
         x8' \in {"loading", "unauthenticated", "authenticated"},
         x11' \in BOOLEAN, x13' \in BOOLEAN,
         (x8' = x8 /\ x13' = x13) \/ x13' = FALSE
  PROVE  /\ B!TypeOK' /\ B!Known' /\ (\A c \in Handlers : B!Refreshing(c)') /\ B!Brought'
         /\ B!Rotated' /\ B!Entering' /\ B!LoginTakes'
<1>0. /\ B!TypeOK /\ B!Known /\ B!Entering /\ B!LoginTakes /\ x12' \in Pair \cup {None}
      /\ \A c \in Handlers : B!Refreshing(c)
  BY DEF B!Inv, B!TypeOK
<1>1. B!TypeOK'
  BY <1>0 DEF B!TypeOK
<1>2. (\A r \in Pair \ x9' : x10'[r] = None) /\ \A c \in Handlers : B!Refreshing(c)'
  <2>1. \A c \in Handlers : x3'[c].pc # "idle" => x3'[c].copy \in Copies
    BY <1>0 DEF B!Refreshing
  <2> QED
    BY <2>1, BrowserRefreshesRest
<1>3. B!Known'
  BY <1>0, <1>2 DEF B!Known
<1>4. B!Brought'
  BY BrowserAnswersRest DEF B!NoneIsNoValue
<1>5. B!Rotated'
  BY BrowserRestRotated DEF B!NoneIsNoValue
<1>6. B!Entering' /\ B!LoginTakes'
  BY <1>0 DEF B!Entering, B!LoginTakes, B!Asking
<1> QED
  BY <1>1, <1>2, <1>3, <1>4, <1>5, <1>6

\* What the types and the invariant say of the variables of these steps.
LEMMA BrowserHere ==
  ASSUME B!Inv
  PROVE  /\ x1 \in B!Jar /\ x2 \subseteq x9 /\ x9 \subseteq Pair
         /\ x6 \in B!Message /\ x7 \in B!Message
         /\ {x1.refresh, x6.row, x12} \subseteq x9 \cup {None}
         /\ x10 \in [Pair -> Copies \cup {None, "logout", "elsewhere", "unheard"}]
         /\ x8 \in {"loading", "unauthenticated", "authenticated"}
         /\ x11 \in BOOLEAN /\ x13 \in BOOLEAN
         /\ B!NoMessage \in B!Message /\ B!NoMessage.pc = "idle" /\ B!NoMessage.row = None
         /\ B!Leaving /\ B!SignedOutStaysOut
BY DEF B!Inv, B!TypeOK, B!Known, B!NoMessage, B!Message

\* A logout that is sent keeps the invariant.
LEMMA BrowserLogoutInv ==
  ASSUME B!NoneIsNoValue, B!Inv, B!Logout PROVE B!Inv'
<1>1. /\ x6' = [pc |-> "sent", row |-> x1.refresh]
      /\ x8' = "unauthenticated" /\ x13' = FALSE
      /\ x11' = (B!Busy \/ x7.pc # "idle")
      /\ UNCHANGED <<x1, x2, x3, x4, x5, x7, x9, x10, x12>>
  BY DEF B!Logout
<1>2. x6' \in B!Message /\ x6'.row \in x9 \cup {None}
  BY <1>1, BrowserHere DEF B!Message
<1>3. x11' \in BOOLEAN
  BY <1>1
<1>4. /\ B!TypeOK' /\ B!Known' /\ (\A c \in Handlers : B!Refreshing(c)') /\ B!Brought'
      /\ B!Rotated' /\ B!Entering' /\ B!LoginTakes'
  BY <1>1, <1>2, <1>3, BrowserHere, BrowserCallsRest
<1>5. B!Leaving' /\ B!SignedOutStaysOut'
  BY <1>1, BrowserHere DEF B!Leaving, B!SignedOutStaysOut, B!Busy
<1> QED
  BY <1>4, <1>5 DEF B!Inv

\* The server ending a session keeps the invariant.
LEMMA BrowserHandleLogoutInv ==
  ASSUME B!NoneIsNoValue, B!Inv, B!HandleLogout PROVE B!Inv'
<1>1. /\ x6.pc = "sent" /\ x6' = [x6 EXCEPT !.pc = "answered"]
      /\ x2' = x2 \ {x6.row}
      /\ x10' = IF x6.row \in x2
                    THEN [x10 EXCEPT ![x6.row] = "logout"] ELSE x10
      /\ UNCHANGED <<x1, x3, x4, x5, x8, x7, x9, x11, x12,
                     x13>>
  BY DEF B!HandleLogout, B!tab
<1>2. x6' \in B!Message /\ x6'.row = x6.row /\ x6'.pc = "answered"
  BY <1>1, BrowserHere DEF B!Message
<1>3. /\ x10' \in [Pair -> Copies \cup {None, "logout", "elsewhere", "unheard"}]
      /\ \A r \in Pair : \/ x10'[r] = x10[r]
                         \/ r \in x9 /\ x10'[r] \notin Copies
  BY <1>1, BrowserHere DEF B!NoneIsNoValue
<1>4. /\ B!TypeOK' /\ B!Known' /\ (\A c \in Handlers : B!Refreshing(c)') /\ B!Brought'
      /\ B!Rotated' /\ B!Entering' /\ B!LoginTakes'
  BY <1>1, <1>2, <1>3, BrowserHere, BrowserCallsRest
<1>5. B!Leaving' /\ B!SignedOutStaysOut'
  BY <1>1, <1>2, BrowserHere DEF B!Leaving, B!SignedOutStaysOut
<1> QED
  BY <1>4, <1>5 DEF B!Inv

\* The answer to a logout keeps the invariant.
LEMMA BrowserLoggedOutInv ==
  ASSUME B!NoneIsNoValue, B!Inv, B!LoggedOut PROVE B!Inv'
<1>1. /\ x6.pc = "answered" /\ x1' = [access |-> None, refresh |-> None]
      /\ x12' = IF x11 THEN None ELSE x6.row
      /\ x6' = B!NoMessage
      /\ UNCHANGED <<x3, x4, x5, x8, x2, x7, x9, x10,
                     x11, x13>>
  BY DEF B!LoggedOut, B!tab
<1>2. x1' \in B!Jar /\ x1'.refresh = None
  BY <1>1 DEF B!Jar
<1>3. /\ B!TypeOK' /\ B!Known' /\ (\A c \in Handlers : B!Refreshing(c)') /\ B!Brought'
      /\ B!Rotated' /\ B!Entering' /\ B!LoginTakes'
  BY <1>1, <1>2, BrowserHere, BrowserCallsRest
<1>4. B!Leaving' /\ B!SignedOutStaysOut'
  BY <1>1, BrowserHere DEF B!Leaving, B!SignedOutStaysOut
<1> QED
  BY <1>3, <1>4 DEF B!Inv

\* A logout that is lost keeps the invariant.
LEMMA BrowserLogoutLostInv ==
  ASSUME B!NoneIsNoValue, B!Inv, B!LogoutLost PROVE B!Inv'
<1>1. /\ x6' = B!NoMessage
      /\ UNCHANGED <<x1, x3, x4, x5, x8, x2, x7, x9, x10,
                     x11, x12, x13>>
  BY DEF B!LogoutLost, B!tab, B!history
<1>2. /\ B!TypeOK' /\ B!Known' /\ (\A c \in Handlers : B!Refreshing(c)') /\ B!Brought'
      /\ B!Rotated' /\ B!Entering' /\ B!LoginTakes'
  BY <1>1, BrowserHere, BrowserCallsRest
<1>3. B!Leaving' /\ B!SignedOutStaysOut'
  BY <1>1, BrowserHere DEF B!Leaving, B!SignedOutStaysOut
<1> QED
  BY <1>2, <1>3 DEF B!Inv

\* A sign-in that is sent keeps the invariant.
LEMMA BrowserStartSignInInv ==
  ASSUME B!NoneIsNoValue, B!Inv, B!StartSignIn PROVE B!Inv'
<1>1. /\ x7' = [pc |-> "sent", row |-> None] /\ x12' = None
      /\ x11' = (x11 \/ x6.pc # "idle")
      /\ UNCHANGED <<x1, x3, x4, x5, x8, x2, x6, x9, x10,
                     x13>>
  BY DEF B!StartSignIn, B!tab
<1>2. x7' \in B!Message /\ x7'.pc = "sent"
  BY <1>1 DEF B!Message
<1>3. x11' \in BOOLEAN
  BY <1>1, BrowserHere
<1>4. /\ B!TypeOK' /\ B!Known' /\ (\A c \in Handlers : B!Refreshing(c)') /\ B!Brought'
      /\ B!Rotated' /\ B!Entering' /\ B!LoginTakes'
  BY <1>1, <1>2, <1>3, BrowserHere, BrowserCallsRest
<1>5. B!Leaving' /\ B!SignedOutStaysOut'
  BY <1>1, BrowserHere DEF B!Leaving, B!SignedOutStaysOut
<1> QED
  BY <1>4, <1>5 DEF B!Inv

\* A sign-in that fails keeps the invariant.
LEMMA BrowserSignInFailsInv ==
  ASSUME B!NoneIsNoValue, B!Inv, B!SignInFails PROVE B!Inv'
<1>1. /\ x7' = B!NoMessage
      /\ UNCHANGED <<x1, x3, x4, x5, x8, x2, x6, x9, x10,
                     x11, x12, x13>>
  BY DEF B!SignInFails, B!tab, B!history
<1>2. /\ B!TypeOK' /\ B!Known' /\ (\A c \in Handlers : B!Refreshing(c)') /\ B!Brought'
      /\ B!Rotated' /\ B!Entering' /\ B!LoginTakes'
  BY <1>1, BrowserHere, BrowserCallsRest
<1>3. B!Leaving' /\ B!SignedOutStaysOut'
  BY <1>1, BrowserHere DEF B!Leaving, B!SignedOutStaysOut
<1> QED
  BY <1>2, <1>3 DEF B!Inv

\* An access cookie that expires keeps the invariant.
LEMMA BrowserAccessExpiresInv ==
  ASSUME B!NoneIsNoValue, B!Inv, B!AccessExpires PROVE B!Inv'
<1>1. /\ x1.access # None /\ x1' = [x1 EXCEPT !.access = None]
      /\ UNCHANGED <<x3, x4, x5, x8, x2, x6, x7, x9, x10,
                     x11, x12, x13>>
  BY DEF B!AccessExpires, B!tab, B!history
<1>2. x1' \in B!Jar /\ x1'.refresh = x1.refresh
  BY <1>1, BrowserHere DEF B!Jar
<1>3. /\ B!TypeOK' /\ B!Known' /\ (\A c \in Handlers : B!Refreshing(c)') /\ B!Brought'
      /\ B!Rotated' /\ B!Entering' /\ B!LoginTakes'
  BY <1>1, <1>2, BrowserHere, BrowserCallsRest
<1>4. B!Leaving' /\ B!SignedOutStaysOut'
  BY <1>1, BrowserHere DEF B!Leaving, B!SignedOutStaysOut
<1> QED
  BY <1>3, <1>4 DEF B!Inv

\* A row that is ended from elsewhere keeps the invariant.
LEMMA BrowserRowEndsInv ==
  ASSUME B!NoneIsNoValue, B!Inv, NEW r \in Pair, B!RowEnds(r) PROVE B!Inv'
<1>1. /\ r \in x2 /\ x2' = x2 \ {r}
      /\ x10' = [x10 EXCEPT ![r] = "elsewhere"]
      /\ UNCHANGED <<x1, x3, x4, x5, x8, x6, x7, x9,
                     x11, x12, x13>>
  BY DEF B!RowEnds, B!tab
<1>2. /\ x10' \in [Pair -> Copies \cup {None, "logout", "elsewhere", "unheard"}]
      /\ \A x \in Pair : \/ x10'[x] = x10[x]
                         \/ x \in x9 /\ x10'[x] \notin Copies
  BY <1>1, BrowserHere DEF B!NoneIsNoValue
<1>3. /\ B!TypeOK' /\ B!Known' /\ (\A c \in Handlers : B!Refreshing(c)') /\ B!Brought'
      /\ B!Rotated' /\ B!Entering' /\ B!LoginTakes'
  BY <1>1, <1>2, BrowserHere, BrowserCallsRest
<1>4. B!Leaving' /\ B!SignedOutStaysOut'
  BY <1>1, BrowserHere DEF B!Leaving, B!SignedOutStaysOut
<1> QED
  BY <1>3, <1>4 DEF B!Inv

\* The server creating a session keeps the invariant.
LEMMA BrowserHandleSignInInv ==
  ASSUME B!NoneIsNoValue, B!Inv, B!HandleSignIn PROVE B!Inv'
<1>0. /\ B!TypeOK /\ B!Known /\ B!Leaving /\ B!Brought /\ B!Rotated /\ B!Entering /\ B!LoginTakes
      /\ B!SignedOutStaysOut /\ x7.pc = "sent"
      /\ \A k \in Handlers : B!Refreshing(k)
  BY DEF B!Inv, B!HandleSignIn
<1>1. PICK n \in Pair \ x9 :
         /\ x7' = [pc |-> "answered", row |-> n]
         /\ x2' = x2 \cup {n}
         /\ x9' = x9 \cup {n}
  BY DEF B!HandleSignIn
<1>2. UNCHANGED <<x1, x3, x4, x5, x8, x6, x10, x11, x12,
                  x13>>
  BY DEF B!HandleSignIn, B!tab
<1>3. /\ n # None /\ n # x1.refresh /\ n # x6.row /\ n # x12 /\ x10[n] = None
      /\ None \notin Copies
      /\ \A c \in Handlers : /\ x4[c].pc # "idle" => x4[c].row # n
                             /\ x4[c].pc = "issued" => x4[c].new # n
  BY <1>1, BrowserNewRow
<1>4. B!TypeOK'
  BY <1>0, <1>1, <1>2 DEF B!TypeOK, B!Message
<1>5. B!Known'
  BY <1>0, <1>1, <1>2 DEF B!Known
<1>6. \A k \in Handlers : B!Refreshing(k)'
  BY <1>0, <1>1, <1>2 DEF B!Refreshing
<1>7. B!Brought'
  <2>1. n \in x9' /\ x1'.refresh = x1.refresh /\ x10' = x10
        /\ x4' = x4 /\ x7'.row = n /\ x7'.pc = "answered"
    BY <1>1, <1>2
  <2>2. B!Fresh(n)'
    BY <1>3, <2>1 DEF B!Fresh
  <2>3. \A r : B!Fresh(r) => B!Fresh(r)'
    BY <1>1, <2>1 DEF B!Fresh
  <2> QED
    BY <1>0, <1>3, <2>1, <2>2, <2>3 DEF B!Brought
<1>8. B!Rotated'
  BY <1>0, <1>2 DEF B!Rotated
<1>9. B!Leaving' /\ B!SignedOutStaysOut'
  BY <1>0, <1>1, <1>2, <1>3 DEF B!Leaving, B!SignedOutStaysOut
<1>10. B!Entering' /\ B!LoginTakes'
  BY <1>0, <1>2 DEF B!Entering, B!LoginTakes, B!Asking
<1> QED
  BY <1>4, <1>5, <1>6, <1>7, <1>8, <1>9, <1>10 DEF B!Inv

\* The answer to a sign-in keeps the invariant.
LEMMA BrowserSignedInInv ==
  ASSUME B!CopiesAreSound, B!NoneIsNoValue, B!Inv, NEW c \in Handlers, B!SignedIn(c) PROVE B!Inv'
<1> DEFINE v == [pc |-> "sent", copy |-> Main, why |-> "login", good |-> TRUE,
                 on |-> None]
<1>0. /\ B!TypeOK /\ B!Known /\ B!Leaving /\ B!Brought /\ B!Entering /\ B!LoginTakes
      /\ B!SignedOutStaysOut /\ x7.pc = "answered" /\ x4[c].pc = "idle"
      /\ x3 \in [Handlers -> B!Call] /\ B!Fresh(x7.row) /\ x9 \subseteq Pair
      /\ \A k \in Handlers : B!Refreshing(k)
  BY DEF B!Inv, B!TypeOK, B!SignedIn, B!Idle, B!Brought
<1>1. /\ x1' = [access |-> x7.row, refresh |-> x7.row]
      /\ x7' = B!NoMessage
      /\ x3' = [x3 EXCEPT ![c] = v]
      /\ UNCHANGED <<x2, x4, x5, x6, x8, x9, x10, x11,
                     x12, x13>>
  BY DEF B!SignedIn, B!Send, B!history
<1>2. v \in B!Call /\ B!NoMessage \in B!Message /\ B!NoMessage.pc = "idle"
  BY DEF B!Call, B!CopiesAreSound, B!NoMessage, B!Message
<1>3. /\ x3' \in [Handlers -> B!Call] /\ x3'[c] = v
      /\ \A k \in Handlers \ {c} : x3'[k] = x3[k]
  BY <1>0, <1>1, <1>2
<1>4. x1' \in B!Jar /\ x1'.refresh = x7.row /\ x7.row \in Pair
  BY <1>0, <1>1 DEF B!Fresh, B!Jar
<1>5. B!TypeOK'
  BY <1>0, <1>1, <1>2, <1>3, <1>4 DEF B!TypeOK
<1>6. (\A k \in Handlers : B!Refreshing(k)') /\ \A r \in Pair \ x9' : x10'[r] = None
  <2>1. \A k \in Handlers : x3'[k].pc # "idle" => x3'[k].copy \in Copies
    BY <1>0, <1>3 DEF B!Refreshing, B!CopiesAreSound
  <2>2. \A k \in Handlers : \/ x4'[k].pc = "idle"
                            \/ /\ x4'[k] = x4[k] /\ x3'[k] = x3[k]
                               /\ x5'[x3[k].copy] = x5[x3[k].copy]
    BY <1>0, <1>1, <1>3
  <2> QED
    BY <1>1, <2>1, <2>2, BrowserRefreshesRest
<1>7. B!Known'
  BY <1>0, <1>1, <1>4, <1>6 DEF B!Known, B!Fresh
<1>8. B!Brought'
  <2>1. \A r : B!Fresh(r) /\ r # x7.row => B!Fresh(r)'
    BY <1>1, <1>4 DEF B!Fresh
  <2> QED
    BY <1>0, <1>1, <1>2, <2>1 DEF B!Brought
<1>9. B!Rotated'
  BY <1>0, <1>1, <1>4 DEF B!Rotated, B!Fresh
<1>10. x12 = None /\ (x6.pc # "idle" => x11)
  BY <1>0 DEF B!Leaving
<1>11. B!Leaving' /\ B!SignedOutStaysOut'
  BY <1>0, <1>1, <1>10 DEF B!Leaving, B!SignedOutStaysOut
<1>12. B!Entering' /\ B!LoginTakes'
  BY <1>0, <1>1, <1>3 DEF B!Entering, B!LoginTakes, B!Asking
<1> QED
  BY <1>5, <1>6, <1>7, <1>8, <1>9, <1>11, <1>12 DEF B!Inv
-----------------------------------------------------------------------------
\* Every step keeps the invariant.
LEMMA BrowserStep ==
  ASSUME B!CopiesAreSound, B!NoneIsNoValue, B!Inv, [B!Next]_(B!vars) PROVE B!Inv'
<1>1. CASE UNCHANGED B!vars
  <2>1. UNCHANGED <<x1, x2, x3, x4, x5, x6, x7, x8, x9,
                    x10, x11, x12, x13>>
    BY <1>1 DEF B!vars, B!tab, B!history
  <2>2. /\ B!TypeOK' /\ B!Known' /\ (\A c \in Handlers : B!Refreshing(c)') /\ B!Brought'
        /\ B!Rotated' /\ B!Entering' /\ B!LoginTakes'
    BY <2>1, BrowserHere, BrowserCallsRest
  <2> QED
    BY <2>1, <2>2, BrowserHere DEF B!Inv, B!Leaving, B!SignedOutStaysOut
<1>2. CASE B!Next
  BY <1>2, BrowserStartCallInv, BrowserAnsweredInv, BrowserFailsInv,
     BrowserUnauthorizedInv, BrowserRefreshedInv, BrowserNotRefreshedInv,
     BrowserCheckRowInv, BrowserRotateInv, BrowserRotateFailsInv,
     BrowserSignedInInv, BrowserLogoutInv, BrowserHandleLogoutInv,
     BrowserLoggedOutInv, BrowserLogoutLostInv, BrowserStartSignInInv,
     BrowserHandleSignInInv, BrowserSignInFailsInv, BrowserAccessExpiresInv,
     BrowserRowEndsInv
  DEF B!Next
<1> QED
  BY <1>1, <1>2

\* What the invariant says of the properties the runs check.
LEMMA BrowserInvImplies ==
  B!Inv => B!TypeOK /\ B!SignedOutStaysOut /\ B!LoginTakes /\ B!NoCopyRacesItself
BY DEF B!Inv, B!Refreshing, B!NoCopyRacesItself

-----------------------------------------------------------------------------
(* The trust score.                                                        *)

\* What the facts about an account are when they begin to be counted.
LEMMA TrustInit == ASSUME T!BoundsAreNumbers, T!Init PROVE T!TypeOK
<1>1. T!Newcomer \in T!Facts /\ T!Newcomer.held = {}
  BY DEF T!Newcomer, T!Facts, T!BoundsAreNumbers
<1>2. [T!Newcomer EXCEPT !.held = T!Held, !.level = 3, !.devices = 1] \in T!Facts
  <2>1. /\ T!Held \in SUBSET T!Held /\ 3 \in 0..3 /\ 1 \in 0..MaxDevices
    BY DEF T!BoundsAreNumbers
  <2> QED
    BY <1>1, <2>1 DEF T!Facts
<1> QED
  BY <1>1, <1>2 DEF T!Init, T!TypeOK, T!Assured, T!BoundsAreNumbers

\* Every step keeps the types.
LEMMA TrustStep ==
  ASSUME T!BoundsAreNumbers, T!TypeOK, [T!Next]_(T!vars) PROVE T!TypeOK'
<1>1. CASE UNCHANGED T!vars
  BY <1>1 DEF T!vars, T!TypeOK
<1>2. ASSUME NEW f \in T!Facts, T!Change(f)
      PROVE  T!TypeOK'
  BY <1>2 DEF T!Change, T!TypeOK, T!BoundsAreNumbers
<1>3. x1 \in T!Facts
  BY DEF T!TypeOK
<1>4. ASSUME NEW h \in T!Held, T!Gain(h)
      PROVE  T!TypeOK'
  <2>1. [x1 EXCEPT !.held = @ \cup {h}] \in T!Facts
    BY <1>3 DEF T!Facts
  <2> QED
    BY <1>2, <1>4, <2>1 DEF T!Gain
<1>5. ASSUME NEW h \in T!Held, T!Lose(h)
      PROVE  T!TypeOK'
  <2>1. [x1 EXCEPT !.held = @ \ {h}] \in T!Facts
    BY <1>3 DEF T!Facts
  <2> QED
    BY <1>2, <1>5, <2>1 DEF T!Lose
<1>6. ASSUME NEW n \in 1..3, T!ReachLevel(n)
      PROVE  T!TypeOK'
  <2>1. [x1 EXCEPT !.level = n] \in T!Facts
    BY <1>3 DEF T!Facts
  <2> QED
    BY <1>2, <1>6, <2>1 DEF T!ReachLevel
<1>7. CASE T!RegisterDevice
  <2>1. [x1 EXCEPT !.devices = @ + 1] \in T!Facts
    BY <1>3, <1>7 DEF T!RegisterDevice, T!Facts, T!BoundsAreNumbers
  <2> QED
    BY <1>2, <1>7, <2>1 DEF T!RegisterDevice
<1>8. CASE T!RevokeDevice
  <2>1. [x1 EXCEPT !.devices = @ - 1, !.revoked = @ + 1] \in T!Facts
    <3>1. x1.devices \in 0..MaxDevices /\ x1.revoked \in 0..MaxRevoked
      BY <1>3 DEF T!Facts
    <3>2. x1.devices - 1 \in 0..MaxDevices /\ x1.revoked + 1 \in 0..MaxRevoked
      BY <1>8, <3>1 DEF T!RevokeDevice, T!BoundsAreNumbers
    <3> QED
      BY <1>3, <3>2 DEF T!Facts
  <2> QED
    BY <1>2, <1>8, <2>1 DEF T!RevokeDevice
<1>9. CASE T!ApprovalsChange
  <2>1. [x1 EXCEPT !.pending = ~@] \in T!Facts
    BY <1>3 DEF T!Facts
  <2> QED
    BY <1>2, <1>9, <2>1 DEF T!ApprovalsChange
<1>10. CASE T!ReuseToken
  <2>1. [x1 EXCEPT !.reuse = "recent"] \in T!Facts
    BY <1>3 DEF T!Facts
  <2> QED
    BY <1>2, <1>10, <2>1 DEF T!ReuseToken
<1>11. CASE T!WindowPasses
  <2>1. [x1 EXCEPT !.reuse = IF @ = "never" THEN @ ELSE "past", !.revoked = 0] \in T!Facts
    <3>1. 0 \in 0..MaxRevoked
      BY DEF T!BoundsAreNumbers
    <3>2. (IF x1.reuse = "never" THEN x1.reuse ELSE "past") \in {"never", "past", "recent"}
      OBVIOUS
    <3> QED
      BY <1>3, <3>1, <3>2 DEF T!Facts
  <2> QED
    BY <1>2, <1>11, <2>1 DEF T!WindowPasses
<1>12. CASE T!SuspensionChanges
  <2>1. [x1 EXCEPT !.suspended = ~@] \in T!Facts
    BY <1>3 DEF T!Facts
  <2> QED
    BY <1>2, <1>12, <2>1 DEF T!SuspensionChanges
<1> QED
  BY <1>1, <1>4, <1>5, <1>6, <1>7, <1>8, <1>9, <1>10, <1>11, <1>12 DEF T!Next


\* What the library's minimum and maximum of two numbers are.
LEMMA TrustLesserOrGreater ==
  ASSUME NEW a \in Int, NEW b \in Int
  PROVE  /\ T!Min({a, b}) = IF a <= b THEN a ELSE b
         /\ T!Max({a, b}) = IF a >= b THEN a ELSE b
<1>1. T!Min({a, b}) = IF a <= b THEN a ELSE b
  <2>1. \E x \in {a, b} : \A y \in {a, b} : x <= y
    OBVIOUS
  <2>2. T!Min({a, b}) \in {a, b} /\ \A y \in {a, b} : T!Min({a, b}) <= y
    BY <2>1 DEF T!Min
  <2> QED
    BY <2>2
<1>2. T!Max({a, b}) = IF a >= b THEN a ELSE b
  <2>1. \E x \in {a, b} : \A y \in {a, b} : x >= y
    OBVIOUS
  <2>2. T!Max({a, b}) \in {a, b} /\ \A y \in {a, b} : T!Max({a, b}) >= y
    BY <2>1 DEF T!Max
  <2> QED
    BY <2>2
<1> QED
  BY <1>1, <1>2

\* What each part of the score can come to.
LEMMA TrustPartsOfScore ==
  ASSUME T!BoundsAreNumbers, NEW f \in T!Facts
  PROVE  /\ T!IdentityAssurance(f) \in 0..18 /\ T!AccountSecurity(f) \in 0..12
         /\ T!DeviceTrust(f) \in 0..6 /\ T!VerifiedClaims(f) \in 0..8
         /\ T!AccountHistory(f) \in 0..6 /\ T!Penalties(f) \in 0..39
         /\ T!Penalties(f) = (IF f.reuse = "recent" THEN 30 ELSE 0)
                             + (IF f.revoked <= 2 THEN 3 * f.revoked ELSE 9)
         /\ f.revoked \in Nat /\ f.level \in 0..3 /\ f.devices \in Nat
<1>1. f.revoked \in Nat /\ f.level \in 0..3 /\ f.devices \in Nat
  BY DEF T!Facts, T!BoundsAreNumbers
<1>2. T!IdentityAssurance(f) \in 0..18
  BY <1>1 DEF T!IdentityAssurance
<1>3. T!AccountSecurity(f) \in 0..12
  BY DEF T!AccountSecurity
<1>4. T!DeviceTrust(f) \in 0..6 /\ T!VerifiedClaims(f) \in 0..8
  BY DEF T!DeviceTrust, T!VerifiedClaims
<1>5. T!AccountHistory(f) \in 0..6
  BY DEF T!AccountHistory
<1>6. T!Min({9, 3 * f.revoked}) = IF f.revoked <= 2 THEN 3 * f.revoked ELSE 9
  <2>1. T!Min({9, 3 * f.revoked}) = IF 9 <= 3 * f.revoked THEN 9 ELSE 3 * f.revoked
    BY <1>1, TrustLesserOrGreater
  <2> QED
    BY <1>1, <2>1
<1>7. T!Penalties(f) = (IF f.reuse = "recent" THEN 30 ELSE 0)
                        + (IF f.revoked <= 2 THEN 3 * f.revoked ELSE 9)
  BY <1>6 DEF T!Penalties
<1>8. T!Penalties(f) \in 0..39
  BY <1>1, <1>7
<1> QED
  BY <1>1, <1>2, <1>3, <1>4, <1>5, <1>7, <1>8

\* The scale never cuts anything off.
LEMMA TrustWithinTheScale ==
  ASSUME T!BoundsAreNumbers, NEW f \in T!Facts
  PROVE  /\ T!RawScore(f) \in 11..100
         /\ T!Score(f) = IF f.suspended THEN 0 ELSE T!RawScore(f)
<1>1. T!RawScore(f) \in 11..100
  BY TrustPartsOfScore DEF T!RawScore
<1>2. T!Min({100, T!RawScore(f)}) = T!RawScore(f)
  <2>1. T!RawScore(f) \in Int /\ 100 \in Int /\ T!RawScore(f) <= 100
    BY <1>1
  <2>2. T!Min({100, T!RawScore(f)}) = IF 100 <= T!RawScore(f) THEN 100 ELSE T!RawScore(f)
    BY <2>1, TrustLesserOrGreater
  <2> QED
    BY <2>1, <2>2
<1>3. T!Max({0, T!RawScore(f)}) = T!RawScore(f)
  <2>1. T!RawScore(f) \in Int /\ 0 \in Int /\ T!RawScore(f) > 0
    BY <1>1
  <2>2. T!Max({0, T!RawScore(f)}) = IF 0 >= T!RawScore(f) THEN 0 ELSE T!RawScore(f)
    BY <2>1, TrustLesserOrGreater
  <2> QED
    BY <2>1, <2>2
<1> QED
  BY <1>1, <1>2, <1>3 DEF T!Score

\* Who has more to say for him, and less against him, scores no less.
LEMMA TrustMoreScoresNoLess ==
  ASSUME T!BoundsAreNumbers, NEW f \in T!Facts, NEW g \in T!Facts,
         f.held \subseteq g.held, f.level <= g.level, f.devices <= g.devices,
         g.revoked <= f.revoked, g.pending => f.pending,
         g.suspended => f.suspended, g.reuse = "recent" => f.reuse = "recent",
         f.reuse = "never" => g.reuse = "never"
  PROVE  T!Score(g) >= T!Score(f)
<1>1. \A h : T!Has(f, h) => T!Has(g, h)
  BY DEF T!Has
<1>2. T!IdentityAssurance(g) >= T!IdentityAssurance(f)
  BY TrustPartsOfScore DEF T!IdentityAssurance
<1>3. T!AccountSecurity(g) >= T!AccountSecurity(f)
  BY <1>1 DEF T!AccountSecurity
<1>4. T!DeviceTrust(g) >= T!DeviceTrust(f)
  BY TrustPartsOfScore DEF T!DeviceTrust, T!Resolved
<1>5. T!VerifiedClaims(g) >= T!VerifiedClaims(f)
  BY <1>1 DEF T!VerifiedClaims
<1>6. T!AccountHistory(g) >= T!AccountHistory(f)
  BY <1>1 DEF T!AccountHistory
<1>7. T!Penalties(g) <= T!Penalties(f)
  BY TrustPartsOfScore
<1>8. T!RawScore(g) >= T!RawScore(f)
  <2> DEFINE i(x) == T!IdentityAssurance(x)   s(x) == T!AccountSecurity(x)
             d(x) == T!DeviceTrust(x)         v(x) == T!VerifiedClaims(x)
             a(x) == T!AccountHistory(x)      p(x) == T!Penalties(x)
  <2>1. \A x \in {f, g} : /\ i(x) \in Int /\ s(x) \in Int /\ d(x) \in Int
                          /\ v(x) \in Int /\ a(x) \in Int /\ p(x) \in Int
    BY TrustPartsOfScore
  <2>2. \A x \in {f, g} : T!RawScore(x) = 50 + i(x) + s(x) + d(x) + v(x) + a(x) - p(x)
    BY DEF T!RawScore
  <2>3. /\ i(g) >= i(f) /\ s(g) >= s(f) /\ d(g) >= d(f) /\ v(g) >= v(f)
        /\ a(g) >= a(f) /\ p(g) <= p(f)
    BY <1>2, <1>3, <1>4, <1>5, <1>6, <1>7
  <2> HIDE DEF i, s, d, v, a, p
  <2> QED
    BY <2>1, <2>2, <2>3
<1> QED
  BY <1>8, TrustWithinTheScale

\* The score of every account is current confidence.
LEMMA TrustConfidence ==
  ASSUME T!BoundsAreNumbers, T!TypeOK PROVE T!ScoreIsCurrentConfidence
<1> DEFINE f == x1
<1>1. f \in T!Facts
  BY DEF T!TypeOK
<1>2. ASSUME NEW g \in T!Improved(f)
      PROVE  T!Score(g) >= T!Score(f)
  <2>1. CASE \E h \in T!Held : g = [f EXCEPT !.held = @ \cup {h}]
    BY <1>1, <2>1, TrustMoreScoresNoLess DEF T!Facts
  <2>2. CASE \E n \in f.level..3 : g = [f EXCEPT !.level = n]
    BY <1>1, <2>2, TrustMoreScoresNoLess DEF T!Facts
  <2>3. CASE \E n \in f.devices..MaxDevices : g = [f EXCEPT !.devices = n]
    BY <1>1, <2>3, TrustMoreScoresNoLess DEF T!Facts, T!BoundsAreNumbers
  <2>4. CASE \E n \in 0..f.revoked : g = [f EXCEPT !.revoked = n]
    BY <1>1, <2>4, TrustMoreScoresNoLess DEF T!Facts, T!BoundsAreNumbers
  <2>5. CASE g = [f EXCEPT !.pending = FALSE]
    <3>1. g \in T!Facts
      BY <1>1, <2>5 DEF T!Facts
    <3>2. /\ g.held = f.held /\ g.level = f.level /\ g.devices = f.devices
          /\ g.revoked = f.revoked /\ g.reuse = f.reuse
          /\ g.pending => f.pending
          /\ g.suspended => f.suspended
          /\ f.level \in Int /\ f.devices \in Int /\ f.revoked \in Int
      BY <1>1, <2>5 DEF T!Facts, T!BoundsAreNumbers
    <3> QED
      BY <1>1, <3>1, <3>2, TrustMoreScoresNoLess
  <2>6. CASE g = [f EXCEPT !.suspended = FALSE]
    <3>1. g \in T!Facts
      BY <1>1, <2>6 DEF T!Facts
    <3>2. /\ g.held = f.held /\ g.level = f.level /\ g.devices = f.devices
          /\ g.revoked = f.revoked /\ g.reuse = f.reuse
          /\ g.pending => f.pending
          /\ g.suspended => f.suspended
          /\ f.level \in Int /\ f.devices \in Int /\ f.revoked \in Int
      BY <1>1, <2>6 DEF T!Facts, T!BoundsAreNumbers
    <3> QED
      BY <1>1, <3>1, <3>2, TrustMoreScoresNoLess
  <2>7. CASE \E r \in IF f.reuse = "recent" THEN {"never", "past"} ELSE {"never", f.reuse} :
                g = [f EXCEPT !.reuse = r]
    BY <1>1, <2>7, TrustMoreScoresNoLess DEF T!Facts, T!BoundsAreNumbers
  <2> QED
    BY <2>1, <2>2, <2>3, <2>4, <2>5, <2>6, <2>7 DEF T!Improved
<1>3. T!Score(T!Newcomer) = 50
  <2>1. T!Newcomer \in T!Facts /\ ~T!Newcomer.suspended
    BY DEF T!Newcomer, T!Facts, T!BoundsAreNumbers
  <2>2. \A h : ~T!Has(T!Newcomer, h)
    BY DEF T!Newcomer, T!Has
  <2>3. T!Penalties(T!Newcomer) = 0
    BY <2>1, TrustPartsOfScore DEF T!Newcomer
  <2>4. /\ T!IdentityAssurance(T!Newcomer) = 0 /\ T!AccountSecurity(T!Newcomer) = 0
        /\ T!DeviceTrust(T!Newcomer) = 0 /\ T!VerifiedClaims(T!Newcomer) = 0
        /\ T!AccountHistory(T!Newcomer) = 0
    BY <2>2
    DEF T!IdentityAssurance, T!AccountSecurity, T!DeviceTrust,
        T!VerifiedClaims, T!AccountHistory, T!Resolved, T!Newcomer
  <2>5. T!RawScore(T!Newcomer) = 50
    BY <2>3, <2>4 DEF T!RawScore
  <2> QED
    BY <2>1, <2>5, TrustWithinTheScale
<1>4. ASSUME ~f.suspended
      PROVE  LET clean == T!Score([f EXCEPT !.reuse = "never", !.revoked = 0])
             IN /\ clean - T!Score(T!Forgiven(f)) \in {0, 3}
                /\ clean - T!Score(f) <= 42
  <2> PICK c, b : /\ c = [f EXCEPT !.reuse = "never", !.revoked = 0]
                  /\ b = T!Forgiven(f)
    OBVIOUS
  <2>1. /\ c.held = f.held /\ b.held = f.held
        /\ c.level = f.level /\ b.level = f.level
        /\ c.devices = f.devices /\ b.devices = f.devices
        /\ c.pending = f.pending /\ b.pending = f.pending
        /\ c.suspended = f.suspended /\ b.suspended = f.suspended
        /\ c.reuse = "never" /\ b.reuse # "recent"
        /\ b.reuse = "never" <=> f.reuse = "never"
        /\ c.revoked = 0 /\ b.revoked = 0
    BY <1>1 DEF T!Forgiven, T!Facts
  <2>2. c \in T!Facts /\ b \in T!Facts
    <3>1. 0 \in 0..MaxRevoked
      BY DEF T!BoundsAreNumbers
    <3>2. c \in T!Facts
      BY <1>1, <3>1 DEF T!Facts
    <3>3. (IF f.reuse = "never" THEN f.reuse ELSE "past") \in {"never", "past", "recent"}
      OBVIOUS
    <3>4. b \in T!Facts
      BY <1>1, <3>1, <3>3 DEF T!Facts, T!Forgiven
    <3> QED
      BY <3>2, <3>4
  <2>3. ASSUME NEW x \in {c, b}
        PROVE  /\ T!IdentityAssurance(x) = T!IdentityAssurance(f)
               /\ T!AccountSecurity(x) = T!AccountSecurity(f)
               /\ T!DeviceTrust(x) = T!DeviceTrust(f)
               /\ T!VerifiedClaims(x) = T!VerifiedClaims(f)
               /\ T!Penalties(x) = 0
    <3>1. /\ x.held = f.held /\ x.level = f.level /\ x.devices = f.devices
          /\ x.pending = f.pending /\ x.reuse # "recent" /\ x.revoked = 0
      BY <2>1
    <3>2. T!Penalties(x) = (IF x.reuse = "recent" THEN 30 ELSE 0)
                            + (IF x.revoked <= 2 THEN 3 * x.revoked ELSE 9)
      BY <2>2, TrustPartsOfScore
    <3>3. T!Penalties(x) = 0
      BY <3>1, <3>2
    <3>4. T!IdentityAssurance(x) = T!IdentityAssurance(f) /\ T!DeviceTrust(x) = T!DeviceTrust(f)
      BY <3>1 DEF T!IdentityAssurance, T!DeviceTrust, T!Resolved
    <3>5. T!AccountSecurity(x) = T!AccountSecurity(f) /\ T!VerifiedClaims(x) = T!VerifiedClaims(f)
      BY <3>1 DEF T!AccountSecurity, T!VerifiedClaims, T!Has
    <3> QED
      BY <3>3, <3>4, <3>5
  <2>4. \A h : (T!Has(c, h) <=> T!Has(f, h)) /\ (T!Has(b, h) <=> T!Has(f, h))
    BY <2>1 DEF T!Has
  <2>5. /\ T!AccountHistory(c) - T!AccountHistory(b) \in {0, 3}
        /\ T!AccountHistory(c) - T!AccountHistory(f) \in {0, 3}
    BY <2>1, <2>4 DEF T!AccountHistory
  <2>6. /\ T!RawScore(c) - T!RawScore(b) = T!AccountHistory(c) - T!AccountHistory(b)
        /\ T!RawScore(c) - T!RawScore(f)
              = T!AccountHistory(c) - T!AccountHistory(f) + T!Penalties(f)
    <3> DEFINE i == T!IdentityAssurance(f)   s == T!AccountSecurity(f)
               d == T!DeviceTrust(f)         v == T!VerifiedClaims(f)
               a(x) == T!AccountHistory(x)   p(x) == T!Penalties(x)
    <3>1. /\ i \in Int /\ s \in Int /\ d \in Int /\ v \in Int
          /\ \A x \in {f, c, b} : a(x) \in Int /\ p(x) \in Int
      BY <1>1, <2>2, TrustPartsOfScore
    <3>2. \A x \in {f, c, b} : T!RawScore(x) = 50 + i + s + d + v + a(x) - p(x)
      BY <2>3 DEF T!RawScore
    <3>3. p(c) = 0 /\ p(b) = 0
      BY <2>3
    <3> HIDE DEF i, s, d, v, a, p
    <3>4. /\ T!RawScore(c) - T!RawScore(b) = a(c) - a(b)
          /\ T!RawScore(c) - T!RawScore(f) = a(c) - a(f) + p(f)
      BY <3>1, <3>2, <3>3
    <3> QED
      BY <3>4 DEF a, p
  <2>7. T!Penalties(f) \in 0..39
    BY <1>1, TrustPartsOfScore
  <2>8. /\ T!Score(c) = T!RawScore(c) /\ T!Score(b) = T!RawScore(b) /\ T!Score(f) = T!RawScore(f)
        /\ T!RawScore(c) \in Int /\ T!RawScore(b) \in Int /\ T!RawScore(f) \in Int
    <3>1. ~c.suspended /\ ~b.suspended
      BY <1>4, <2>1
    <3>2. ASSUME NEW x \in {c, b, f}
          PROVE  T!Score(x) = T!RawScore(x) /\ T!RawScore(x) \in Int
      <4>1. x \in T!Facts /\ ~x.suspended
        BY <1>1, <1>4, <2>2, <3>1
      <4>2. T!Score(x) = T!RawScore(x) /\ T!RawScore(x) \in 11..100
        BY <4>1, TrustWithinTheScale
      <4> QED
        BY <4>2
    <3> QED
      BY <3>2
  <2>9. T!Score(c) - T!Score(b) \in {0, 3} /\ T!Score(c) - T!Score(f) <= 42
    <3>1. T!Score(c) - T!Score(b) = T!AccountHistory(c) - T!AccountHistory(b)
      BY <2>6, <2>8
    <3>2. T!Score(c) - T!Score(f)
             = T!AccountHistory(c) - T!AccountHistory(f) + T!Penalties(f)
      BY <2>6, <2>8
    <3>3. T!Score(c) - T!Score(f) <= 42
      BY <2>5, <2>7, <3>2
    <3> QED
      BY <2>5, <3>1, <3>3
  <2> QED
    BY <2>9
<1> QED
  BY <1>1, <1>2, <1>3, <1>4, TrustWithinTheScale DEF T!ScoreIsCurrentConfidence

-----------------------------------------------------------------------------
(* The ways into an account.                                               *)

\* Only the record of h changes.
OnlyItsJob(h) == \A g \in Handlers \ {h} : x7'[g] = x7[g]

\* A step that takes no way in away but from those it excuses.
KeepsWays ==
    /\ x2 \subseteq x2' /\ x9 \subseteq x9'
    /\ \A i \in Other : x3[i] # None => x3'[i] = x3[i]
    /\ \A k \in Few : x4[k] # None /\ x4[k] \notin x9'
                          => x4'[k] = x4[k]

\* With no account and no row, the invariant holds.
LEMMA WaysInitInv == ASSUME I!NoneIsNoUser, I!Init PROVE I!Inv
<1>1. I!TypeOK
  BY DEF I!Init, I!TypeOK, I!Row, I!Job, I!Idle
<1>2. I!SomeWayIn
  BY DEF I!Init, I!SomeWayIn
<1> QED
  BY <1>1, <1>2
  DEF I!Init, I!Inv, I!OverlapIsKnown, I!GoneOnceUsed, I!Knows, I!Idle

\* A user keeps another way in.
LEMMA WaysStay ==
  ASSUME KeepsWays, I!NoneIsNoUser, NEW u \in Pair \ x9', NEW i, I!WayBut(u, i)
  PROVE  I!WayBut(u, i)'
<1>1. u # None
  BY DEF I!NoneIsNoUser
<1>2. u \in x2 => u \in x2'
  BY DEF KeepsWays
<1>3. ASSUME NEW j \in I!Others(u, i) PROVE j \in I!Others(u, i)'
  BY <1>1, <1>3 DEF KeepsWays, I!Others
<1>4. ASSUME NEW k \in I!KeysOf(u) PROVE k \in I!KeysOf(u)'
  BY <1>1, <1>4 DEF KeepsWays, I!KeysOf
<1> QED
  BY <1>2, <1>3, <1>4 DEF I!WayBut

\* There is a way into every account after a step that keeps the ways in, if
\* there is one into the accounts it makes, and who ends a call that was to
\* attach an identity has another or is excused.
LEMMA SameWays ==
  ASSUME I!Inv, I!NoneIsNoUser, KeepsWays, x1' \subseteq Pair,
         \A u \in x1' \ x1 :
             I!WayBut(u, None)' \/ \E h \in Handlers : x7'[h].pc = "attach" /\ x7'[h].user = u,
         \A u \in Pair : \A h \in Handlers :
             x7[h].pc = "attach" /\ x7[h].user = u =>
                 \/ x7'[h].pc = "attach" /\ x7'[h].user = u
                 \/ u \in x9' \/ I!WayBut(u, None)'
  PROVE  I!SomeWayIn'
<1> SUFFICES ASSUME NEW u \in x1' \ x9'
             PROVE  \/ I!WayBut(u, None)'
                    \/ \E h \in Handlers : x7'[h].pc = "attach" /\ x7'[h].user = u
  BY DEF I!SomeWayIn
<1>1. u \in Pair \ x9' /\ u \notin x9
  BY DEF KeepsWays
<1>2. CASE I!WayBut(u, None)
  BY <1>1, <1>2, WaysStay
<1>3. CASE \E h \in Handlers : x7[h].pc = "attach" /\ x7[h].user = u
  BY <1>1, <1>3
<1>4. CASE u \notin x1
  BY <1>4
<1> QED
  BY <1>1, <1>2, <1>3, <1>4 DEF I!Inv, I!SomeWayIn

\* The calls a step leaves alone know what they knew.
LEMMA WaysSameKnows ==
  ASSUME I!Inv, I!NoneIsNoUser, KeepsWays, NEW g \in Handlers, x7'[g] = x7[g],
         \A r \in More : x5'[r].kind = x5[r].kind \/ x5[r].kind = "none"
                         \/ x5'[r].kind = "gone"
  PROVE  I!Knows(g)'
<1>1. I!Knows(g)
  BY DEF I!Inv
<1>2. x7[g].pc = "unlink" =>
        /\ x3'[x7[g].identity] = x7[g].user
        /\ x7[g].user \in x9' \/ I!WayBut(x7[g].user, x7[g].identity)'
  <2> SUFFICES ASSUME x7[g].pc = "unlink" PROVE
        /\ x3'[x7[g].identity] = x7[g].user
        /\ x7[g].user \in x9' \/ I!WayBut(x7[g].user, x7[g].identity)'
    OBVIOUS
  <2>1. /\ x7[g].user \in Pair /\ x7[g].user # None /\ x7[g].identity \in Other
        /\ x3[x7[g].identity] = x7[g].user
        /\ x7[g].user \in x9 \/ I!WayBut(x7[g].user, x7[g].identity)
    BY <1>1 DEF I!Knows, I!NoneIsNoUser
  <2>2. x3'[x7[g].identity] = x7[g].user
    BY <2>1 DEF KeepsWays
  <2>3. x7[g].user \in x9' \/ I!WayBut(x7[g].user, x7[g].identity)'
    BY <2>1, WaysStay DEF KeepsWays
  <2> QED
    BY <2>2, <2>3
<1>3. x7[g].pc = "consume" =>
        /\ x5'[x7[g].row].kind # "none"
        /\ x5'[x7[g].row].kind = "state" => x5[x7[g].row].kind = "state"
  BY <1>1 DEF I!Knows
<1> QED
  BY <1>1, <1>2, <1>3 DEF I!Knows

\* Who unlinks is who did, or is excused.
LEMMA WaysSameOverlap ==
  ASSUME I!Inv, x9 \subseteq x9',
         \A h \in Handlers : x7'[h].pc = "unlink" =>
             x7[h].pc = "unlink" /\ x7'[h].user = x7[h].user
  PROVE  I!OverlapIsKnown'
  BY DEF I!Inv, I!OverlapIsKnown

\* Register keeps the invariant.
LEMMA WaysRegisterInv ==
  ASSUME I!NoneIsNoUser, I!Inv, NEW h \in Handlers, NEW e \in Pair,
         I!Register(h, e)
  PROVE  I!Inv'
<1>1. I!TypeOK'
  BY
  DEF I!Inv, I!Register, I!Start, I!Idle, I!tables, I!history, I!TypeOK,
      I!Knows, I!Job, I!Row, I!Kinds
<1>2. KeepsWays
  BY
  DEF I!Inv, I!Register, I!Start, I!Idle, I!tables, I!history, I!TypeOK,
      KeepsWays, I!Knows
<1>3. OnlyItsJob(h)
  BY
  DEF I!Inv, I!Register, I!Start, I!Idle, I!tables, I!history, I!TypeOK,
      OnlyItsJob
<1>4. I!SomeWayIn'
  BY <1>2, SameWays
  DEF I!Inv, I!Register, I!Start, I!Idle, I!tables, I!history, I!TypeOK,
      I!Knows, I!Job
<1>5. I!OverlapIsKnown'
  BY WaysSameOverlap
  DEF I!Inv, I!Register, I!Start, I!Idle, I!tables, I!history, I!TypeOK, I!Job
<1>6. I!GoneOnceUsed'
  BY
  DEF I!Inv, I!Register, I!Start, I!Idle, I!tables, I!history, I!TypeOK,
      I!GoneOnceUsed, I!Row, I!Kinds
<1>7. I!Knows(h)'
  BY
  DEF I!Inv, I!Register, I!Start, I!Idle, I!tables, I!history, I!TypeOK,
      I!Knows, I!Job, I!Row, I!NoneIsNoUser
<1>8. ASSUME NEW g \in Handlers \ {h} PROVE I!Knows(g)'
  BY <1>2, <1>3, WaysSameKnows
  DEF I!Register, I!Start, I!Idle, I!tables, I!history, OnlyItsJob, I!TypeOK,
      I!Inv
<1> QED
  BY <1>1, <1>4, <1>5, <1>6, <1>7, <1>8 DEF I!Inv

\* Create keeps the invariant.
LEMMA WaysCreateInv ==
  ASSUME I!NoneIsNoUser, I!Inv, NEW h \in Handlers,
         I!Create(h)
  PROVE  I!Inv'
<1>1. I!TypeOK'
  BY
  DEF I!Inv, I!Create, I!End, I!Idle, I!history, I!TypeOK, I!Knows, I!Job,
      I!Row, I!Kinds
<1>2. KeepsWays
  BY
  DEF I!Inv, I!Create, I!End, I!Idle, I!history, I!TypeOK, KeepsWays, I!Knows
<1>3. OnlyItsJob(h)
  BY DEF I!Inv, I!Create, I!End, I!Idle, I!history, I!TypeOK, OnlyItsJob
<1>4. I!SomeWayIn'
  <2>1. /\ x7[h].pc = "create" /\ x7[h].user \in Pair
        /\ x1' = x1 \cup {x7[h].user} /\ x2' = x2 \cup {x7[h].user}
    BY DEF I!Inv, I!Create, I!Knows
  <2>2. x1' \subseteq Pair
    BY <2>1 DEF I!Inv, I!TypeOK
  <2>3. \A u \in x1' \ x1 : I!WayBut(u, None)'
    BY <2>1 DEF I!WayBut
  <2> QED
    BY <1>2, <1>3, <2>1, <2>2, <2>3, SameWays DEF OnlyItsJob
<1>5. I!OverlapIsKnown'
  BY WaysSameOverlap
  DEF I!Inv, I!Create, I!End, I!Idle, I!history, I!TypeOK, I!Job
<1>6. I!GoneOnceUsed'
  BY
  DEF I!Inv, I!Create, I!End, I!Idle, I!history, I!TypeOK, I!GoneOnceUsed,
      I!Row, I!Kinds
<1>7. I!Knows(h)'
  BY
  DEF I!Inv, I!Create, I!End, I!Idle, I!history, I!TypeOK, I!Knows, I!Job,
      I!Row, I!NoneIsNoUser
<1>8. ASSUME NEW g \in Handlers \ {h} PROVE I!Knows(g)'
  BY <1>2, <1>3, WaysSameKnows
  DEF I!Create, I!End, I!Idle, I!history, OnlyItsJob, I!TypeOK, I!Inv
<1> QED
  BY <1>1, <1>4, <1>5, <1>6, <1>7, <1>8 DEF I!Inv

\* Issue keeps the invariant.
LEMMA WaysIssueInv ==
  ASSUME I!NoneIsNoUser, I!Inv, NEW kind \in I!Kinds, NEW u \in Pair \cup {None}, NEW r \in More,
         I!Issue(kind, u, r)
  PROVE  I!Inv'
<1>1. I!TypeOK'
  BY
  DEF I!Inv, I!Issue, I!Insert, I!history, I!TypeOK, I!Knows, I!Job, I!Row,
      I!Kinds
<1>2. KeepsWays
  BY DEF I!Inv, I!Issue, I!Insert, I!history, I!TypeOK, KeepsWays, I!Knows
<1>3. I!SomeWayIn'
  BY <1>2, SameWays
  DEF I!Inv, I!Issue, I!Insert, I!history, I!TypeOK, I!Knows, I!Job
<1>4. I!OverlapIsKnown'
  BY WaysSameOverlap DEF I!Inv, I!Issue, I!Insert, I!history, I!TypeOK, I!Job
<1>5. I!GoneOnceUsed'
  BY
  DEF I!Inv, I!Issue, I!Insert, I!history, I!TypeOK, I!GoneOnceUsed, I!Row,
      I!Kinds
<1>6. ASSUME NEW g \in Handlers PROVE I!Knows(g)'
  BY <1>2, WaysSameKnows DEF I!Issue, I!Insert, I!history, I!TypeOK, I!Inv
<1> QED
  BY <1>1, <1>3, <1>4, <1>5, <1>6 DEF I!Inv

\* Return keeps the invariant.
LEMMA WaysReturnInv ==
  ASSUME I!NoneIsNoUser, I!Inv, NEW h \in Handlers, NEW r \in More, NEW i \in Other,
         NEW e \in Pair,
         I!Return(h, r, i, e)
  PROVE  I!Inv'
<1>1. I!TypeOK'
  BY
  DEF I!Inv, I!Return, I!Start, I!tables, I!history, I!TypeOK, I!Knows, I!Job,
      I!Row, I!Kinds
<1>2. KeepsWays
  BY
  DEF I!Inv, I!Return, I!Start, I!tables, I!history, I!TypeOK, KeepsWays,
      I!Knows
<1>3. OnlyItsJob(h)
  BY DEF I!Inv, I!Return, I!Start, I!tables, I!history, I!TypeOK, OnlyItsJob
<1>4. I!SomeWayIn'
  BY <1>2, SameWays
  DEF I!Inv, I!Return, I!Start, I!tables, I!history, I!TypeOK, I!Knows, I!Job
<1>5. I!OverlapIsKnown'
  BY WaysSameOverlap
  DEF I!Inv, I!Return, I!Start, I!tables, I!history, I!TypeOK, I!Job
<1>6. I!GoneOnceUsed'
  BY
  DEF I!Inv, I!Return, I!Start, I!tables, I!history, I!TypeOK, I!GoneOnceUsed,
      I!Row, I!Kinds
<1>7. I!Knows(h)'
  <2>1. /\ x7'[h].pc = "consume" /\ x7'[h].row = r /\ x5' = x5
        /\ x5[r].kind = "state" => x7'[h].identity = i /\ x7'[h].email = e
    BY DEF I!Inv, I!Return, I!Start, I!tables, I!TypeOK
  <2>2. x5[r].kind # "none"
    BY DEF I!Return, I!Kinds
  <2> QED
    BY <2>1, <2>2 DEF I!Knows
<1>8. ASSUME NEW g \in Handlers \ {h} PROVE I!Knows(g)'
  BY <1>2, <1>3, WaysSameKnows
  DEF I!Return, I!Start, I!tables, I!history, OnlyItsJob, I!TypeOK, I!Inv
<1> QED
  BY <1>1, <1>4, <1>5, <1>6, <1>7, <1>8 DEF I!Inv

\* Consume keeps the invariant.
LEMMA WaysConsumeInv ==
  ASSUME I!NoneIsNoUser, I!Inv, NEW h \in Handlers,
         I!Consume(h)
  PROVE  I!Inv'
<1>1. I!TypeOK'
  <2>1. x7[h].row \in More /\ x7[h] \in I!Job /\ x5[x7[h].row] \in I!Row
    BY DEF I!Inv, I!Consume, I!Knows, I!TypeOK
  <2>2. [x5[x7[h].row] EXCEPT !.kind = "gone"] \in I!Row
    BY <2>1 DEF I!Row
  <2>3. \A pc \in {"identity", "addKey"} : [x7[h] EXCEPT !.pc = pc] \in I!Job
    BY <2>1 DEF I!Job
  <2>4. I!Idle \in I!Job
    BY DEF I!Idle, I!Job
  <2>5. x5' \in [More -> I!Row]
    <3>1. \/ x5' = x5
          \/ x5' = [x5 EXCEPT ![x7[h].row] =
                        [x5[x7[h].row] EXCEPT !.kind = "gone"]]
      BY DEF I!Consume
    <3> QED
      BY <2>2, <3>1 DEF I!Inv, I!TypeOK
  <2>6. x8' \in [More -> Nat]
    BY <2>1 DEF I!Inv, I!Consume, I!TypeOK
  <2>7. x7' \in [Handlers -> I!Job]
    <3>1. \/ x7' = [x7 EXCEPT ![h] = I!Idle]
          \/ \E pc \in {"identity", "addKey"} :
                x7' = [x7 EXCEPT ![h] = [x7[h] EXCEPT !.pc = pc]]
      BY DEF I!Consume, I!End, I!Goto, I!After
    <3> QED
      BY <2>3, <2>4, <3>1 DEF I!Inv, I!TypeOK
  <2> QED
    BY <2>5, <2>6, <2>7 DEF I!Inv, I!Consume, I!TypeOK
<1>2. KeepsWays
  BY
  DEF I!Inv, I!Consume, I!Present, I!After, I!Goto, I!End, I!Idle, I!TypeOK,
      KeepsWays, I!Knows
<1>3. OnlyItsJob(h)
  BY
  DEF I!Inv, I!Consume, I!Present, I!After, I!Goto, I!End, I!Idle, I!TypeOK,
      OnlyItsJob
<1>4. I!SomeWayIn'
  BY <1>2, SameWays
  DEF I!Inv, I!Consume, I!Present, I!After, I!Goto, I!End, I!Idle, I!TypeOK,
      I!Knows, I!Job
<1>5. I!OverlapIsKnown'
  BY WaysSameOverlap
  DEF I!Inv, I!Consume, I!Present, I!After, I!Goto, I!End, I!Idle, I!TypeOK,
      I!Job
<1>6. I!GoneOnceUsed'
  BY
  DEF I!Inv, I!Consume, I!Present, I!After, I!Goto, I!End, I!Idle, I!TypeOK,
      I!GoneOnceUsed, I!Row, I!Kinds
<1>7. I!Knows(h)'
  <2>1. /\ x7[h].pc = "consume" /\ x7[h].row \in More /\ x7[h] \in I!Job
        /\ x5[x7[h].row].kind = "state" => /\ x7[h].identity \in Other
                                           /\ x7[h].email \in Pair
    BY DEF I!Inv, I!Consume, I!Knows, I!TypeOK
  <2>2. \/ x7' = [x7 EXCEPT ![h] = I!Idle]
        \/ /\ x5[x7[h].row].kind = "state"
           /\ x7' = [x7 EXCEPT ![h] = [x7[h] EXCEPT !.pc = "identity"]]
        \/ x7' = [x7 EXCEPT ![h] = [x7[h] EXCEPT !.pc = "addKey"]]
    BY DEF I!Consume, I!End, I!Goto, I!After
  <2>3. \/ x7'[h] = I!Idle
        \/ /\ x5[x7[h].row].kind = "state" /\ x7'[h].pc = "identity"
           /\ x7'[h].identity = x7[h].identity /\ x7'[h].email = x7[h].email
        \/ x7'[h].pc = "addKey"
    BY <2>1, <2>2 DEF I!Inv, I!TypeOK, I!Job
  <2> QED
    BY <2>1, <2>3 DEF I!Knows, I!Idle
<1>8. ASSUME NEW g \in Handlers \ {h} PROVE I!Knows(g)'
  <2>1. \A r \in More : x5'[r].kind = x5[r].kind \/ x5'[r].kind = "gone"
    <3>1. \/ x5' = x5
          \/ x5' = [x5 EXCEPT ![x7[h].row] =
                        [x5[x7[h].row] EXCEPT !.kind = "gone"]]
      BY DEF I!Consume
    <3> QED
      BY <3>1 DEF I!Inv, I!TypeOK, I!Row
  <2> QED
    BY <1>2, <1>3, <2>1, WaysSameKnows DEF OnlyItsJob
<1> QED
  BY <1>1, <1>4, <1>5, <1>6, <1>7, <1>8 DEF I!Inv

\* Lapse keeps the invariant.
LEMMA WaysLapseInv ==
  ASSUME I!NoneIsNoUser, I!Inv, NEW r \in More,
         I!Lapse(r)
  PROVE  I!Inv'
<1>1. I!TypeOK'
  BY DEF I!Inv, I!Lapse, I!history, I!TypeOK, I!Knows, I!Job, I!Row, I!Kinds
<1>2. KeepsWays
  BY DEF I!Inv, I!Lapse, I!history, I!TypeOK, KeepsWays, I!Knows
<1>3. I!SomeWayIn'
  BY <1>2, SameWays DEF I!Inv, I!Lapse, I!history, I!TypeOK, I!Knows, I!Job
<1>4. I!OverlapIsKnown'
  BY WaysSameOverlap DEF I!Inv, I!Lapse, I!history, I!TypeOK, I!Job
<1>5. I!GoneOnceUsed'
  BY DEF I!Inv, I!Lapse, I!history, I!TypeOK, I!GoneOnceUsed, I!Row, I!Kinds
<1>6. ASSUME NEW g \in Handlers PROVE I!Knows(g)'
  BY <1>2, WaysSameKnows DEF I!Lapse, I!history, I!TypeOK, I!Inv
<1> QED
  BY <1>1, <1>3, <1>4, <1>5, <1>6 DEF I!Inv

\* FindIdentity keeps the invariant.
LEMMA WaysFindIdentityInv ==
  ASSUME I!NoneIsNoUser, I!Inv, NEW h \in Handlers,
         I!FindIdentity(h)
  PROVE  I!Inv'
<1>1. I!TypeOK'
  <2>1. /\ x7[h].pc = "identity" /\ x7[h] \in I!Job
        /\ x7[h].identity \in Other /\ x7[h].email \in Pair
        /\ x3[x7[h].identity] \in Pair \cup {None}
        /\ UNCHANGED <<I!tables, I!history>>
    BY DEF I!Inv, I!FindIdentity, I!Knows, I!TypeOK
  <2>2. \/ /\ x7[h].user # None
           /\ x7' = [x7 EXCEPT ![h] = [x7[h] EXCEPT !.pc = "attach", !.email = None]]
        \/ x7' = [x7 EXCEPT ![h] = I!Idle]
        \/ x7' = [x7 EXCEPT ![h] = [x7[h] EXCEPT !.pc = "email"]]
        \/ x7' = [x7 EXCEPT ![h] = [x7[h] EXCEPT !.pc = "redirect",
                                          !.user = x3[x7[h].identity]]]
    BY DEF I!FindIdentity, I!Start, I!Goto, I!End
  <2>3. /\ I!Idle \in I!Job
        /\ [x7[h] EXCEPT !.pc = "attach", !.email = None] \in I!Job
        /\ [x7[h] EXCEPT !.pc = "email"] \in I!Job
        /\ [x7[h] EXCEPT !.pc = "redirect", !.user = x3[x7[h].identity]] \in I!Job
    BY <2>1 DEF I!Idle, I!Job
  <2>4. x7' \in [Handlers -> I!Job]
    BY <2>2, <2>3 DEF I!Inv, I!TypeOK
  <2> QED
    BY <2>1, <2>4 DEF I!Inv, I!TypeOK, I!tables, I!history
<1>2. KeepsWays
  BY
  DEF I!Inv, I!FindIdentity, I!Start, I!Goto, I!End, I!Idle, I!tables,
      I!history, I!TypeOK, KeepsWays, I!Knows
<1>3. OnlyItsJob(h)
  BY
  DEF I!Inv, I!FindIdentity, I!Start, I!Goto, I!End, I!Idle, I!tables,
      I!history, I!TypeOK, OnlyItsJob
<1>4. I!SomeWayIn'
  BY <1>2, SameWays
  DEF I!Inv, I!FindIdentity, I!Start, I!Goto, I!End, I!Idle, I!tables,
      I!history, I!TypeOK, I!Knows, I!Job
<1>5. I!OverlapIsKnown'
  <2>1. /\ x7[h].pc = "identity" /\ x7[h] \in I!Job
        /\ x7[h].identity \in Other /\ x7[h].email \in Pair
        /\ x3[x7[h].identity] \in Pair \cup {None}
        /\ UNCHANGED <<I!tables, I!history>>
    BY DEF I!Inv, I!FindIdentity, I!Knows, I!TypeOK
  <2>2. \/ /\ x7[h].user # None
           /\ x7' = [x7 EXCEPT ![h] = [x7[h] EXCEPT !.pc = "attach", !.email = None]]
        \/ x7' = [x7 EXCEPT ![h] = I!Idle]
        \/ x7' = [x7 EXCEPT ![h] = [x7[h] EXCEPT !.pc = "email"]]
        \/ x7' = [x7 EXCEPT ![h] = [x7[h] EXCEPT !.pc = "redirect",
                                          !.user = x3[x7[h].identity]]]
    BY DEF I!FindIdentity, I!Start, I!Goto, I!End
  <2>3. x7'[h].pc # "unlink"
    <3>1. x7 \in [Handlers -> I!Job]
      BY DEF I!Inv, I!TypeOK
    <3>2. CASE /\ x7[h].user # None
               /\ x7' = [x7 EXCEPT ![h] = [x7[h] EXCEPT !.pc = "attach", !.email = None]]
      BY <2>1, <3>1, <3>2 DEF I!Job
    <3>3. CASE x7' = [x7 EXCEPT ![h] = I!Idle]
      BY <3>1, <3>3 DEF I!Idle
    <3>4. CASE x7' = [x7 EXCEPT ![h] = [x7[h] EXCEPT !.pc = "email"]]
      BY <2>1, <3>1, <3>4 DEF I!Job
    <3>5. CASE x7' = [x7 EXCEPT ![h] = [x7[h] EXCEPT !.pc = "redirect",
                                              !.user = x3[x7[h].identity]]]
      BY <2>1, <3>1, <3>5 DEF I!Job
    <3> QED
      BY <2>2, <3>2, <3>3, <3>4, <3>5
  <2> QED
    BY <1>3, <2>1, <2>3, WaysSameOverlap DEF OnlyItsJob, I!history
<1>6. I!GoneOnceUsed'
  BY
  DEF I!Inv, I!FindIdentity, I!Start, I!Goto, I!End, I!Idle, I!tables,
      I!history, I!TypeOK, I!GoneOnceUsed, I!Row, I!Kinds
<1>7. I!Knows(h)'
  <2>1. /\ x7[h].pc = "identity" /\ x7[h] \in I!Job
        /\ x7[h].identity \in Other /\ x7[h].email \in Pair
        /\ x3[x7[h].identity] \in Pair \cup {None}
        /\ UNCHANGED <<I!tables, I!history>>
    BY DEF I!Inv, I!FindIdentity, I!Knows, I!TypeOK
  <2>2. \/ /\ x7[h].user # None
           /\ x7' = [x7 EXCEPT ![h] = [x7[h] EXCEPT !.pc = "attach", !.email = None]]
        \/ x7' = [x7 EXCEPT ![h] = I!Idle]
        \/ x7' = [x7 EXCEPT ![h] = [x7[h] EXCEPT !.pc = "email"]]
        \/ x7' = [x7 EXCEPT ![h] = [x7[h] EXCEPT !.pc = "redirect",
                                          !.user = x3[x7[h].identity]]]
    BY DEF I!FindIdentity, I!Start, I!Goto, I!End
  <2>3. \/ /\ x7'[h].pc = "attach" /\ x7'[h].user \in Pair
           /\ x7'[h].identity = x7[h].identity
        \/ x7'[h].pc \in {"idle", "redirect"}
        \/ /\ x7'[h].pc = "email" /\ x7'[h].identity = x7[h].identity
           /\ x7'[h].email = x7[h].email
    <3>1. x7 \in [Handlers -> I!Job]
      BY DEF I!Inv, I!TypeOK
    <3>2. CASE /\ x7[h].user # None
               /\ x7' = [x7 EXCEPT ![h] = [x7[h] EXCEPT !.pc = "attach", !.email = None]]
      BY <2>1, <3>1, <3>2 DEF I!Job
    <3>3. CASE x7' = [x7 EXCEPT ![h] = I!Idle]
      BY <3>1, <3>3 DEF I!Idle
    <3>4. CASE x7' = [x7 EXCEPT ![h] = [x7[h] EXCEPT !.pc = "email"]]
      BY <2>1, <3>1, <3>4 DEF I!Job
    <3>5. CASE x7' = [x7 EXCEPT ![h] = [x7[h] EXCEPT !.pc = "redirect",
                                              !.user = x3[x7[h].identity]]]
      BY <2>1, <3>1, <3>5 DEF I!Job
    <3> QED
      BY <2>2, <3>2, <3>3, <3>4, <3>5
  <2> QED
    BY <2>1, <2>3 DEF I!Knows
<1>8. ASSUME NEW g \in Handlers \ {h} PROVE I!Knows(g)'
  BY <1>2, <1>3, WaysSameKnows
  DEF I!FindIdentity, I!Start, I!Goto, I!End, I!Idle, I!tables, I!history,
      OnlyItsJob, I!TypeOK, I!Inv
<1> QED
  BY <1>1, <1>4, <1>5, <1>6, <1>7, <1>8 DEF I!Inv

\* FindByEmail keeps the invariant.
LEMMA WaysFindByEmailInv ==
  ASSUME I!NoneIsNoUser, I!Inv, NEW h \in Handlers,
         I!FindByEmail(h)
  PROVE  I!Inv'
<1>1. I!TypeOK'
  <2>1. x7[h] \in I!Job /\ x7[h].email \in Pair
    BY DEF I!Inv, I!FindByEmail, I!Knows, I!TypeOK
  <2>2. \A pc \in {"attach", "mint"} :
           [x7[h] EXCEPT !.pc = pc, !.user = x7[h].email] \in I!Job
    BY <2>1 DEF I!Job
  <2>3. \E pc \in {"attach", "mint"} :
           x7' = [x7 EXCEPT ![h] = [x7[h] EXCEPT !.pc = pc, !.user = x7[h].email]]
    BY DEF I!FindByEmail, I!Start
  <2>4. x7' \in [Handlers -> I!Job]
    BY <2>2, <2>3 DEF I!Inv, I!TypeOK
  <2> QED
    BY <2>4 DEF I!Inv, I!FindByEmail, I!TypeOK, I!tables, I!history
<1>2. KeepsWays
  BY
  DEF I!Inv, I!FindByEmail, I!Start, I!tables, I!history, I!TypeOK, KeepsWays,
      I!Knows
<1>3. OnlyItsJob(h)
  BY
  DEF I!Inv, I!FindByEmail, I!Start, I!tables, I!history, I!TypeOK, OnlyItsJob
<1>4. I!SomeWayIn'
  BY <1>2, SameWays
  DEF I!Inv, I!FindByEmail, I!Start, I!tables, I!history, I!TypeOK, I!Knows,
      I!Job
<1>5. I!OverlapIsKnown'
  BY WaysSameOverlap
  DEF I!Inv, I!FindByEmail, I!Start, I!tables, I!history, I!TypeOK, I!Job
<1>6. I!GoneOnceUsed'
  BY
  DEF I!Inv, I!FindByEmail, I!Start, I!tables, I!history, I!TypeOK,
      I!GoneOnceUsed, I!Row, I!Kinds
<1>7. I!Knows(h)'
  BY
  DEF I!Inv, I!FindByEmail, I!Start, I!tables, I!history, I!TypeOK, I!Knows,
      I!Job, I!Row, I!NoneIsNoUser
<1>8. ASSUME NEW g \in Handlers \ {h} PROVE I!Knows(g)'
  BY <1>2, <1>3, WaysSameKnows
  DEF I!FindByEmail, I!Start, I!tables, I!history, OnlyItsJob, I!TypeOK, I!Inv
<1> QED
  BY <1>1, <1>4, <1>5, <1>6, <1>7, <1>8 DEF I!Inv

\* Mint keeps the invariant.
LEMMA WaysMintInv ==
  ASSUME I!NoneIsNoUser, I!Inv, NEW h \in Handlers,
         I!Mint(h)
  PROVE  I!Inv'
<1>1. I!TypeOK'
  BY
  DEF I!Inv, I!Mint, I!Goto, I!history, I!TypeOK, I!Knows, I!Job, I!Row,
      I!Kinds
<1>2. KeepsWays
  BY DEF I!Inv, I!Mint, I!Goto, I!history, I!TypeOK, KeepsWays, I!Knows
<1>3. OnlyItsJob(h)
  BY DEF I!Inv, I!Mint, I!Goto, I!history, I!TypeOK, OnlyItsJob
<1>4. I!SomeWayIn'
  <2>1. /\ x7[h].pc = "mint" /\ x7[h].user \in Pair
        /\ x1' = x1 \cup {x7[h].user}
        /\ x7'[h].pc = "attach" /\ x7'[h].user = x7[h].user
    BY DEF I!Inv, I!Mint, I!Goto, I!Knows, I!TypeOK, I!Job
  <2>2. x1' \subseteq Pair
    BY <2>1 DEF I!Inv, I!TypeOK
  <2> QED
    BY <1>2, <1>3, <2>1, <2>2, SameWays DEF OnlyItsJob
<1>5. I!OverlapIsKnown'
  BY WaysSameOverlap DEF I!Inv, I!Mint, I!Goto, I!history, I!TypeOK, I!Job
<1>6. I!GoneOnceUsed'
  BY
  DEF I!Inv, I!Mint, I!Goto, I!history, I!TypeOK, I!GoneOnceUsed, I!Row,
      I!Kinds
<1>7. I!Knows(h)'
  BY
  DEF I!Inv, I!Mint, I!Goto, I!history, I!TypeOK, I!Knows, I!Job, I!Row,
      I!NoneIsNoUser
<1>8. ASSUME NEW g \in Handlers \ {h} PROVE I!Knows(g)'
  BY <1>2, <1>3, WaysSameKnows
  DEF I!Mint, I!Goto, I!history, OnlyItsJob, I!TypeOK, I!Inv
<1> QED
  BY <1>1, <1>4, <1>5, <1>6, <1>7, <1>8 DEF I!Inv

\* Attach keeps the invariant.
LEMMA WaysAttachInv ==
  ASSUME I!NoneIsNoUser, I!Inv, NEW h \in Handlers,
         I!Attach(h)
  PROVE  I!Inv'
<1>1. I!TypeOK'
  BY
  DEF I!Inv, I!Attach, I!Goto, I!End, I!Idle, I!history, I!TypeOK, I!Knows,
      I!Job, I!Row, I!Kinds
<1>2. KeepsWays
  BY
  DEF I!Inv, I!Attach, I!Goto, I!End, I!Idle, I!history, I!TypeOK, KeepsWays,
      I!Knows
<1>3. OnlyItsJob(h)
  BY
  DEF I!Inv, I!Attach, I!Goto, I!End, I!Idle, I!history, I!TypeOK, OnlyItsJob
<1>4. I!SomeWayIn'
  <2>1. /\ x7[h].identity \in Other /\ x1' = x1
        /\ x3'[x7[h].identity] = x7[h].user
    BY DEF I!Inv, I!Attach, I!Knows, I!TypeOK
  <2>2. ASSUME NEW u \in Pair, x7[h].user = u PROVE I!WayBut(u, None)'
    BY <2>1, <2>2 DEF I!NoneIsNoUser, I!WayBut, I!Others
  <2>3. x1' \subseteq Pair
    BY <2>1 DEF I!Inv, I!TypeOK
  <2> QED
    BY <1>2, <1>3, <2>1, <2>2, <2>3, SameWays DEF OnlyItsJob
<1>5. I!OverlapIsKnown'
  BY WaysSameOverlap
  DEF I!Inv, I!Attach, I!Goto, I!End, I!Idle, I!history, I!TypeOK, I!Job
<1>6. I!GoneOnceUsed'
  BY
  DEF I!Inv, I!Attach, I!Goto, I!End, I!Idle, I!history, I!TypeOK,
      I!GoneOnceUsed, I!Row, I!Kinds
<1>7. I!Knows(h)'
  BY
  DEF I!Inv, I!Attach, I!Goto, I!End, I!Idle, I!history, I!TypeOK, I!Knows,
      I!Job, I!Row, I!NoneIsNoUser
<1>8. ASSUME NEW g \in Handlers \ {h} PROVE I!Knows(g)'
  BY <1>2, <1>3, WaysSameKnows
  DEF I!Attach, I!Goto, I!End, I!Idle, I!history, OnlyItsJob, I!TypeOK, I!Inv
<1> QED
  BY <1>1, <1>4, <1>5, <1>6, <1>7, <1>8 DEF I!Inv

\* Redirect keeps the invariant.
LEMMA WaysRedirectInv ==
  ASSUME I!NoneIsNoUser, I!Inv, NEW h \in Handlers, NEW r \in More,
         I!Redirect(h, r)
  PROVE  I!Inv'
<1>1. I!TypeOK'
  BY
  DEF I!Inv, I!Redirect, I!Insert, I!End, I!Idle, I!history, I!TypeOK,
      I!Knows, I!Job, I!Row, I!Kinds
<1>2. KeepsWays
  BY
  DEF I!Inv, I!Redirect, I!Insert, I!End, I!Idle, I!history, I!TypeOK,
      KeepsWays, I!Knows
<1>3. OnlyItsJob(h)
  BY
  DEF I!Inv, I!Redirect, I!Insert, I!End, I!Idle, I!history, I!TypeOK,
      OnlyItsJob
<1>4. I!SomeWayIn'
  BY <1>2, SameWays
  DEF I!Inv, I!Redirect, I!Insert, I!End, I!Idle, I!history, I!TypeOK,
      I!Knows, I!Job
<1>5. I!OverlapIsKnown'
  BY WaysSameOverlap
  DEF I!Inv, I!Redirect, I!Insert, I!End, I!Idle, I!history, I!TypeOK, I!Job
<1>6. I!GoneOnceUsed'
  BY
  DEF I!Inv, I!Redirect, I!Insert, I!End, I!Idle, I!history, I!TypeOK,
      I!GoneOnceUsed, I!Row, I!Kinds
<1>7. I!Knows(h)'
  BY
  DEF I!Inv, I!Redirect, I!Insert, I!End, I!Idle, I!history, I!TypeOK,
      I!Knows, I!Job, I!Row, I!NoneIsNoUser
<1>8. ASSUME NEW g \in Handlers \ {h} PROVE I!Knows(g)'
  BY <1>2, <1>3, WaysSameKnows
  DEF I!Redirect, I!Insert, I!End, I!Idle, I!history, OnlyItsJob, I!TypeOK,
      I!Inv
<1> QED
  BY <1>1, <1>4, <1>5, <1>6, <1>7, <1>8 DEF I!Inv

\* ReadUnlink keeps the invariant.
LEMMA WaysReadUnlinkInv ==
  ASSUME I!NoneIsNoUser, I!Inv, NEW h \in Handlers, NEW i \in Other,
         I!ReadUnlink(h, i)
  PROVE  I!Inv'
<1>1. I!TypeOK'
  BY
  DEF I!Inv, I!ReadUnlink, I!Start, I!Idle, I!tables, I!TypeOK, I!Knows,
      I!Job, I!Row, I!Kinds
<1>2. KeepsWays
  BY
  DEF I!Inv, I!ReadUnlink, I!Start, I!Idle, I!tables, I!TypeOK, KeepsWays,
      I!Knows
<1>3. OnlyItsJob(h)
  BY DEF I!Inv, I!ReadUnlink, I!Start, I!Idle, I!tables, I!TypeOK, OnlyItsJob
<1>4. I!SomeWayIn'
  BY <1>2, SameWays
  DEF I!Inv, I!ReadUnlink, I!Start, I!Idle, I!tables, I!TypeOK, I!Knows, I!Job
<1>5. I!OverlapIsKnown'
  <2>1. /\ x7[h].pc = "idle" /\ x7'[h].pc = "unlink" /\ x7'[h].user = x3[i]
    BY DEF I!Inv, I!ReadUnlink, I!Start, I!Idle, I!TypeOK
  <2>2. ASSUME NEW g \in Handlers, x7[g].pc = "unlink", x7[g].user = x3[i]
        PROVE  x3[i] \in x9'
    BY <2>2 DEF I!ReadUnlink
  <2>3. x9 \subseteq x9'
    BY <1>2 DEF KeepsWays
  <2> QED
    BY <1>3, <2>1, <2>2, <2>3 DEF I!Inv, I!OverlapIsKnown, OnlyItsJob
<1>6. I!GoneOnceUsed'
  BY
  DEF I!Inv, I!ReadUnlink, I!Start, I!Idle, I!tables, I!TypeOK,
      I!GoneOnceUsed, I!Row, I!Kinds
<1>7. I!Knows(h)'
  <2>1. /\ x7'[h].pc = "unlink" /\ x7'[h].user = x3[i]
        /\ x7'[h].identity = i /\ x3[i] \in Pair
        /\ x3' = x3 /\ I!WayBut(x3[i], i)
    BY DEF I!Inv, I!ReadUnlink, I!Start, I!Idle, I!tables, I!TypeOK
  <2>2. I!WayBut(x3[i], i)'
    BY <2>1 DEF I!ReadUnlink, I!tables, I!WayBut, I!Others, I!KeysOf
  <2> QED
    BY <2>1, <2>2 DEF I!Knows
<1>8. ASSUME NEW g \in Handlers \ {h} PROVE I!Knows(g)'
  BY <1>2, <1>3, WaysSameKnows
  DEF I!ReadUnlink, I!Start, I!Idle, I!tables, OnlyItsJob, I!TypeOK, I!Inv
<1> QED
  BY <1>1, <1>4, <1>5, <1>6, <1>7, <1>8 DEF I!Inv

\* Unlink keeps the invariant.
LEMMA WaysUnlinkInv ==
  ASSUME I!NoneIsNoUser, I!Inv, NEW h \in Handlers,
         I!Unlink(h)
  PROVE  I!Inv'
<1> DEFINE i == x7[h].identity
           u == x7[h].user
<1>1. /\ x7[h].pc = "unlink" /\ i \in Other /\ u \in Pair
      /\ x3[i] = u /\ (u \in x9 \/ I!WayBut(u, i))
      /\ x3' = [x3 EXCEPT ![i] = None]
      /\ UNCHANGED <<x1, x2, x4, x5, x6, I!history>>
  BY DEF I!Inv, I!Unlink, I!Knows
<1>2. ASSUME NEW g \in Handlers
      PROVE  x7'[g] = IF x7[g].pc = "unlink" /\ x7[g].identity = i
                       THEN I!Idle ELSE x7[g]
  BY DEF I!Unlink
<1>3. I!TypeOK'
  <2>1. x7' \in [Handlers -> I!Job]
    BY DEF I!Inv, I!Unlink, I!TypeOK, I!Idle, I!Job
  <2> QED
    BY <1>1, <2>1 DEF I!Inv, I!TypeOK, I!history
<1>4. ASSUME NEW w \in Pair, NEW j, w # u \/ j = i, I!WayBut(w, j)
      PROVE  I!WayBut(w, j)' /\ (j = i => I!WayBut(w, None)')
  <2>1. x2' = x2 /\ I!KeysOf(w)' = I!KeysOf(w)
    BY <1>1 DEF I!KeysOf
  <2>2. I!Others(w, j) \subseteq I!Others(w, j)' /\ (j = i => I!Others(w, j)' \subseteq I!Others(w, None)')
    BY <1>1, <1>4 DEF I!Inv, I!TypeOK, I!Others, I!NoneIsNoUser
  <2> QED
    BY <1>4, <2>1, <2>2 DEF I!WayBut
<1>5. I!SomeWayIn'
  <2> SUFFICES ASSUME NEW w \in x1 \ x9
               PROVE  \/ I!WayBut(w, None)'
                      \/ \E g \in Handlers : x7'[g].pc = "attach" /\ x7'[g].user = w
    BY <1>1 DEF I!SomeWayIn, I!history
  <2>1. w \in Pair
    BY DEF I!Inv, I!TypeOK
  <2>2. CASE w = u
    BY <1>1, <1>4, <2>1, <2>2
  <2>3. CASE w # u /\ I!WayBut(w, None)
    BY <1>4, <2>1, <2>3
  <2>4. CASE \E g \in Handlers : x7[g].pc = "attach" /\ x7[g].user = w
    BY <1>2, <2>4
  <2> QED
    BY <2>2, <2>3, <2>4 DEF I!Inv, I!SomeWayIn
<1>6. I!OverlapIsKnown'
  BY <1>1, <1>2, WaysSameOverlap DEF I!history, I!Idle
<1>7. I!GoneOnceUsed'
  BY <1>1 DEF I!Inv, I!GoneOnceUsed, I!history
<1>8. ASSUME NEW g \in Handlers PROVE I!Knows(g)'
  <2>1. I!Knows(g)
    BY DEF I!Inv
  <2>2. CASE x7'[g] = I!Idle
    BY <2>2 DEF I!Knows, I!Idle
  <2>3. CASE x7'[g] = x7[g] /\ x7[g].pc # "unlink"
    BY <1>1, <2>1, <2>3 DEF I!Knows
  <2>4. CASE x7'[g] = x7[g] /\ x7[g].pc = "unlink" /\ x7'[g] # I!Idle
    <3>1. x7[g].identity # i
      BY <1>2, <2>4
    <3>2. /\ x7[g].user \in Pair /\ x7[g].identity \in Other
          /\ x3'[x7[g].identity] = x7[g].user
      BY <1>1, <2>1, <2>4, <3>1 DEF I!Knows, I!Inv, I!TypeOK
    <3>3. CASE x7[g].user = u
      <4>1. u \in x9'
        BY <1>1, <2>4, <3>1, <3>3 DEF I!Inv, I!OverlapIsKnown, I!history
      <4> QED
        BY <2>4, <3>2, <3>3, <4>1 DEF I!Knows
    <3>4. CASE x7[g].user # u
      <4>1. x7[g].user \in x9 \/ I!WayBut(x7[g].user, x7[g].identity)
        BY <2>1, <2>4 DEF I!Knows
      <4>2. x7[g].user \in x9' \/ I!WayBut(x7[g].user, x7[g].identity)'
        BY <1>1, <1>4, <2>4, <3>2, <3>4, <4>1 DEF I!history
      <4> QED
        BY <2>4, <3>2, <4>2 DEF I!Knows
    <3> QED
      BY <3>3, <3>4
  <2> QED
    BY <1>2, <2>2, <2>3, <2>4
<1> QED
  BY <1>3, <1>5, <1>6, <1>7, <1>8 DEF I!Inv


\* AddKey keeps the invariant.
LEMMA WaysAddKeyInv ==
  ASSUME I!NoneIsNoUser, I!Inv, NEW h \in Handlers, NEW k \in Few,
         I!AddKey(h, k)
  PROVE  I!Inv'
<1>1. I!TypeOK'
  BY
  DEF I!Inv, I!AddKey, I!End, I!Idle, I!history, I!TypeOK, I!Knows, I!Job,
      I!Row, I!Kinds
<1>2. KeepsWays
  BY
  DEF I!Inv, I!AddKey, I!End, I!Idle, I!history, I!TypeOK, KeepsWays, I!Knows
<1>3. OnlyItsJob(h)
  BY DEF I!Inv, I!AddKey, I!End, I!Idle, I!history, I!TypeOK, OnlyItsJob
<1>4. I!SomeWayIn'
  BY <1>2, SameWays
  DEF I!Inv, I!AddKey, I!End, I!Idle, I!history, I!TypeOK, I!Knows, I!Job
<1>5. I!OverlapIsKnown'
  BY WaysSameOverlap
  DEF I!Inv, I!AddKey, I!End, I!Idle, I!history, I!TypeOK, I!Job
<1>6. I!GoneOnceUsed'
  BY
  DEF I!Inv, I!AddKey, I!End, I!Idle, I!history, I!TypeOK, I!GoneOnceUsed,
      I!Row, I!Kinds
<1>7. I!Knows(h)'
  BY
  DEF I!Inv, I!AddKey, I!End, I!Idle, I!history, I!TypeOK, I!Knows, I!Job,
      I!Row, I!NoneIsNoUser
<1>8. ASSUME NEW g \in Handlers \ {h} PROVE I!Knows(g)'
  BY <1>2, <1>3, WaysSameKnows
  DEF I!AddKey, I!End, I!Idle, I!history, OnlyItsJob, I!TypeOK, I!Inv
<1> QED
  BY <1>1, <1>4, <1>5, <1>6, <1>7, <1>8 DEF I!Inv

\* RemovePasskey keeps the invariant.
LEMMA WaysRemovePasskeyInv ==
  ASSUME I!NoneIsNoUser, I!Inv, NEW k \in Few,
         I!RemovePasskey(k)
  PROVE  I!Inv'
<1>1. I!TypeOK'
  BY DEF I!Inv, I!RemovePasskey, I!TypeOK, I!Knows, I!Job, I!Row, I!Kinds
<1>2. KeepsWays
  BY DEF I!Inv, I!RemovePasskey, I!TypeOK, KeepsWays, I!Knows
<1>3. I!SomeWayIn'
  BY <1>2, SameWays DEF I!Inv, I!RemovePasskey, I!TypeOK, I!Knows, I!Job
<1>4. I!OverlapIsKnown'
  BY WaysSameOverlap DEF I!Inv, I!RemovePasskey, I!TypeOK, I!Job
<1>5. I!GoneOnceUsed'
  BY DEF I!Inv, I!RemovePasskey, I!TypeOK, I!GoneOnceUsed, I!Row, I!Kinds
<1>6. ASSUME NEW g \in Handlers PROVE I!Knows(g)'
  BY <1>2, WaysSameKnows DEF I!RemovePasskey, I!TypeOK, I!Inv
<1> QED
  BY <1>1, <1>3, <1>4, <1>5, <1>6 DEF I!Inv

\* Stop keeps the invariant.
LEMMA WaysStopInv ==
  ASSUME I!NoneIsNoUser, I!Inv, NEW h \in Handlers,
         I!Stop(h)
  PROVE  I!Inv'
<1>1. I!TypeOK'
  BY
  DEF I!Inv, I!Stop, I!End, I!Idle, I!tables, I!TypeOK, I!Knows, I!Job, I!Row,
      I!Kinds
<1>2. KeepsWays
  BY DEF I!Inv, I!Stop, I!End, I!Idle, I!tables, I!TypeOK, KeepsWays, I!Knows
<1>3. OnlyItsJob(h)
  BY DEF I!Inv, I!Stop, I!End, I!Idle, I!tables, I!TypeOK, OnlyItsJob
<1>4. I!SomeWayIn'
  BY <1>2, SameWays
  DEF I!Inv, I!Stop, I!End, I!Idle, I!tables, I!TypeOK, I!Knows, I!Job
<1>5. I!OverlapIsKnown'
  BY WaysSameOverlap
  DEF I!Inv, I!Stop, I!End, I!Idle, I!tables, I!TypeOK, I!Job
<1>6. I!GoneOnceUsed'
  BY
  DEF I!Inv, I!Stop, I!End, I!Idle, I!tables, I!TypeOK, I!GoneOnceUsed, I!Row,
      I!Kinds
<1>7. I!Knows(h)'
  BY
  DEF I!Inv, I!Stop, I!End, I!Idle, I!tables, I!TypeOK, I!Knows, I!Job, I!Row,
      I!NoneIsNoUser
<1>8. ASSUME NEW g \in Handlers \ {h} PROVE I!Knows(g)'
  BY <1>2, <1>3, WaysSameKnows
  DEF I!Stop, I!End, I!Idle, I!tables, OnlyItsJob, I!TypeOK, I!Inv
<1> QED
  BY <1>1, <1>4, <1>5, <1>6, <1>7, <1>8 DEF I!Inv

\* Every step keeps the invariant.
LEMMA WaysNextInv == ASSUME I!NoneIsNoUser, I!Inv, [I!Next]_(I!vars) PROVE I!Inv'
<1>1. CASE UNCHANGED I!vars
  BY <1>1
  DEF I!vars, I!tables, I!history, I!Inv, I!TypeOK, I!SomeWayIn, I!WayBut,
      I!Others, I!KeysOf, I!OverlapIsKnown, I!GoneOnceUsed, I!Knows
<1>2. CASE I!Next
  BY <1>2, WaysRegisterInv, WaysCreateInv, WaysIssueInv, WaysReturnInv,
     WaysConsumeInv, WaysLapseInv, WaysFindIdentityInv, WaysFindByEmailInv,
     WaysMintInv, WaysAttachInv, WaysRedirectInv, WaysReadUnlinkInv,
     WaysUnlinkInv, WaysAddKeyInv, WaysRemovePasskeyInv, WaysStopInv
  DEF I!Next
<1> QED
  BY <1>1, <1>2

(* The invariant holds in every state the sign-in methods of auth/ can get  *)
(* into, for every number of accounts, identities, rows and handlers.      *)
THEOREM WaysInvariance == ASSUME I!NoneIsNoUser PROVE I!Spec => []I!Inv
<1>1. I!Init => I!Inv
  BY WaysInitInv
<1>2. I!Inv /\ [I!Next]_(I!vars) => I!Inv'
  BY WaysNextInv
<1> QED
  BY <1>1, <1>2, PTL DEF I!Spec

\* What the invariant says of the properties the runs check.
LEMMA WaysInvImplies == ASSUME I!Inv PROVE I!TypeOK /\ I!RowsWorkOnce /\ I!SomeWayIn
<1>1. \A r \in More : x8[r] <= 1
  BY DEF I!Inv, I!GoneOnceUsed
<1> QED
  BY <1>1 DEF I!Inv, I!RowsWorkOnce

-----------------------------------------------------------------------------
(* The variables stay in their types.                                      *)
THEOREM WaysTypeCorrect == ASSUME I!NoneIsNoUser PROVE I!Spec => []I!TypeOK
<1>1. I!Inv => I!TypeOK
  BY WaysInvImplies
<1> QED
  BY <1>1, WaysInvariance, PTL

(* A one-time row is redeemed once, whatever was read of it before the     *)
(* update that deletes it.                                                 *)
THEOREM RowsOnce == ASSUME I!NoneIsNoUser PROVE I!Spec => []I!RowsWorkOnce
<1>1. I!Inv => I!RowsWorkOnce
  BY WaysInvImplies
<1> QED
  BY <1>1, WaysInvariance, PTL

(* There is a way into every account, but for those that lost a passkey,   *)
(* had two unlinkings overlap or were created by a call cut short.         *)
THEOREM WaysIn == ASSUME I!NoneIsNoUser PROVE I!Spec => []I!SomeWayIn
<1>1. I!Inv => I!SomeWayIn
  BY WaysInvImplies
<1> QED
  BY <1>1, WaysInvariance, PTL

-----------------------------------------------------------------------------
(* What the run explores, for every value of the constants.                *)

\* The part that moves keeps the invariant its own module was proved with.
Parts ==
    /\ part = "logins" => Q!Inv
    /\ part = "devices" => D!Inv
    /\ part = "codes" => F!Inv
    /\ part = "challenges" => G!Inv
    /\ part = "ways" => I!Inv
    /\ part = "oauth" => O!Inv
    /\ part = "workspaces" => W!Inv
    /\ part = "assurance" => A!Inv
    /\ part = "trust" => T!TypeOK
    /\ part = "browser" => B!Inv

\* Each part begins in a state its invariant holds of.
LEMMA PartsBegin == PartInit => Parts
  BY ConstantsAreSound, Q!InitInv, DeviceInit, F!InitInv, G!InitInv, WaysInitInv,
     O!InitInv, WorkspaceInit, AssuranceInit, TrustInit, BrowserInit
  DEF PartInit, Parts

\* A step is one of the part that moves, or none.
LEMMA PartMoves ==
  ASSUME [PartNext]_<<part, vars, xVars>>
  PROVE  /\ part' = part
         /\ part = "logins" => [Q!Next]_(Q!vars)
         /\ part = "devices" => [D!Next]_(D!vars)
         /\ part = "codes" => [F!Next]_(F!vars)
         /\ part = "challenges" => [G!Next]_(G!vars)
         /\ part = "ways" => [I!Next]_(I!vars)
         /\ part = "oauth" => [O!Next]_(O!vars)
         /\ part = "workspaces" => [W!Next]_(W!vars)
         /\ part = "assurance" => [A!Next]_(A!vars)
         /\ part = "trust" => [T!Next]_(T!vars)
         /\ part = "browser" => [B!Next]_(B!vars)
         /\ [Next]_vars
<1>1. CASE PartNext
  BY <1>1 DEF PartNext
<1>2. CASE UNCHANGED <<part, vars, xVars>>
  <2>1. UNCHANGED <<x1, x2, x3, x4, x5, x6, x7, x8, x9, x10, x11, x12, x13>>
    BY <1>2 DEF xVars
  <2>2. UNCHANGED Q!vars
    BY <2>1 DEF Q!vars
  <2>3. UNCHANGED D!vars
    BY <2>1 DEF D!vars
  <2>4. UNCHANGED F!vars /\ UNCHANGED G!vars
    BY <2>1 DEF F!vars, F!account, F!history, G!vars, G!account, G!history
  <2>5. UNCHANGED I!vars
    BY <2>1 DEF I!vars, I!tables, I!history
  <2>6. UNCHANGED O!vars
    BY <2>1 DEF O!vars, O!tables, O!history
  <2>7. UNCHANGED W!vars
    BY <2>1 DEF W!vars, W!tables, W!history
  <2>8. UNCHANGED A!vars
    BY <2>1 DEF A!vars, A!facts, A!history
  <2>9. UNCHANGED T!vars
    BY <2>1 DEF T!vars
  <2>10. UNCHANGED B!vars
    BY <2>1 DEF B!vars, B!tab, B!history
  <2> QED
    BY <1>2, <2>2, <2>3, <2>4, <2>5, <2>6, <2>7, <2>8, <2>9, <2>10
<1> QED
  BY <1>1, <1>2

\* A step keeps the invariant of the part that moves.
LEMMA PartsStep ==
  ASSUME Parts, [PartNext]_<<part, vars, xVars>> PROVE Parts'
<1>1. part' = part
  BY PartMoves
<1>2. ASSUME part = "logins" PROVE Q!Inv'
  BY <1>2, PartMoves, ConstantsAreSound, Q!StepInv DEF Parts
<1>3. ASSUME part = "devices" PROVE D!Inv'
  BY <1>3, PartMoves, DeviceStep DEF Parts
<1>4. ASSUME part = "codes" PROVE F!Inv'
  BY <1>4, PartMoves, ConstantsAreSound, F!NextInv DEF Parts
<1>5. ASSUME part = "challenges" PROVE G!Inv'
  BY <1>5, PartMoves, ConstantsAreSound, G!NextInv DEF Parts
<1>6. ASSUME part = "ways" PROVE I!Inv'
  BY <1>6, PartMoves, ConstantsAreSound, WaysNextInv DEF Parts
<1>7. ASSUME part = "oauth" PROVE O!Inv'
  BY <1>7, PartMoves, ConstantsAreSound, O!NextInv DEF Parts
<1>8. ASSUME part = "workspaces" PROVE W!Inv'
  BY <1>8, PartMoves, ConstantsAreSound, WorkspaceStep DEF Parts
<1>9. ASSUME part = "assurance" PROVE A!Inv'
  BY <1>9, PartMoves, ConstantsAreSound, AssuranceStep DEF Parts
<1>10. ASSUME part = "trust" PROVE T!TypeOK'
  BY <1>10, PartMoves, ConstantsAreSound, TrustStep DEF Parts
<1>11. ASSUME part = "browser" PROVE B!Inv'
  BY <1>11, PartMoves, ConstantsAreSound, BrowserStep DEF Parts
<1> QED
  BY <1>1, <1>2, <1>3, <1>4, <1>5, <1>6, <1>7, <1>8, <1>9, <1>10, <1>11 DEF Parts

(* Whichever component moves, its invariant holds in every state the run   *)
(* can explore, for every value of the constants.                          *)
THEOREM PartsInvariance == PartSpec => []Parts
<1>1. PartInit => Parts
  BY PartsBegin
<1>2. Parts /\ [PartNext]_<<part, vars, xVars>> => Parts'
  BY PartsStep
<1> QED
  BY <1>1, <1>2, PTL DEF PartSpec

\* A step of what moves is a step of the ticket it implements, or none.
LEMMA TicketStep ==
  ASSUME Parts, Parts', [PartNext]_<<part, vars, xVars>>
  PROVE  [Ticket!Next]_(Ticket!vars)
<1>1. part' = part
  BY PartMoves
<1>2. CASE part = "logins"
  <2>1. [Q!Ticket!Next]_(Q!Ticket!vars)
    BY <1>1, <1>2, PartMoves, ConstantsAreSound, Q!TicketStep DEF Parts
  <2> QED
    BY <1>1, <1>2, <2>1
    DEF Ticket!Next, Ticket!vars, Ticket!Approve, Ticket!Close, Ticket!Redeem,
        Ticket!IssueSession, Q!Ticket!Next, Q!Ticket!vars, Q!Ticket!Approve,
        Q!Ticket!Close, Q!Ticket!Redeem, Q!Ticket!IssueSession
<1>3. CASE part = "devices"
  <2>1. [D!Ticket!Next]_(D!Ticket!vars)
    BY <1>1, <1>3, PartMoves, DeviceTicketStep DEF Parts
  <2> QED
    BY <1>1, <1>3, <2>1
    DEF Ticket!Next, Ticket!vars, Ticket!Approve, Ticket!Close, Ticket!Redeem,
        Ticket!IssueSession, D!Ticket!Next, D!Ticket!vars, D!Ticket!Approve,
        D!Ticket!Close, D!Ticket!Redeem, D!Ticket!IssueSession
<1>4. CASE part \notin {"logins", "devices"}
  BY <1>1, <1>4 DEF Ticket!vars
<1> QED
  BY <1>2, <1>3, <1>4

(* A login by QR code and the approval of a new device implement the       *)
(* one-time ticket: approved by one user, redeemed for one session of that *)
(* user, closed for good - whatever the handlers read before their awaits. *)
THEOREM TicketsImplemented == PartSpec => TicketsAreImplemented
<1>1. PartInit => Ticket!Init
  <2> SUFFICES ASSUME PartInit PROVE Ticket!Init
    OBVIOUS
  <2>1. CASE part = "logins"
    BY <2>1 DEF PartInit, Q!Init, Ticket!Init, Q!ticketOf
  <2>2. CASE part = "devices"
    BY <2>2 DEF PartInit, D!Init, Ticket!Init, D!ticketOf, D!holderOf, D!NotDecided
  <2>3. CASE part \notin {"logins", "devices"}
    BY <2>3 DEF Ticket!Init
  <2> QED
    BY <2>1, <2>2, <2>3
<1>2. Parts /\ Parts' /\ [PartNext]_<<part, vars, xVars>>
         => [Ticket!Next]_(Ticket!vars)
  BY TicketStep
<1> QED
  BY <1>1, <1>2, PartsInvariance, PTL
  DEF PartSpec, TicketsAreImplemented, Ticket!Spec

(* A challenge buys one session and a backup code is spent once, however   *)
(* many calls verified them before their updates; a redirect's state, a    *)
(* login exchange and a WebAuthn challenge are redeemed once; and a second *)
(* factor is on only with the secret that was confirmed, unless two        *)
(* set-ups overlapped.                                                     *)
THEOREM OneUse == PartSpec => []UsedOnce
<1>1. Parts => UsedOnce
  BY ConstantsAreSound, F!InvImplies, G!InvImplies, WaysInvImplies
  DEF Parts, UsedOnce
<1> QED
  BY <1>1, PartsInvariance, PTL

(* Nobody is locked out of an account by unlinking identities, but in the  *)
(* cases the property excuses.                                             *)
THEOREM WayIntoEveryAccount == PartSpec => []SomeWayIn
<1>1. Parts => SomeWayIn
  BY WaysInvImplies DEF Parts, SomeWayIn
<1> QED
  BY <1>1, PartsInvariance, PTL

(* No website holds a token for a scope that was not consented to, from a  *)
(* code that was exchanged twice or, if it is public, without its          *)
(* challenge.                                                              *)
THEOREM ConsentBehindTokens == PartSpec => []TokensWereConsented
<1>1. Parts => TokensWereConsented
  BY O!InvImplies DEF Parts, TokensWereConsented
<1> QED
  BY <1>1, PartsInvariance, PTL

(* Disconnecting a website cuts its access, and no consent to it is lost   *)
(* unless two of them overlapped.                                          *)
THEOREM DisconnectingCuts == PartSpec => []AccessFollowsGrant
<1>1. Parts => AccessFollowsGrant
  BY O!InvImplies DEF Parts, AccessFollowsGrant
<1> QED
  BY <1>1, PartsInvariance, PTL

(* No invite is used twice or by another than the one it is for, no        *)
(* request makes two workspaces, and no call gives a user a second         *)
(* personal workspace unless another was looking for it too.               *)
THEOREM InvitesAreBehindMembers == PartSpec => []MembersWereInvited
<1>1. Parts => MembersWereInvited
  BY ConstantsAreSound, WorkspaceInvImplies DEF Parts, MembersWereInvited
<1> QED
  BY <1>1, PartsInvariance, PTL

(* An invite or a request that one call settled says what became of it,    *)
(* and what became of it is what it says.                                  *)
THEOREM RowsTellOutcomes == PartSpec => []OutcomesAreTold
<1>1. Parts => OutcomesAreTold
  BY ConstantsAreSound, WorkspaceInvImplies DEF Parts, OutcomesAreTold
<1> QED
  BY <1>1, PartsInvariance, PTL

(* Whoever is at level three had a request approved, and no step lowers a  *)
(* level but where two services changed it at once.                        *)
THEOREM LevelsEarnedAndKept == PartSpec => LevelsAreEarnedAndKept
<1>1. Parts /\ [PartNext]_<<part, vars, xVars>>
         => (part = "assurance" => A!LevelThreeIsReviewed' /\ A!LevelRises)
  <2> SUFFICES ASSUME Parts, [PartNext]_<<part, vars, xVars>>, part = "assurance"
               PROVE  A!LevelThreeIsReviewed' /\ A!LevelRises
    OBVIOUS
  <2>1. [A!Next]_(A!vars)
    BY PartMoves
  <2>2. A!Inv' /\ A!LevelRises
    BY <2>1, ConstantsAreSound, AssuranceStep DEF Parts
  <2>3. A!LevelThreeIsReviewed'
    BY <2>2 DEF A!Inv
  <2> QED
    BY <2>2, <2>3
<1> QED
  BY <1>1, PartsInvariance, PTL DEF PartSpec, LevelsAreEarnedAndKept

(* Recomputing the trust profile from scratch catches up with the level,   *)
(* unless it was cut short or something overlapped it.                     *)
THEOREM ProfilesCatchUp == PartSpec => []ProfileCatchesUp
<1>1. Parts => ProfileCatchesUp
  BY AssuranceInvImplies DEF Parts, ProfileCatchesUp
<1> QED
  BY <1>1, PartsInvariance, PTL

(* The score is current confidence: what speaks for an account never lowers*)
(* it, penalties pass with their window but for the bonus for activity, and*)
(* the ends of the scale cut nothing off.                                  *)
THEOREM ScoresAreConfidence == PartSpec => []ScoreIsCurrentConfidence
<1>1. Parts => ScoreIsCurrentConfidence
  BY ConstantsAreSound, TrustConfidence DEF Parts, ScoreIsCurrentConfidence
<1> QED
  BY <1>1, PartsInvariance, PTL

(* Whatever order answers arrive in: a copy of the fetch code refreshes a  *)
(* row once, a logout nothing overlapped is final until the next sign-in,  *)
(* and a login that found its session holds.                               *)
THEOREM BrowserInStep == PartSpec => []BrowserKeepsInStep
<1>1. Parts => BrowserKeepsInStep
  BY BrowserInvImplies DEF Parts, BrowserKeepsInStep
<1> QED
  BY <1>1, PartsInvariance, PTL

(* The engine, moving or not, behaves as it was proved to.                 *)
THEOREM EngineRuns == PartSpec => Spec
<1>1. PartInit => Init
  BY DEF PartInit
<1>2. [PartNext]_<<part, vars, xVars>> => [Next]_vars
  BY PartMoves
<1> QED
  BY <1>1, <1>2, PTL DEF PartSpec, Spec

(* The variables of whichever component moves stay in their types.         *)
THEOREM TypesCorrect == PartSpec => []TypesOK
<1>1. Parts /\ TypeOK => TypesOK
  BY ConstantsAreSound, WorkspaceInvImplies, AssuranceInvImplies, BrowserInvImplies,
     F!InvImplies, G!InvImplies, WaysInvImplies, O!InvImplies
  DEF Parts, TypesOK, D!Inv, Q!Inv
<1> QED
  BY <1>1, PartsInvariance, EngineRuns, TypeCorrect, PTL
=============================================================================
