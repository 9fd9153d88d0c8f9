---------------------------- MODULE ActionEngine ----------------------------
(***************************************************************************)
(* The action engine: a request is authorised and either run at once (low  *)
(* risk) or logged with an approval a human resolves later; an agent also  *)
(* needs the user's consent (ContextBrokerService).  The domain service    *)
(* that does the work is not part of the engine's transaction, and the     *)
(* idempotency key is only looked up before and written after it.          *)
(*                                                                         *)
(* One step per statement; Abort is a throw or a restart.                  *)
(***************************************************************************)

CONSTANTS
    Keys,       \* idempotency keys
    Actions,    \* action keys of the registry
    LowRisk,    \* those of tier LOW
    ForAgents,  \* those whose required scopes all have a consent scope
    Agents,     \* OAuth clients of type AI_AGENT
    Handlers,   \* calls that may be in progress at once (a bound)
    None        \* null; as an agent: the request is a user's own

ASSUME RegistryIsSound == LowRisk \subseteq Actions /\ ForAgents \subseteq Actions
ASSUME NoneIsNoValue == None \notin Keys \cup Actions \cup Agents

VARIABLES
    log,        \* the ActionLogEntry table, by idempotency key
    approval,   \* status of the log entry's ActionApproval
    overdue,    \* keys whose approval's expiresAt has passed
    consent,    \* the user's AiAgentConsent for each agent
    job,        \* job[h]: what handler h is doing and what it has read
    ran,        \* history: what the domain services were made to do
    twice,      \* history: keys something was done for more than once
    granted,    \* history: keys whose approval was committed
    consented,  \* history: what each agent was ever given consent for
    contested,  \* history: keys two submissions or two resolutions of which
                \* were past their check at once
    torn        \* history: keys a handler of which stopped, or whose log
                \* write threw, between two writes that belong together

history == <<ran, twice, granted, consented, contested, torn>>
vars == <<log, approval, overdue, consent, job, history>>

Entry == [status : {"none", "PENDING_APPROVAL", "EXECUTED", "REJECTED", "DENIED"},
          action : Actions \cup {None},
          agent  : Agents \cup {None}]

Work == [key : Keys, action : Actions, agent : Agents \cup {None}]

Job == [pc     : {"idle", "check", "pend", "ask", "run", "note",
                  "approve", "deny", "expire"},
        key    : Keys \cup {None},
        action : Actions \cup {None},
        agent  : Agents \cup {None},
        logged : BOOLEAN,        \* execute() was given an existing log entry
        ok     : BOOLEAN]        \* the domain service returned

\* scopes: the actions all of whose consent scopes were granted.
Consent == [scopes : SUBSET ForAgents, active : BOOLEAN]

Idle == [pc |-> "idle", key |-> None, action |-> None, agent |-> None,
         logged |-> FALSE, ok |-> FALSE]

NoEntry == [status |-> "none", action |-> None, agent |-> None]

TypeOK ==
    /\ log \in [Keys -> Entry]
    /\ approval \in [Keys -> {"none", "PENDING", "APPROVED", "DENIED", "EXPIRED"}]
    /\ overdue \subseteq Keys
    /\ consent \in [Agents -> Consent]
    /\ job \in [Handlers -> Job]
    /\ ran \subseteq Work /\ consented \subseteq Agents \X ForAgents
    /\ twice \subseteq Keys /\ granted \subseteq Keys
    /\ contested \subseteq Keys /\ torn \subseteq Keys

Init ==
    /\ log = [k \in Keys |-> NoEntry]
    /\ approval = [k \in Keys |-> "none"]
    /\ overdue = {}
    /\ consent = [g \in Agents |-> [scopes |-> {}, active |-> FALSE]]
    /\ job = [h \in Handlers |-> Idle]
    /\ ran = {} /\ twice = {} /\ granted = {} /\ consented = {}
    /\ contested = {} /\ torn = {}

Goto(h, pc) == job' = [job EXCEPT ![h].pc = pc]

End(h) == job' = [job EXCEPT ![h] = Idle]

At(k, pcs) == {h \in Handlers : job[h].key = k /\ job[h].pc \in pcs}

Contest(k, pcs) ==
    contested' = IF At(k, pcs) # {} THEN contested \cup {k} ELSE contested

-----------------------------------------------------------------------------
(* submit().                                                               *)

Submitting == {"check", "pend", "run", "note"}

\* A mutant of Unknown: only a pending entry answers a repeated key.
UnknownUnlessPending(k) == log[k].status # "PENDING_APPROVAL"

Unknown(k) == log[k].status = "none"

\* A repeated key is answered from the log and changes nothing.
Submit(h, k, a, g) ==
    /\ job[h].pc = "idle"
    /\ Unknown(k)
    /\ job' = [job EXCEPT ![h] = [Idle EXCEPT !.pc = "check", !.key = k,
                                              !.action = a, !.agent = g]]
    /\ Contest(k, Submitting)
    /\ UNCHANGED <<log, approval, overdue, consent, ran, twice, granted,
                   consented, torn>>

\* A mutant of Consented: a revoked consent is not told from an active one.
ConsentedOnce(a, g) == g # None => a \in consent[g].scopes

\* assertConsent(), for a request of an agent.
Consented(a, g) == g # None => consent[g].active /\ a \in consent[g].scopes

\* A mutant of Route: every action is run at once.
RouteAllAtOnce(a) == "run"

Route(a) == IF a \in LowRisk THEN "run" ELSE "pend"

Authorize(h) ==
    /\ job[h].pc = "check"
    /\ Consented(job[h].action, job[h].agent)
    /\ Goto(h, Route(job[h].action))
    /\ UNCHANGED <<log, approval, overdue, consent, history>>

\* The key of a log entry is unique: a second insert throws.
Insert(j, status) ==
    log' = IF log[j.key].status # "none" THEN log
           ELSE [log EXCEPT ![j.key] = [status |-> status, action |-> j.action,
                                        agent |-> j.agent]]

(* reject(): an unknown or disabled action, no membership, no consent or   *)
(* parameters that do not validate.                                        *)
Refuse(h) ==
    /\ job[h].pc = "check"
    /\ Insert(job[h], "REJECTED")
    /\ End(h)
    /\ UNCHANGED <<approval, overdue, consent, history>>

WritePending(h) ==
    /\ job[h].pc = "pend"
    /\ Insert(job[h], "PENDING_APPROVAL")
    /\ IF log[job[h].key].status = "none" THEN Goto(h, "ask") ELSE End(h)
    /\ UNCHANGED <<approval, overdue, consent, history>>

AskApproval(h) ==
    /\ job[h].pc = "ask"
    /\ approval' = [approval EXCEPT ![job[h].key] = "PENDING"]
    /\ End(h)
    /\ UNCHANGED <<log, overdue, consent, history>>

-----------------------------------------------------------------------------
(* execute().                                                              *)

\* The domain service does the work, or throws.
Run(h) ==
    LET j == job[h]
        w == [key |-> j.key, action |-> j.action, agent |-> j.agent]
    IN /\ j.pc = "run"
       /\ job' = [job EXCEPT ![h].pc = "note", ![h].ok = TRUE]
       /\ ran' = ran \cup {w}
       /\ twice' = IF \E x \in ran : x.key = j.key THEN twice \cup {j.key}
                   ELSE twice
       /\ UNCHANGED <<log, approval, overdue, consent, granted, consented,
                      contested, torn>>

RunThrows(h) ==
    /\ job[h].pc = "run"
    /\ Goto(h, "note")
    /\ UNCHANGED <<log, approval, overdue, consent, history>>

\* A mutant of Outcome: the statuses of an approval.
OutcomeAsApproval(ok) == IF ok THEN "APPROVED" ELSE "DENIED"

Outcome(ok) == IF ok THEN "EXECUTED" ELSE "REJECTED"

Note(h) ==
    LET status == Outcome(job[h].ok)
    IN /\ job[h].pc = "note"
       /\ IF job[h].logged THEN log' = [log EXCEPT ![job[h].key].status = status]
          ELSE Insert(job[h], status)
       /\ End(h)
       /\ UNCHANGED <<approval, overdue, consent, history>>

(* The write of EXECUTED throws inside the same try as the work: the       *)
(* handler goes on to write REJECTED.                                      *)
NoteThrows(h) ==
    /\ job[h].pc = "note" /\ job[h].ok
    /\ job' = [job EXCEPT ![h].ok = FALSE]
    /\ torn' = torn \cup {job[h].key}
    /\ UNCHANGED <<log, approval, overdue, consent, ran, twice, granted,
                   consented, contested>>

-----------------------------------------------------------------------------
(* resolveApproval().                                                      *)

Resolving == {"approve", "deny", "expire"}

\* A mutant of Resolvable: a resolved approval may be resolved again.
ResolvableAgain(k) == approval[k] \notin {"none", "EXPIRED"}

Resolvable(k) == approval[k] = "PENDING"

Resolve(h, k, how) ==
    /\ job[h].pc = "idle"
    /\ Resolvable(k)
    /\ how = "expire" <=> k \in overdue
    /\ job' = [job EXCEPT ![h] = [Idle EXCEPT !.pc = how, !.key = k,
                                     !.action = log[k].action,
                                     !.agent = log[k].agent, !.logged = TRUE]]
    /\ Contest(k, Resolving)
    /\ UNCHANGED <<log, approval, overdue, consent, ran, twice, granted,
                   consented, torn>>

\* A mutant of Deny: the log entry is left as it is.
DenyOnly(h) ==
    /\ job[h].pc = "deny"
    /\ approval' = [approval EXCEPT ![job[h].key] = "DENIED"]
    /\ End(h)
    /\ UNCHANGED <<log, overdue, consent, history>>

(* One transaction; like the other two updates, with no condition on the   *)
(* approval's status.                                                      *)
Deny(h) ==
    /\ job[h].pc = "deny"
    /\ approval' = [approval EXCEPT ![job[h].key] = "DENIED"]
    /\ log' = [log EXCEPT ![job[h].key].status = "DENIED"]
    /\ End(h)
    /\ UNCHANGED <<overdue, consent, history>>

Approve(h) ==
    /\ job[h].pc = "approve"
    /\ approval' = [approval EXCEPT ![job[h].key] = "APPROVED"]
    /\ granted' = granted \cup {job[h].key}
    /\ Goto(h, "run")
    /\ UNCHANGED <<log, overdue, consent, ran, twice, consented, contested, torn>>

Expire(h) ==
    /\ job[h].pc = "expire"
    /\ approval' = [approval EXCEPT ![job[h].key] = "EXPIRED"]
    /\ End(h)
    /\ UNCHANGED <<log, overdue, consent, history>>

Abort(h) ==
    /\ job[h].pc # "idle"
    /\ End(h)
    /\ torn' = IF job[h].pc \in {"ask", "run", "note"} THEN torn \cup {job[h].key}
               ELSE torn
    /\ UNCHANGED <<log, approval, overdue, consent, ran, twice, granted,
                   consented, contested>>

-----------------------------------------------------------------------------
\* 48 hours after it was asked for.
Lapse(k) ==
    /\ approval[k] # "none" /\ k \notin overdue
    /\ overdue' = overdue \cup {k}
    /\ UNCHANGED <<log, approval, consent, job, history>>

(* The consent screen; to grant again replaces the scopes.  Whether the    *)
(* client is active is not modelled: an inactive one is refused like an    *)
(* unknown action.                                                         *)
Grant(g, scopes) ==
    /\ consent' = [consent EXCEPT ![g] = [scopes |-> scopes, active |-> TRUE]]
    /\ consented' = consented \cup ({g} \X scopes)
    /\ UNCHANGED <<log, approval, overdue, job, ran, twice, granted, contested,
                   torn>>

Revoke(g) ==
    /\ consent[g].active
    /\ consent' = [consent EXCEPT ![g].active = FALSE]
    /\ UNCHANGED <<log, approval, overdue, job, history>>

HandlerStep(h) ==
    \/ \E k \in Keys, a \in Actions, g \in Agents \cup {None} : Submit(h, k, a, g)
    \/ Authorize(h) \/ Refuse(h) \/ WritePending(h) \/ AskApproval(h)
    \/ Run(h) \/ RunThrows(h) \/ Note(h) \/ NoteThrows(h)
    \/ \E k \in Keys, how \in Resolving : Resolve(h, k, how)
    \/ Deny(h) \/ Approve(h) \/ Expire(h) \/ Abort(h)

Next ==
    \/ \E h \in Handlers : HandlerStep(h)
    \/ \E k \in Keys : Lapse(k)
    \/ \E g \in Agents : Revoke(g) \/ \E scopes \in SUBSET ForAgents : Grant(g, scopes)

Spec == Init /\ [][Next]_vars

-----------------------------------------------------------------------------
(* Properties.                                                             *)

(* Whatever overlaps or stops, nothing above low risk is done unless a     *)
(* human approved the very entry that asked for it, and nothing is done    *)
(* for an agent that the user never gave consent for that action (origin   *)
(* "never used to skip a check").                                          *)
RunsAreAuthorised ==
    \A w \in ran :
        /\ w.action \notin LowRisk =>
              /\ w.key \in granted
              /\ log[w.key].action = w.action /\ log[w.key].agent = w.agent
        /\ w.agent # None => <<w.agent, w.action>> \in consented

(* A key does its work once - unless two submissions, or two resolutions,  *)
(* were past their check at once, or a handler stopped between the work    *)
(* and its log entry.  Under the same proviso, with no call on the key in  *)
(* progress, its log entry, its approval and what was done agree.          *)
WorkIsDoneOnceAndLogged ==
    /\ twice \subseteq contested \cup torn
    /\ \A k \in Keys \ (contested \cup torn) :
          (\A h \in Handlers : job[h].key # k) =>
            /\ log[k].status = "EXECUTED" <=> \E w \in ran : w.key = k
            /\ log[k].status = "DENIED" <=> approval[k] = "DENIED"
            /\ log[k].status = "PENDING_APPROVAL"
                  <=> approval[k] \in {"PENDING", "EXPIRED"}

\* The consent of g is gone, no request of it is past its check, no approval
\* pending.
Out(g) ==
    /\ ~consent[g].active
    /\ \A h \in Handlers : job[h].agent = g => job[h].pc = "check"
    /\ \A k \in Keys : log[k].agent = g => approval[k] # "PENDING"

(* What was executed, rejected or denied stays so, and an agent that is    *)
(* out stays out and runs nothing until consent is given again ("revoking  *)
(* here takes effect on the next action the agent attempts").              *)
ActionsAreFinal ==
    [][/\ \A k \in Keys \ contested :
             log[k].status \in {"EXECUTED", "REJECTED", "DENIED"}
                => log'[k] = log[k]
       /\ \A g \in Agents : Out(g) /\ ~consent'[g].active =>
             /\ Out(g)'
             /\ \A w \in ran' : w.agent = g => w \in ran]_vars

(* What submit() says: "a repeated key returns the original outcome rather *)
(* than re-running anything".                                              *)
RepeatedKeyRunsNothing == twice = {}
=============================================================================
