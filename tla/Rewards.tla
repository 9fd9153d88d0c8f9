------------------------------ MODULE Rewards ------------------------------
(***************************************************************************)
(* The NDYBITS reward engine.  An application reports an event; the engine *)
(* looks the event up, reads the rule, counts what the user was credited   *)
(* for in the last day, credits the ledger and logs the event: five        *)
(* statements, none of which locks anything.  The event's id is unique in  *)
(* the log, and in the ledger.                                             *)
(***************************************************************************)
EXTENDS Naturals, FiniteSets

CONSTANTS
    Events,     \* ids of events of one user under one rule
    Cap,        \* the rule's maxPerUserPerDay
    Handlers,   \* reports in progress at once (a bound)
    None        \* null

\* What is assumed of the constants.
NoneIsNoEvent == None \notin Events
CapIsPositive == Cap \in Nat \ {0}
HandlersAreFinite == IsFiniteSet(Handlers)

VARIABLES
    enabled,    \* RewardRule.enabled
    log,        \* the NdyEconomyEventLog table, by sourceEventId
    old,        \* logged events that are more than a day old
    ledger,     \* the NdybitsLedgerEntry table: events credited
    job,        \* job[h]: what handler h is doing
    shared,     \* history: events two reports of which were in progress at once
    torn        \* history: events a report of which stopped between credit and
                \* log

history == <<shared, torn>>
vars == <<enabled, log, old, ledger, job, history>>

Job == [pc : {"idle", "rule", "count", "credit", "log", "deny"},
        event : Events \cup {None}]

Idle == [pc |-> "idle", event |-> None]

TypeOK ==
    /\ enabled \in BOOLEAN
    /\ log \in [Events -> {"none", "credited", "denied"}]
    /\ old \subseteq Events
    /\ ledger \subseteq Events
    /\ job \in [Handlers -> Job]
    /\ shared \subseteq Events /\ torn \subseteq Events

Init ==
    /\ enabled \in BOOLEAN
    /\ log = [e \in Events |-> "none"]
    /\ old = {} /\ ledger = {}
    /\ job = [h \in Handlers |-> Idle]
    /\ shared = {} /\ torn = {}

Goto(h, pc) == job' = [job EXCEPT ![h].pc = pc]

End(h) == job' = [job EXCEPT ![h] = Idle]

(* A logged event is answered already_processed and changes nothing.  The  *)
(* client guard's checks come before.                                      *)
Report(h, e) ==
    /\ job[h].pc = "idle"
    /\ log[e] = "none"
    /\ job' = [job EXCEPT ![h] = [pc |-> "rule", event |-> e]]
    /\ shared' = IF \E k \in Handlers : job[k].event = e THEN shared \cup {e}
                 ELSE shared
    /\ UNCHANGED <<enabled, log, old, ledger, torn>>

ReadRule(h) ==
    /\ job[h].pc = "rule"
    /\ Goto(h, IF enabled THEN "count" ELSE "deny")
    /\ UNCHANGED <<enabled, log, old, ledger, history>>

Counted == {e \in Events : log[e] = "credited"} \ old

\* A mutant of UnderCap: the cap itself is let through.
UpToCap == Cardinality(Counted) <= Cap

UnderCap == Cardinality(Counted) < Cap

Count(h) ==
    /\ job[h].pc = "count"
    /\ Goto(h, IF UnderCap THEN "credit" ELSE "deny")
    /\ UNCHANGED <<enabled, log, old, ledger, history>>

\* A mutant of Credit: the log is left to say what the ledger lacks.
CreditNothing(h) ==
    /\ job[h].pc = "credit"
    /\ Goto(h, "log")
    /\ UNCHANGED <<enabled, log, old, ledger, history>>

\* creditNdybits(): an event already in the ledger returns its entry.
Credit(h) ==
    /\ job[h].pc = "credit"
    /\ ledger' = ledger \cup {job[h].event}
    /\ Goto(h, "log")
    /\ UNCHANGED <<enabled, log, old, history>>

\* logEvent(): an event another report has logged is left alone.
Logged(e, outcome) == IF log[e] = "none" THEN [log EXCEPT ![e] = outcome] ELSE log

LogCredit(h) ==
    /\ job[h].pc = "log"
    /\ log' = Logged(job[h].event, "credited")
    /\ End(h)
    /\ UNCHANGED <<enabled, old, ledger, history>>

LogDenial(h) ==
    /\ job[h].pc = "deny"
    /\ log' = Logged(job[h].event, "denied")
    /\ End(h)
    /\ UNCHANGED <<enabled, old, ledger, history>>

\* A statement throws, or the process restarts.
Stop(h) ==
    /\ job[h].pc # "idle"
    /\ torn' = IF job[h].pc = "log" THEN torn \cup {job[h].event} ELSE torn
    /\ End(h)
    /\ UNCHANGED <<enabled, log, old, ledger, shared>>

\* A day passes over a logged event.
Age(e) ==
    /\ log[e] # "none" /\ e \notin old
    /\ old' = old \cup {e}
    /\ UNCHANGED <<enabled, log, ledger, job, history>>

\* Rules are edited in the database.
SwitchRule ==
    /\ enabled' = ~enabled
    /\ UNCHANGED <<log, old, ledger, job, history>>

Next ==
    \/ SwitchRule
    \/ \E e \in Events : Age(e) \/ \E h \in Handlers : Report(h, e)
    \/ \E h \in Handlers : \/ ReadRule(h) \/ Count(h) \/ Credit(h)
                           \/ LogCredit(h) \/ LogDenial(h) \/ Stop(h)

Spec == Init /\ [][Next]_vars

-----------------------------------------------------------------------------
(* Properties.                                                             *)

(* The daily cap is counted and then used: concurrent reports exceed it,   *)
(* by less than there are reports in progress at once.                     *)
CapHoldsButForTheRace ==
    Cardinality(Counted) + Cardinality({h \in Handlers : job[h].pc \in {"credit", "log"}})
        <= Cap + Cardinality(Handlers) - 1

(* The log and the ledger agree: what is logged as credited is in the      *)
(* ledger, and what is in the ledger is logged as credited once its report *)
(* is over, unless that report stopped before it logged or another report  *)
(* of the event was in progress with it.                                   *)
LogAgreesWithLedger ==
    \A e \in Events :
        /\ log[e] = "credited" => e \in ledger
        /\ e \in ledger /\ e \notin torn \cup shared =>
              \/ log[e] = "credited"
              \/ \E h \in Handlers : job[h] = [pc |-> "log", event |-> e]

-----------------------------------------------------------------------------
(* The invariant.                                                          *)

(* A report credits before it logs.  As long as no two reports of an event *)
(* were in progress at once, the one that is has not been logged.          *)
Reporting ==
    /\ \A h \in Handlers :
          /\ job[h].pc = "idle" => job[h] = Idle
          /\ job[h].pc # "idle" => job[h].event \in Events
          /\ job[h].pc = "log" => job[h].event \in ledger
    /\ \A e \in Events \ shared : \A h \in Handlers :
          job[h].event = e =>
              /\ log[e] = "none"
              /\ \A k \in Handlers : job[k].event = e => k = h

Inv ==
    /\ TypeOK /\ Reporting
    /\ IsFiniteSet(Counted) /\ CapHoldsButForTheRace /\ LogAgreesWithLedger
=============================================================================
