------------------------------ MODULE EventLog ------------------------------
(***************************************************************************)
(* The ecosystem event log: applications report events, each row is        *)
(* stamped by the client library and committed some time later, and events *)
(* that were logged are then forwarded to the reward engine, best-effort.  *)
(* A consumer follows the log by pages, keeping the id of the last event   *)
(* it was given: rows are read in the order of their stamps, and of their  *)
(* random ids where the stamps are equal.                                  *)
(***************************************************************************)
EXTENDS Naturals, FiniteSets

CONSTANTS
    Events,     \* ids of rows: numbers, in the order of the uuids (a bound)
    Sources,    \* sourceEventIds the applications report
    Take,       \* rows in a page
    LastTime,   \* milliseconds that pass (a bound)
    Handlers,   \* reports in progress at once (a bound)
    None        \* null

\* What is assumed of the constants.
IdsAreOrdered == Events \subseteq Nat /\ Take \in Nat \ {0} /\ LastTime \in Nat
NoneIsNoEvent == None \notin Events \cup Sources

VARIABLES
    now,        \* the clock
    row,        \* the EcosystemEvent table: source, createdAt, and when the
                \* row became visible
    rewarded,   \* sources the reward engine was given
    job,        \* job[h]: what handler h is doing
    cursor,     \* the consumer: the last event it was given
    given,      \* the consumer: how often it was given each event
    cut         \* history: sources whose report stopped before the forward

vars == <<now, row, rewarded, job, cursor, given, cut>>

Times == 0..LastTime

Row == [source : Sources \cup {None}, at : Times, seen : Times]
NoRow == [source |-> None, at |-> 0, seen |-> 0]

Job == [pc : {"idle", "insert", "forward"},
        event : Events \cup {None}, source : Sources \cup {None}, at : Times]
Idle == [pc |-> "idle", event |-> None, source |-> None, at |-> 0]

TypeOK ==
    /\ now \in Times
    /\ row \in [Events -> Row]
    /\ rewarded \subseteq Sources
    /\ job \in [Handlers -> Job]
    /\ cursor \in Events \cup {None}
    /\ given \in [Events -> 0..2]
    /\ cut \subseteq Sources

Init ==
    /\ now = 0
    /\ row = [e \in Events |-> NoRow]
    /\ rewarded = {}
    /\ job = [h \in Handlers |-> Idle]
    /\ cursor = None
    /\ given = [e \in Events |-> 0]
    /\ cut = {}

Visible == {e \in Events : row[e].source # None}

Tick ==
    /\ now < LastTime
    /\ now' = now + 1
    /\ UNCHANGED <<row, rewarded, job, cursor, given, cut>>

-----------------------------------------------------------------------------
(* report(): an event type that is not registered changes nothing.         *)

\* The row is built, with its id and its stamp, and sent.
StartReport(h, s) ==
    /\ job[h].pc = "idle"
    /\ \E e \in Events \ Visible :
          /\ \A k \in Handlers : job[k].event # e
          /\ job' = [job EXCEPT ![h] =
                        [pc |-> "insert", event |-> e, source |-> s, at |-> now]]
    /\ UNCHANGED <<now, row, rewarded, cursor, given, cut>>

\* A mutant of Repeated: a source is looked for among what was rewarded.
RepeatedIfRewarded(s) == s \in rewarded

\* sourceEventId is unique: a repeated one is answered with its first row.
Repeated(s) == \E e \in Visible : row[e].source = s

Insert(h) ==
    /\ job[h].pc = "insert"
    /\ IF Repeated(job[h].source)
       THEN job' = [job EXCEPT ![h] = Idle] /\ UNCHANGED row
       ELSE /\ row' = [row EXCEPT ![job[h].event] =
                          [source |-> job[h].source, at |-> job[h].at, seen |-> now]]
            /\ job' = [job EXCEPT ![h].pc = "forward"]
    /\ UNCHANGED <<now, rewarded, cursor, given, cut>>

Forward(h) ==
    /\ job[h].pc = "forward"
    /\ rewarded' = rewarded \cup {job[h].source}
    /\ job' = [job EXCEPT ![h] = Idle]
    /\ UNCHANGED <<now, row, cursor, given, cut>>

\* The forward throws, which is logged and swallowed; or the process stops.
Stop(h) ==
    /\ job[h].pc # "idle"
    /\ cut' = IF job[h].pc = "forward" THEN cut \cup {job[h].source} ELSE cut
    /\ job' = [job EXCEPT ![h] = Idle]
    /\ UNCHANGED <<now, row, rewarded, cursor, given>>

-----------------------------------------------------------------------------
(* listSince(), polled by the consumer.                                    *)

\* A mutant of Before: rows are ordered by their ids alone.
BeforeById(e, f) == e < f

Before(e, f) ==
    \/ row[e].at < row[f].at
    \/ row[e].at = row[f].at /\ e < f

\* A mutant of After: the row at the cursor is not skipped.
AfterOrAt == {e \in Visible : cursor = None \/ e = cursor \/ Before(cursor, e)}

After == {e \in Visible : cursor = None \/ Before(cursor, e)}

Page == {e \in After : Cardinality({f \in After : Before(f, e)}) < Take}

(* A page that is not full comes without a nextCursor: the consumer keeps  *)
(* the last id it was given, the only way it has to go on from there.      *)
Poll ==
    /\ Page # {}
    /\ given' = [e \in Events |->
                    IF e \in Page /\ given[e] < 2 THEN given[e] + 1 ELSE given[e]]
    /\ cursor' = CHOOSE e \in Page : \A f \in Page \ {e} : Before(f, e)
    /\ UNCHANGED <<now, row, rewarded, job, cut>>

Next ==
    \/ Tick \/ Poll
    \/ \E h \in Handlers : \/ \E s \in Sources : StartReport(h, s)
                           \/ Insert(h) \/ Forward(h) \/ Stop(h)

Spec == Init /\ [][Next]_vars

-----------------------------------------------------------------------------
(* Properties.                                                             *)

\* Rows the cursor has gone past without their being given.
Skipped == {e \in Visible : cursor # None /\ Before(e, cursor) /\ given[e] = 0}

(* The consumer is given no event twice, and goes past an event only if    *)
(* that event was being inserted when one it was given became visible.     *)
GapsComeOfOverlap ==
    /\ \A e \in Events : given[e] <= 1
    /\ \A e \in Skipped :
          \E f \in Events :
             given[f] = 1 /\ row[e].at <= row[f].seen /\ row[f].seen <= row[e].seen

(* An event is logged once, whatever is retried, and reaches the reward    *)
(* engine once its report is over unless that report was cut between the   *)
(* two, after which no retry forwards it.                                  *)
LoggedOnceAndForwarded ==
    /\ \A e, f \in Visible : row[e].source = row[f].source => e = f
    /\ \A e \in Visible :
          \/ row[e].source \in rewarded \cup cut
          \/ \E h \in Handlers : job[h].pc = "forward" /\ job[h].event = e

-----------------------------------------------------------------------------
(* The invariant.                                                          *)

\* A row is built by one handler, inserted after its stamp and forwarded.
Reporting ==
    /\ \A h \in Handlers :
          /\ job[h].pc = "idle" => job[h] = Idle
          /\ job[h].pc = "insert" => /\ job[h].event \in Events \ Visible
                                     /\ job[h].source \in Sources
                                     /\ job[h].at <= now
          /\ job[h].pc = "forward" => /\ job[h].event \in Visible
                                      /\ row[job[h].event].source = job[h].source
    /\ \A h, k \in Handlers : job[h].event = job[k].event /\ job[h].pc # "idle" => h = k
    /\ \A e \in Visible : row[e].at <= row[e].seen /\ row[e].seen <= now

\* The consumer was given what is at the cursor, and nothing beyond it.
Consuming ==
    /\ cursor # None => given[cursor] = 1
    /\ \A e \in Events : given[e] # 0 =>
          /\ e \in Visible /\ cursor # None
          /\ e = cursor \/ Before(e, cursor)

Inv ==
    /\ TypeOK /\ Reporting /\ Consuming /\ IsFiniteSet(Visible)
    /\ GapsComeOfOverlap /\ LoggedOnceAndForwarded
=============================================================================
