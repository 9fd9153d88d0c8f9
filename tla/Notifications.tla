---------------------------- MODULE Notifications ---------------------------
(***************************************************************************)
(* NotificationService.notify(), as the backup alert calls it: one alert   *)
(* is notified to every administrator at once, each under an id of its     *)
(* own, and the cron job may report the same alert again.  A row is        *)
(* created first, and an e-mail is sent after that; whatever becomes of    *)
(* the e-mail, the row is there.                                           *)
(***************************************************************************)
EXTENDS Naturals, FiniteSets

CONSTANTS
    Alerts,     \* what is reported: stamps of failed backups
    Admins,     \* users who are notified
    Mailed,     \* alerts whose channel is EMAIL; the others are IN_APP
    Handlers,   \* calls of notify in progress at once (a bound)
    None        \* null

\* What is assumed of the constants.
MailedAreAlerts == Mailed \subseteq Alerts /\ None \notin Alerts \cup Admins

VARIABLES
    row,        \* the Notification table, by sourceEventId: "none", or
                \* whether the administrator has read it
    job,        \* job[h]: what handler h is doing
    mailed,     \* how often an e-mail was handed to the mail service
    cut         \* history: ids whose call stopped between row and e-mail

vars == <<row, job, mailed, cut>>

Ids == Alerts \X Admins

Job == [pc : {"idle", "create", "deliver"},
        alert : Alerts \cup {None}, admin : Admins \cup {None}]
Idle == [pc |-> "idle", alert |-> None, admin |-> None]

TypeOK ==
    /\ row \in [Ids -> {"none", "unread", "read"}]
    /\ job \in [Handlers -> Job]
    /\ mailed \in [Ids -> 0..2]
    /\ cut \subseteq Ids

Init ==
    /\ row = [i \in Ids |-> "none"]
    /\ job = [h \in Handlers |-> Idle]
    /\ mailed = [i \in Ids |-> 0]
    /\ cut = {}

Of(h) == <<job[h].alert, job[h].admin>>

\* notifyAdmins(): the calls for all administrators start together.
Alert(a) ==
    /\ \E f \in [Admins -> Handlers] :
          /\ \A x, y \in Admins : f[x] = f[y] => x = y
          /\ \A x \in Admins : job[f[x]].pc = "idle"
          /\ job' = [h \in Handlers |->
                        IF \E x \in Admins : f[x] = h
                        THEN [pc |-> "create", alert |-> a,
                              admin |-> CHOOSE x \in Admins : f[x] = h]
                        ELSE job[h]]
    /\ UNCHANGED <<row, mailed, cut>>

\* A mutant of Known: the row is not looked for by its sourceEventId.
KnownIfRead(i) == row[i] = "read"

\* P2002: a row with this sourceEventId is there, and is the answer.
Known(i) == row[i] # "none"

Create(h) ==
    /\ job[h].pc = "create"
    /\ IF Known(Of(h))
       THEN job' = [job EXCEPT ![h] = Idle] /\ UNCHANGED row
       ELSE /\ row' = [row EXCEPT ![Of(h)] = "unread"]
            /\ job' = [job EXCEPT ![h].pc = "deliver"]
    /\ UNCHANGED <<mailed, cut>>

\* deliver(): the mail service reports no failure.
Deliver(h) ==
    /\ job[h].pc = "deliver"
    /\ mailed' = IF job[h].alert \in Mailed /\ mailed[Of(h)] < 2
                 THEN [mailed EXCEPT ![Of(h)] = @ + 1] ELSE mailed
    /\ job' = [job EXCEPT ![h] = Idle]
    /\ UNCHANGED <<row, cut>>

\* The administrator's row is not found, a statement throws, or the process
\* stops.
Stop(h) ==
    /\ job[h].pc # "idle"
    /\ cut' = IF job[h].pc = "deliver" THEN cut \cup {Of(h)} ELSE cut
    /\ job' = [job EXCEPT ![h] = Idle]
    /\ UNCHANGED <<row, mailed>>

\* markRead() and markAllRead(), of the administrator's own.
MarkRead(i) ==
    /\ row[i] = "unread"
    /\ row' = [row EXCEPT ![i] = "read"]
    /\ UNCHANGED <<job, mailed, cut>>

MarkAllRead(u) ==
    /\ \E a \in Alerts : row[<<a, u>>] = "unread"
    /\ row' = [i \in Ids |-> IF i[2] = u /\ row[i] = "unread" THEN "read" ELSE row[i]]
    /\ UNCHANGED <<job, mailed, cut>>

Next ==
    \/ \E a \in Alerts : Alert(a)
    \/ \E h \in Handlers : Create(h) \/ Deliver(h) \/ Stop(h)
    \/ \E i \in Ids : MarkRead(i)
    \/ \E u \in Admins : MarkAllRead(u)

Spec == Init /\ [][Next]_vars

-----------------------------------------------------------------------------
(* Properties.                                                             *)

(* However often an alert is reported, no administrator is mailed twice,   *)
(* and each who has the row is mailed, unless the call that created it was *)
(* cut before the e-mail: no later report sends that one.                  *)
NotifiedOnceUnlessCut ==
    \A i \in Ids :
        /\ mailed[i] <= 1
        /\ i[1] \in Mailed /\ row[i] # "none" =>
              \/ mailed[i] = 1
              \/ i \in cut
              \/ \E h \in Handlers : job[h].pc = "deliver" /\ Of(h) = i

-----------------------------------------------------------------------------
(* The invariant.                                                          *)

(* One call at most is between the row and the e-mail of an id: the one    *)
(* that created the row, which has not been mailed yet.                    *)
Delivering ==
    /\ \A i \in Ids : row[i] = "none" => mailed[i] = 0
    /\ \A h \in Handlers :
          /\ job[h].pc # "idle" => job[h].alert \in Alerts /\ job[h].admin \in Admins
          /\ job[h].pc = "deliver" =>
                /\ row[Of(h)] # "none" /\ mailed[Of(h)] = 0
                /\ \A k \in Handlers :
                      job[k].pc = "deliver" /\ Of(k) = Of(h) => k = h

Inv == TypeOK /\ Delivering /\ NotifiedOnceUnlessCut
=============================================================================
