----------------------------- MODULE Membership -----------------------------
(***************************************************************************)
(* Memberships.  Without Stripe, subscribe() cancels what is active and    *)
(* creates the new row; with Stripe it only opens a checkout, and the row  *)
(* follows from a webhook.  Stripe (external) delivers an event until it   *)
(* is answered, in any order and possibly twice; the controller records    *)
(* the event's id before it handles the event.                             *)
(***************************************************************************)
EXTENDS FiniteSets

CONSTANTS
    Users,
    Subs,       \* subscriptions of Stripe
    Rows,       \* rows of the Membership table (a bound)
    Handlers,   \* requests and deliveries in progress at once (a bound)
    None        \* null; as an owner: a checkout without our metadata

\* What an instance of this module assumes of its constants.
NoneIsNoValue == None \notin Users \cup Subs

VARIABLES
    configured, \* STRIPE_SECRET_KEY is set
    stripe,     \* stripe[s]: the subscription, as Stripe has it
    unanswered, \* events Stripe still delivers
    processed,  \* the ProcessedStripeEvent table
    row,        \* the Membership table
    job,        \* job[h]: what handler h is doing
    crossed,    \* history: users for whom two handlers were at once between
                \* cancelling what is active and creating the new row
    lost,       \* history: events recorded as processed, and then dropped by a
                \* restart
    early       \* history: subscriptions whose end was handled before their row
                \* existed

history == <<crossed, lost, early>>
vars == <<configured, stripe, unanswered, processed, row, job, history>>

Event == [kind : {"completed", "deleted"}, sub : Subs]

Row == [status : {"none", "ACTIVE", "CANCELLED"},
        owner : Users \cup {None}, sub : Subs \cup {None}]

Job == [pc : {"idle", "sweep", "create", "drop"},
        user : Users \cup {None}, sub : Subs \cup {None}]

Idle == [pc |-> "idle", user |-> None, sub |-> None]

TypeOK ==
    /\ configured \in BOOLEAN
    /\ stripe \in [Subs -> [state : {"none", "live", "ended"},
                            owner : Users \cup {None}]]
    /\ unanswered \subseteq Event /\ processed \subseteq Event
    /\ row \in [Rows -> Row]
    /\ job \in [Handlers -> Job]
    /\ crossed \subseteq Users /\ lost \subseteq Event /\ early \subseteq Subs

Init ==
    /\ configured \in BOOLEAN
    /\ stripe = [s \in Subs |-> [state |-> "none", owner |-> None]]
    /\ unanswered = {} /\ processed = {}
    /\ row = [r \in Rows |-> [status |-> "none", owner |-> None, sub |-> None]]
    /\ job = [h \in Handlers |-> Idle]
    /\ crossed = {} /\ lost = {} /\ early = {}

Completed(s) == [kind |-> "completed", sub |-> s]
Deleted(s) == [kind |-> "deleted", sub |-> s]

-----------------------------------------------------------------------------
(* Stripe, external.                                                       *)

(* The user pays in the checkout session subscribe() opened, or a checkout *)
(* of the same account that is not ours completes.                         *)
CheckoutPaid(s, u) ==
    /\ configured
    /\ stripe[s].state = "none"
    /\ stripe' = [stripe EXCEPT ![s] = [state |-> "live", owner |-> u]]
    /\ unanswered' = unanswered \cup {Completed(s)}
    /\ UNCHANGED <<configured, processed, row, job, history>>

SubscriptionEnds(s) ==
    /\ stripe[s].state = "live"
    /\ stripe' = [stripe EXCEPT ![s].state = "ended"]
    /\ unanswered' = unanswered \cup {Deleted(s)}
    /\ UNCHANGED <<configured, processed, row, job, history>>

-----------------------------------------------------------------------------
(* The service.                                                            *)

\* subscribe() without Stripe.
SubscribeInDev(h, u) ==
    /\ ~configured
    /\ job[h].pc = "idle"
    /\ job' = [job EXCEPT ![h] = [pc |-> "sweep", user |-> u, sub |-> None]]
    /\ UNCHANGED <<configured, stripe, unanswered, processed, row, history>>

\* A mutant of FirstDelivery: every delivery is taken for the first one.
FirstAlways(e) == TRUE

\* recordStripeEventOnce(): the insert succeeds.
FirstDelivery(e) == e \notin processed

Answer(e) == unanswered' = unanswered \ {e}

\* A mutant of Handling: a checkout without our metadata is handled too.
HandlingAnyone(e) ==
    [pc |-> IF e.kind = "deleted" THEN "drop" ELSE "sweep",
     user |-> stripe[e.sub].owner, sub |-> e.sub]

(* What the switch calls.  A completed checkout without our metadata is    *)
(* logged and done with.                                                   *)
Handling(e) ==
    IF e.kind = "deleted" THEN [pc |-> "drop", user |-> None, sub |-> e.sub]
    ELSE IF stripe[e.sub].owner = None THEN Idle
    ELSE [pc |-> "sweep", user |-> stripe[e.sub].owner, sub |-> e.sub]

Deliver(h, e) ==
    /\ job[h].pc = "idle"
    /\ IF FirstDelivery(e)
       THEN /\ processed' = processed \cup {e}
            /\ job' = [job EXCEPT ![h] = Handling(e)]
            /\ IF Handling(e) = Idle THEN Answer(e) ELSE UNCHANGED unanswered
       ELSE /\ Answer(e)
            /\ UNCHANGED <<processed, job>>
    /\ UNCHANGED <<configured, stripe, row, history>>

\* One updateMany cancels the rows of rs that are active.
CancelWhere(rs) ==
    row' = [r \in Rows |-> IF row[r].status = "ACTIVE" /\ r \in rs
                           THEN [row[r] EXCEPT !.status = "CANCELLED"]
                           ELSE row[r]]

Creating(u) == {h \in Handlers : job[h].pc = "create" /\ job[h].user = u}

\* A mutant of SweepActive: the other memberships are left as they are.
SweepNothing(h) ==
    /\ job[h].pc = "sweep"
    /\ job' = [job EXCEPT ![h].pc = "create"]
    /\ crossed' = IF Creating(job[h].user) # {} THEN crossed \cup {job[h].user}
                  ELSE crossed
    /\ UNCHANGED <<configured, stripe, unanswered, processed, row, lost, early>>

\* cancelActiveForUser().
SweepActive(h) ==
    /\ job[h].pc = "sweep"
    /\ CancelWhere({r \in Rows : row[r].owner = job[h].user})
    /\ job' = [job EXCEPT ![h].pc = "create"]
    /\ crossed' = IF Creating(job[h].user) # {} THEN crossed \cup {job[h].user}
                  ELSE crossed
    /\ UNCHANGED <<configured, stripe, unanswered, processed, lost, early>>

(* The answer is sent when the handler is through; it may be lost, and     *)
(* Stripe then delivers the event again.                                   *)
AnswerOrNot(e) == Answer(e) \/ UNCHANGED unanswered

CreateRow(h) ==
    LET j == job[h]
    IN /\ j.pc = "create"
       /\ \E r \in Rows :
             /\ row[r].status = "none"
             /\ row' = [row EXCEPT ![r] = [status |-> "ACTIVE",
                                           owner |-> j.user, sub |-> j.sub]]
       /\ job' = [job EXCEPT ![h] = Idle]
       /\ IF j.sub = None THEN UNCHANGED unanswered
          ELSE AnswerOrNot(Completed(j.sub))
       /\ UNCHANGED <<configured, stripe, processed, history>>

HasRow(s) == \E r \in Rows : row[r].status # "none" /\ row[r].sub = s

\* handleSubscriptionDeleted(): nothing to cancel is no error.
DropSubscription(h) ==
    LET s == job[h].sub
    IN /\ job[h].pc = "drop"
       /\ CancelWhere({r \in Rows : row[r].sub = s})
       /\ early' = IF HasRow(s) THEN early ELSE early \cup {s}
       /\ job' = [job EXCEPT ![h] = Idle]
       /\ AnswerOrNot(Deleted(s))
       /\ UNCHANGED <<configured, stripe, processed, crossed, lost>>

\* cancel(): the membership is cancelled here; Stripe is not told.
Cancel(u, r) ==
    /\ row[r].status = "ACTIVE" /\ row[r].owner = u
    /\ row' = [row EXCEPT ![r].status = "CANCELLED"]
    /\ UNCHANGED <<configured, stripe, unanswered, processed, job, history>>

(* The process restarts, or a statement throws: the event was recorded and *)
(* is not handled.                                                         *)
Stop(h) ==
    /\ job[h].pc # "idle"
    /\ job' = [job EXCEPT ![h] = Idle]
    /\ lost' = IF job[h].sub = None THEN lost
               ELSE lost \cup {IF job[h].pc = "drop" THEN Deleted(job[h].sub)
                               ELSE Completed(job[h].sub)}
    /\ UNCHANGED <<configured, stripe, unanswered, processed, row, crossed, early>>

Next ==
    \/ \E s \in Subs : SubscriptionEnds(s)
                       \/ \E u \in Users \cup {None} : CheckoutPaid(s, u)
    \/ \E u \in Users, r \in Rows : Cancel(u, r)
    \/ \E h \in Handlers : \/ \E u \in Users : SubscribeInDev(h, u)
                           \/ \E e \in unanswered : Deliver(h, e)
                           \/ SweepActive(h) \/ CreateRow(h)
                           \/ DropSubscription(h) \/ Stop(h)

Spec == Init /\ [][Next]_vars

-----------------------------------------------------------------------------
(* Properties.                                                             *)

ActiveOf(u) == {r \in Rows : row[r].status = "ACTIVE" /\ row[r].owner = u}

(* A user has two active memberships only if two purchases of theirs were  *)
(* once between cancelling the old membership and creating the new one.    *)
OneActiveUnlessCrossed ==
    \A u \in Users \ crossed :
        \A r, q \in ActiveOf(u) : r = q

RowsOf(s) == {r \in Rows : row[r].status # "none" /\ row[r].sub = s}

Settled(s) ==
    /\ \A h \in Handlers : job[h].sub # s
    /\ \A e \in {Completed(s), Deleted(s)} : e \in unanswered => e \in processed
    /\ \A e \in lost : e.sub # s
    /\ s \notin early

(* Once the events of a subscription were handled, none of them lost to a  *)
(* restart and the end not handled before the start, the subscription has  *)
(* one membership, which is over if the subscription is: however often the *)
(* events were delivered.                                                  *)
SettledMirrorsStripe ==
    \A s \in Subs :
        stripe[s].owner # None /\ Settled(s) =>
            /\ Cardinality(RowsOf(s)) = 1
            /\ stripe[s].state = "ended" =>
                  \A r \in RowsOf(s) : row[r].status = "CANCELLED"

-----------------------------------------------------------------------------
(* The invariant.                                                          *)

\* Handler h is handling event e.
Handles(h, e) ==
    /\ job[h].pc \in IF e.kind = "deleted" THEN {"drop"} ELSE {"sweep", "create"}
    /\ job[h].sub = e.sub

\* What a handler at work goes by.
Working ==
    \A h \in Handlers :
        /\ job[h].pc = "idle" => job[h] = Idle
        /\ job[h].pc = "drop" => job[h].sub \in Subs
        /\ job[h].pc \in {"sweep", "create"} => job[h].user \in Users

(* Who is about to create a row has cancelled what was active, and nobody  *)
(* else is about to create one for the same user, or the two crossed.      *)
Apart ==
    \A h \in Handlers :
        job[h].pc = "create" /\ job[h].user \notin crossed =>
            ActiveOf(job[h].user) = {} /\ Creating(job[h].user) = {h}

\* Stripe still delivers what happened to a subscription, or it is recorded.
Reported ==
    \A s \in Subs :
        /\ Completed(s) \in unanswered \cup processed <=> stripe[s].state # "none"
        /\ Deleted(s) \in unanswered \cup processed <=> stripe[s].state = "ended"
        /\ stripe[s].state = "none" => stripe[s].owner = None

\* An event is handled by one handler, once it is recorded and as long as it
\* is not lost.
HandledOnce ==
    /\ lost \subseteq processed
    /\ \A h \in Handlers, e \in Event :
          Handles(h, e) =>
              /\ e \in processed \ lost
              /\ e.kind = "completed" => stripe[e.sub].owner # None
              /\ \A k \in Handlers : Handles(k, e) => k = h

\* Recorded, not lost, and not in progress.
Done(e) == e \in processed \ lost /\ \A h \in Handlers : ~Handles(h, e)

\* The rows of a subscription tell which of its events are done with.
RowsTell ==
    \A s \in Subs :
        /\ \A r, q \in RowsOf(s) : r = q
        /\ RowsOf(s) # {} <=> Done(Completed(s)) /\ stripe[s].owner # None
        /\ Done(Deleted(s)) /\ s \notin early =>
              /\ RowsOf(s) # {}
              /\ \A r \in RowsOf(s) : row[r].status = "CANCELLED"

Inv == /\ TypeOK /\ Working /\ Apart /\ Reported /\ HandledOnce /\ RowsTell
       /\ OneActiveUnlessCrossed
=============================================================================
