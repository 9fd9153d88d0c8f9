----------------------------- MODULE LoginTicket -----------------------------
(***************************************************************************)
(* What a login request promises, without the server and the browser that  *)
(* bring it about: a one-time ticket.  It may be approved by one user and  *)
(* then redeemed once for one session of that user; it may be closed       *)
(* (denied, expired) as long as it has not been redeemed, and a closed or  *)
(* redeemed ticket stays that way.                                         *)
(***************************************************************************)
EXTENDS Naturals

CONSTANTS Tickets, Users, None

VARIABLES
    ticket,     \* ticket[t]: where the ticket is in its life
    holder,     \* holder[t]: who approved it
    sessions,   \* sessions[t]: how many sessions were issued for it
    signedIn    \* signedIn[t]: whose session that was

vars == <<ticket, holder, sessions, signedIn>>

Init ==
    /\ ticket = [t \in Tickets |-> "open"]
    /\ holder = [t \in Tickets |-> None]
    /\ sessions = [t \in Tickets |-> 0]
    /\ signedIn = [t \in Tickets |-> None]

Approve(t, u) ==
    /\ ticket[t] = "open"
    /\ ticket' = [ticket EXCEPT ![t] = "approved"]
    /\ holder' = [holder EXCEPT ![t] = u]
    /\ UNCHANGED <<sessions, signedIn>>

Close(t) ==
    /\ ticket[t] \in {"open", "approved"}
    /\ ticket' = [ticket EXCEPT ![t] = "closed"]
    /\ UNCHANGED <<holder, sessions, signedIn>>

Redeem(t) ==
    /\ ticket[t] = "approved"
    /\ ticket' = [ticket EXCEPT ![t] = "redeemed"]
    /\ UNCHANGED <<holder, sessions, signedIn>>

IssueSession(t) ==
    /\ ticket[t] = "redeemed" /\ sessions[t] = 0
    /\ sessions' = [sessions EXCEPT ![t] = 1]
    /\ signedIn' = [signedIn EXCEPT ![t] = holder[t]]
    /\ UNCHANGED <<ticket, holder>>

Next ==
    \E t \in Tickets :
        \/ \E u \in Users : Approve(t, u)
        \/ Close(t) \/ Redeem(t) \/ IssueSession(t)

Spec == Init /\ [][Next]_vars
=============================================================================
