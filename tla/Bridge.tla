------------------------------- MODULE Bridge -------------------------------
(***************************************************************************)
(* Bridge requests of one user in one direction.  A request reads the      *)
(* policy, sums the user's eligible requests of the last day, compares the *)
(* reserve it has read, and is then stored as ELIGIBLE or INELIGIBLE.      *)
(* Nothing executes a request and nothing is reserved; the quoted rate is  *)
(* left out.                                                               *)
(***************************************************************************)
EXTENDS Naturals, FiniteSetsExt

CONSTANTS
    Requests,   \* rows of the BridgeRequest table (a bound)
    Amounts,    \* amounts a user asks for
    DailyCap, Least, Reserve,       \* fields of the ConversionPolicy
    Rates,      \* rates the policy has over time
    Handlers    \* calls in progress at once (a bound)

\* What an instance of this module assumes of its constants.
AmountsArePositive == Amounts \subseteq Nat \ {0} /\ Rates \subseteq Nat \ {0}
PolicyIsSound == DailyCap \in Nat /\ Least \in Nat /\ Reserve \in Nat
BoundsAreFinite ==
    /\ IsFiniteSet(Requests) /\ IsFiniteSet(Amounts) /\ IsFiniteSet(Handlers)
    /\ Amounts # {} /\ Handlers # {}

VARIABLES
    policy,     \* the ConversionPolicy row: enabled and rate
    request,    \* the BridgeRequest table
    old,        \* requests made more than a day ago
    job         \* job[h]: what call h is doing and what it has read

vars == <<policy, request, old, job>>

Job == [pc : {"idle", "policy", "sum", "reserve", "store"},
        amount : Amounts \cup {0}, rate : Rates \cup {0}, ok : BOOLEAN]

Idle == [pc |-> "idle", amount |-> 0, rate |-> 0, ok |-> FALSE]

NoRequest == [status |-> "none", amount |-> 0]

TypeOK ==
    /\ policy \in [enabled : BOOLEAN, rate : Rates]
    /\ request \in [Requests -> [status : {"none", "ELIGIBLE", "INELIGIBLE"},
                                 amount : Amounts \cup {0}]]
    /\ old \subseteq Requests
    /\ job \in [Handlers -> Job]

Init ==
    /\ policy \in [enabled : BOOLEAN, rate : Rates]
    /\ request = [r \in Requests |-> NoRequest]
    /\ old = {}
    /\ job = [h \in Handlers |-> Idle]

\* create(), or a check alone.
Ask(h, a) ==
    /\ job[h].pc = "idle"
    /\ job' = [job EXCEPT ![h] = [Idle EXCEPT !.pc = "policy", !.amount = a]]
    /\ UNCHANGED <<policy, request, old>>

Decide(h, ok) ==
    job' = [job EXCEPT ![h].pc = "store", ![h].ok = ok]

ReadPolicy(h) ==
    /\ job[h].pc = "policy"
    /\ IF policy.enabled /\ job[h].amount >= Least
       THEN job' = [job EXCEPT ![h].pc = "sum", ![h].rate = policy.rate]
       ELSE Decide(h, FALSE)
    /\ UNCHANGED <<policy, request, old>>

Recent == {r \in Requests : request[r].status = "ELIGIBLE"} \ old

UsedToday == SumFunctionOnSet([r \in Requests |-> request[r].amount], Recent)

\* A mutant of WithinCap: the amount asked for is left out.
WithinCapSoFar(a) == UsedToday <= DailyCap

WithinCap(a) == UsedToday + a <= DailyCap

SumToday(h) ==
    /\ job[h].pc = "sum"
    /\ IF WithinCap(job[h].amount)
       THEN job' = [job EXCEPT ![h].pc = "reserve"]
       ELSE Decide(h, FALSE)
    /\ UNCHANGED <<policy, request, old>>

\* amount / rate against the reserve, as it was read with the policy.
CheckReserve(h) ==
    /\ job[h].pc = "reserve"
    /\ Decide(h, job[h].amount <= Reserve * job[h].rate)
    /\ UNCHANGED <<policy, request, old>>

Store(h) ==
    /\ job[h].pc = "store"
    /\ \E r \in Requests :
          /\ request[r].status = "none"
          /\ request' = [request EXCEPT ![r] =
                [status |-> IF job[h].ok THEN "ELIGIBLE" ELSE "INELIGIBLE",
                 amount |-> job[h].amount]]
    /\ job' = [job EXCEPT ![h] = Idle]
    /\ UNCHANGED <<policy, old>>

(* The call was only a check of eligibility, a statement throws, or the    *)
(* process restarts: nothing is stored.                                    *)
Leave(h) ==
    /\ job[h].pc # "idle"
    /\ job' = [job EXCEPT ![h] = Idle]
    /\ UNCHANGED <<policy, request, old>>

Age(r) ==
    /\ request[r].status # "none" /\ r \notin old
    /\ old' = old \cup {r}
    /\ UNCHANGED <<policy, request, job>>

\* An operator edits the policy in the database.
EditPolicy ==
    /\ policy' \in [enabled : BOOLEAN, rate : Rates]
    /\ UNCHANGED <<request, old, job>>

Next ==
    \/ EditPolicy
    \/ \E r \in Requests : Age(r)
    \/ \E h \in Handlers : \/ \E a \in Amounts : Ask(h, a)
                           \/ ReadPolicy(h) \/ SumToday(h) \/ CheckReserve(h)
                           \/ Store(h) \/ Leave(h)

Spec == Init /\ [][Next]_vars

-----------------------------------------------------------------------------
(* Properties.                                                             *)

Passed == {h \in Handlers : \/ job[h].pc = "reserve"
                            \/ job[h].pc = "store" /\ job[h].ok}

(* What a user may bridge in a day is summed and then used: requests made  *)
(* at once exceed the limit, each by no more than the largest amount, and  *)
(* one after the other they do not.                                        *)
LimitHoldsButForTheRace ==
    UsedToday + SumFunctionOnSet([h \in Handlers |-> job[h].amount], Passed)
        <= DailyCap + (Cardinality(Handlers) - 1) * Max(Amounts)

-----------------------------------------------------------------------------
(* The invariant needs no more: what passed can only be stored or dropped. *)

Inv == TypeOK /\ LimitHoldsButForTheRace
=============================================================================
