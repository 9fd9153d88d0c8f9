----------------------------- MODULE Purchases -----------------------------
(***************************************************************************)
(* CRYNDY purchases.  A webhook of the presale site reports the stage a    *)
(* transaction has reached; the handler inserts the purchase and walks it  *)
(* forward, one statement per stage.  The transaction's id is unique: a    *)
(* repeated report, of whatever stage, finds the row and changes nothing.  *)
(***************************************************************************)
EXTENDS Naturals

CONSTANTS
    Txs,        \* transactions of the payment provider
    Handlers,   \* webhook deliveries in progress at once (a bound)
    None        \* null

\* What an instance of this module assumes of its constants.
NoneIsNoTx == None \notin Txs

VARIABLES
    status,     \* the CryndyPurchase table, by providerTransactionId
    job,        \* job[h]: what handler h is doing
    claimed,    \* history: the stage reported by the webhook that inserted it
    torn        \* history: purchases whose inserting webhook stopped early

vars == <<status, job, claimed, torn>>

(* The stages the handler tells apart: any other reported stage leaves the *)
(* purchase as it was inserted.                                            *)
Stages == {"PAYMENT_CONFIRMED", "VERIFIED", "ALLOCATED"}

Rank(s) == CASE s = "none" -> 0 [] s = "PAYMENT_CONFIRMED" -> 1
             [] s = "VERIFIED" -> 2 [] s = "ALLOCATED" -> 3

Job == [pc : {"idle", "insert", "verify", "allocate"},
        tx : Txs \cup {None}, want : Stages \cup {"none"}]

Idle == [pc |-> "idle", tx |-> None, want |-> "none"]

TypeOK ==
    /\ status \in [Txs -> Stages \cup {"none"}]
    /\ job \in [Handlers -> Job]
    /\ claimed \in [Txs -> Stages \cup {"none"}]
    /\ torn \subseteq Txs

Init ==
    /\ status = [t \in Txs |-> "none"]
    /\ job = [h \in Handlers |-> Idle]
    /\ claimed = [t \in Txs |-> "none"]
    /\ torn = {}

Goto(h, pc) == job' = [job EXCEPT ![h] = IF pc = "idle" THEN Idle
                                         ELSE [@ EXCEPT !.pc = pc]]

\* A delivery passes the signature guard and names a known NDY ID.
Receive(h, t, want) ==
    /\ job[h].pc = "idle"
    /\ job' = [job EXCEPT ![h] = [pc |-> "insert", tx |-> t, want |-> want]]
    /\ UNCHANGED <<status, claimed, torn>>

AfterInsert(want) == IF want = "PAYMENT_CONFIRMED" THEN "idle" ELSE "verify"

\* A mutant of Insert: a repeated report is walked forward as well.
InsertOrWalk(h) ==
    LET j == job[h]
    IN /\ j.pc = "insert"
       /\ IF status[j.tx] = "none"
          THEN /\ status' = [status EXCEPT ![j.tx] = "PAYMENT_CONFIRMED"]
               /\ claimed' = [claimed EXCEPT ![j.tx] = j.want]
          ELSE UNCHANGED <<status, claimed>>
       /\ Goto(h, AfterInsert(j.want))
       /\ UNCHANGED torn

Insert(h) ==
    LET j == job[h]
    IN /\ j.pc = "insert"
       /\ IF status[j.tx] = "none"
          THEN /\ status' = [status EXCEPT ![j.tx] = "PAYMENT_CONFIRMED"]
               /\ claimed' = [claimed EXCEPT ![j.tx] = j.want]
               /\ Goto(h, AfterInsert(j.want))
          ELSE /\ Goto(h, "idle")
               /\ UNCHANGED <<status, claimed>>
       /\ UNCHANGED torn

\* Five references in a row were taken: a conflict, and nothing is stored.
NoReference(h) ==
    /\ job[h].pc = "insert"
    /\ Goto(h, "idle")
    /\ UNCHANGED <<status, claimed, torn>>

(* An update guarded by the row's status; 409 when the row is elsewhere.   *)
Advance(h, from, to, next) ==
    LET t == job[h].tx
    IN IF status[t] = from
       THEN status' = [status EXCEPT ![t] = to] /\ Goto(h, next)
       ELSE UNCHANGED status /\ Goto(h, "idle")

MarkVerified(h) ==
    /\ job[h].pc = "verify"
    /\ Advance(h, "PAYMENT_CONFIRMED", "VERIFIED",
               IF job[h].want = "ALLOCATED" THEN "allocate" ELSE "idle")
    /\ UNCHANGED <<claimed, torn>>

Allocate(h) ==
    /\ job[h].pc = "allocate"
    /\ Advance(h, "VERIFIED", "ALLOCATED", "idle")
    /\ UNCHANGED <<claimed, torn>>

\* A statement throws, or the process restarts.
Stop(h) ==
    /\ job[h].pc # "idle"
    /\ torn' = IF job[h].pc = "insert" THEN torn ELSE torn \cup {job[h].tx}
    /\ Goto(h, "idle")
    /\ UNCHANGED <<status, claimed>>

Next ==
    \E h \in Handlers :
        \/ \E t \in Txs, w \in Stages : Receive(h, t, w)
        \/ Insert(h) \/ NoReference(h) \/ MarkVerified(h) \/ Allocate(h) \/ Stop(h)

Spec == Init /\ [][Next]_vars

-----------------------------------------------------------------------------
(* Properties.                                                             *)

Walking(t) == \E h \in Handlers : job[h].tx = t /\ job[h].pc # "insert"

(* A purchase stands where the webhook that inserted it said: never beyond *)
(* it, however many other reports of the transaction overlap or follow,    *)
(* and short of it only while that webhook is at work or after it stopped. *)
StandsWhereReported ==
    \A t \in Txs :
        /\ Rank(status[t]) <= Rank(claimed[t])
        /\ ~Walking(t) /\ t \notin torn => status[t] = claimed[t]

-----------------------------------------------------------------------------
(* The invariant.                                                          *)

\* One handler at most walks a purchase forward: the one that inserted it,
\* towards what it reported.
Walks ==
    /\ \A t \in Txs : status[t] = "none" <=> claimed[t] = "none"
    /\ \A h \in Handlers :
          LET j == job[h]
          IN /\ j.pc = "idle" => j = Idle
             /\ j.pc # "idle" => j.tx \in Txs /\ j.want \in Stages
             /\ j.pc = "verify" => /\ status[j.tx] = "PAYMENT_CONFIRMED"
                                   /\ j.want \in {"VERIFIED", "ALLOCATED"}
             /\ j.pc = "allocate" => status[j.tx] = "VERIFIED" /\ j.want = "ALLOCATED"
             /\ j.pc \in {"verify", "allocate"} =>
                   /\ claimed[j.tx] = j.want
                   /\ \A k \in Handlers :
                         job[k].pc \in {"verify", "allocate"} /\ job[k].tx = j.tx => k = h

Inv == TypeOK /\ Walks /\ StandsWhereReported
=============================================================================
