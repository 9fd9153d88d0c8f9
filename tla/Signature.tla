------------------------------ MODULE Signature ------------------------------
(***************************************************************************)
(* Document signing: SignatureService.  A request has one slot per signer; *)
(* signing a slot creates a Signature row, marks the slot and recomputes   *)
(* the request's status; a signer may decline, the creator may revoke, a   *)
(* failed attestation may be retried.                                      *)
(*                                                                         *)
(* Nothing here runs in a transaction and no write has a condition: a      *)
(* handler acts on what it read, one database statement per step.  Abort   *)
(* is a query that throws or a restart of the process.                     *)
(***************************************************************************)
EXTENDS Naturals

CONSTANTS
    Users,       \* accounts
    Requests,    \* supply of SignatureRequest rows (a bound)
    Slots,       \* supply of SignatureRequestSigner rows (a bound)
    Signatures,  \* supply of Signature rows (a bound)
    Handlers,    \* calls that may be in progress at once (a bound)
    None         \* null

ASSUME NoneIsNoValue == None \notin Users \cup Requests \cup Slots \cup Signatures

VARIABLES
    status,       \* SignatureRequest.status ("none": not created yet)
    slot,         \* the SignatureRequestSigner table
    sig,          \* the Signature table
    lapsed,       \* requests whose deadline, and their slots', has passed
    job,          \* job[h]: what handler h is doing and what it has read
    contested,    \* history: requests two conflicting calls worked on at once
    interrupted,  \* history: requests a call on which was aborted
    retried       \* history: signatures two retries of which overlapped

vars == <<status, slot, sig, lapsed, job, contested, interrupted, retried>>
history == <<contested, interrupted, retried>>

Status == {"PENDING", "SIGNED", "DECLINED", "REVOKED", "EXPIRED"}

(* invitee: the account userId names or invitedEmail belongs to; user: the *)
(* userId column, null for an email invitation nobody has answered.        *)
Slot == [request  : Requests \cup {None},
         invitee  : Users \cup {None},
         user     : Users \cup {None},
         signed   : BOOLEAN,
         declined : BOOLEAN]

FreeSlot == [request |-> None, invitee |-> None, user |-> None,
             signed |-> FALSE, declined |-> FALSE]

(* A Signature has no column for its slot; slot is a history of it.        *)
Signature == [slot   : Slots \cup {None},
              signer : Users \cup {None},
              proof  : {"none", "VERIFIED", "FAILED"}]

FreeSignature == [slot |-> None, signer |-> None, proof |-> "none"]

Job == [pc    : {"idle", "expire", "create", "mark", "count", "flip",
                 "refuse", "close", "revoke", "attest"},
        actor : Users \cup {None},
        slot  : Slots \cup {None},
        req   : Requests \cup {None},
        sig   : Signatures \cup {None}]

Idle == [pc |-> "idle", actor |-> None, slot |-> None, req |-> None,
         sig |-> None]

TypeOK ==
    /\ status \in [Requests -> Status \cup {"none"}]
    /\ slot \in [Slots -> Slot]
    /\ sig \in [Signatures -> Signature]
    /\ lapsed \subseteq Requests
    /\ job \in [Handlers -> Job]
    /\ contested \subseteq Requests
    /\ interrupted \subseteq Requests
    /\ retried \subseteq Signatures

Init ==
    /\ status = [q \in Requests |-> "none"]
    /\ slot = [s \in Slots |-> FreeSlot]
    /\ sig = [g \in Signatures |-> FreeSignature]
    /\ lapsed = {}
    /\ job = [h \in Handlers |-> Idle]
    /\ contested = {}
    /\ interrupted = {}
    /\ retried = {}

SlotsOf(q) == {s \in Slots : slot[s].request = q}

Goto(h, pc) == job' = [job EXCEPT ![h].pc = pc]

End(h) == job' = [job EXCEPT ![h] = Idle]

Signing == {"create", "mark", "count", "flip"}

(* Two calls on a request do not conflict if both sign, different slots.   *)
Conflicting(q, s, pc) ==
    {h \in Handlers : /\ job[h].req = q
                      /\ ~(/\ pc = "create" /\ job[h].pc \in Signing
                           /\ job[h].slot # s)}

(* A call that reads q now, and what it goes on to do.                     *)
Begin(h, q, s, a, pc) ==
    /\ job' = [job EXCEPT ![h] = [pc |-> pc, actor |-> a, slot |-> s,
                                  req |-> q, sig |-> None]]
    /\ contested' = IF Conflicting(q, s, pc) # {} THEN contested \cup {q}
                    ELSE contested

-----------------------------------------------------------------------------
\* create(): the request with its slots, one per signer, is one insert.
CreateRequest(q, S, f, E) ==
    /\ status[q] = "none"
    /\ S # {} /\ \A s \in S : slot[s].request = None
    /\ status' = [status EXCEPT ![q] = "PENDING"]
    /\ slot' = [s \in Slots |->
                  IF s \in S
                  THEN [FreeSlot EXCEPT !.request = q, !.invitee = f[s],
                                        !.user = IF s \in E THEN None ELSE f[s]]
                  ELSE slot[s]]
    /\ UNCHANGED <<sig, lapsed, job, history>>

\* A mutant of Answerable: signedAt is not looked at.
AnswerableAgain(s) ==
    /\ slot[s].request # None
    /\ ~slot[s].declined
    /\ status[slot[s].request] \in {"PENDING", "EXPIRED"}

Answerable(s) ==
    /\ slot[s].request # None
    /\ ~slot[s].signed /\ ~slot[s].declined
    /\ status[slot[s].request] \in {"PENDING", "EXPIRED"}

(* loadSignerForSigning and assertSignerIdentity, for sign() and decline().*)
(* The account's own id or email decides, so a is the invitee.             *)
Load(h, a, s, pc) ==
    /\ job[h].pc = "idle"
    /\ pc \in {"create", "refuse"}
    /\ Answerable(s)
    /\ a = slot[s].invitee
    /\ slot[s].request \notin lapsed
    /\ Begin(h, slot[s].request, s, a, pc)
    /\ UNCHANGED <<status, slot, sig, lapsed, interrupted, retried>>

(* A slot's deadline is its request's, checked first: only if it passes    *)
(* between the two checks is the request marked EXPIRED.                   *)
LoadAtDeadline(h, s) ==
    /\ job[h].pc = "idle"
    /\ Answerable(s)
    /\ slot[s].request \notin lapsed
    /\ lapsed' = lapsed \cup {slot[s].request}
    /\ Begin(h, slot[s].request, s, None, "expire")
    /\ UNCHANGED <<status, slot, sig, interrupted, retried>>

MarkExpired(h) ==
    /\ job[h].pc = "expire"
    /\ status' = [status EXCEPT ![job[h].req] = "EXPIRED"]
    /\ End(h)
    /\ UNCHANGED <<slot, sig, lapsed, history>>

-----------------------------------------------------------------------------
\* A mutant of Attested: a failure is left pending.
AttestedOrPending == {"VERIFIED", "PENDING"}

\* attest() never throws: a failure is recorded.
Attested == {"VERIFIED", "FAILED"}

CreateSignature(h, g) ==
    /\ job[h].pc = "create"
    /\ sig[g].slot = None
    /\ \E p \in Attested :
          sig' = [sig EXCEPT ![g] = [slot |-> job[h].slot,
                                     signer |-> job[h].actor, proof |-> p]]
    /\ Goto(h, "mark")
    /\ UNCHANGED <<status, slot, lapsed, history>>

\* A mutant of MarkSigned: the status is not recomputed.
MarkSignedOnly(h) ==
    /\ job[h].pc = "mark"
    /\ slot' = [slot EXCEPT ![job[h].slot] =
                  [@ EXCEPT !.signed = TRUE, !.user = job[h].actor]]
    /\ End(h)
    /\ UNCHANGED <<status, sig, lapsed, history>>

MarkSigned(h) ==
    /\ job[h].pc = "mark"
    /\ slot' = [slot EXCEPT ![job[h].slot] =
                  [@ EXCEPT !.signed = TRUE, !.user = job[h].actor]]
    /\ Goto(h, "count")
    /\ UNCHANGED <<status, sig, lapsed, history>>

\* A mutant of AllSigned: a declined slot counts as answered.
AllAnswered(q) == \A s \in SlotsOf(q) : slot[s].signed \/ slot[s].declined

AllSigned(q) == \A s \in SlotsOf(q) : slot[s].signed

(* recomputeStatus: reads the slots ...                                    *)
Count(h) ==
    /\ job[h].pc = "count"
    /\ IF AllSigned(job[h].req) THEN Goto(h, "flip") ELSE End(h)
    /\ UNCHANGED <<status, slot, sig, lapsed, history>>

(* ... and updates the request, whatever its status has become.            *)
Flip(h) ==
    /\ job[h].pc = "flip"
    /\ status' = [status EXCEPT ![job[h].req] = "SIGNED"]
    /\ End(h)
    /\ UNCHANGED <<slot, sig, lapsed, history>>

-----------------------------------------------------------------------------
\* decline(): the slot, then the request.
MarkDeclined(h) ==
    /\ job[h].pc = "refuse"
    /\ slot' = [slot EXCEPT ![job[h].slot] =
                  [@ EXCEPT !.declined = TRUE, !.user = job[h].actor]]
    /\ Goto(h, "close")
    /\ UNCHANGED <<status, sig, lapsed, history>>

CloseDeclined(h) ==
    /\ job[h].pc = "close"
    /\ status' = [status EXCEPT ![job[h].req] = "DECLINED"]
    /\ End(h)
    /\ UNCHANGED <<slot, sig, lapsed, history>>

\* A mutant of MayRevoke: any request may be revoked.
MayRevokeAny(q) == status[q] # "none"

MayRevoke(q) == status[q] = "PENDING"

\* revoke(), by the creator
StartRevoke(h, q) ==
    /\ job[h].pc = "idle"
    /\ MayRevoke(q)
    /\ Begin(h, q, None, None, "revoke")
    /\ UNCHANGED <<status, slot, sig, lapsed, interrupted, retried>>

Revoke(h) ==
    /\ job[h].pc = "revoke"
    /\ status' = [status EXCEPT ![job[h].req] = "REVOKED"]
    /\ End(h)
    /\ UNCHANGED <<slot, sig, lapsed, history>>

-----------------------------------------------------------------------------
\* A mutant of NeedsProof: a verified signature is attested again.
NeedsProofAlways(g) == sig[g].slot # None

NeedsProof(g) == sig[g].slot # None /\ sig[g].proof # "VERIFIED"

\* reattest(): the read, then the outcome of another attempt.
StartRetry(h, g) ==
    /\ job[h].pc = "idle"
    /\ NeedsProof(g)
    /\ job' = [job EXCEPT ![h] = [Idle EXCEPT !.pc = "attest", !.sig = g]]
    /\ retried' = IF \E i \in Handlers : job[i].sig = g THEN retried \cup {g}
                  ELSE retried
    /\ UNCHANGED <<status, slot, sig, lapsed, contested, interrupted>>

Retry(h) ==
    /\ job[h].pc = "attest"
    /\ \E p \in Attested : sig' = [sig EXCEPT ![job[h].sig].proof = p]
    /\ End(h)
    /\ UNCHANGED <<status, slot, lapsed, history>>

Abort(h) ==
    /\ job[h].pc # "idle"
    /\ End(h)
    /\ interrupted' = interrupted \cup ({job[h].req} \ {None})
    /\ UNCHANGED <<status, slot, sig, lapsed, contested, retried>>

DeadlinePasses(q) ==
    /\ status[q] # "none" /\ q \notin lapsed
    /\ lapsed' = lapsed \cup {q}
    /\ UNCHANGED <<status, slot, sig, job, history>>

-----------------------------------------------------------------------------
HandlerStep(h) ==
    \/ \E s \in Slots :
          \/ \E a \in Users, pc \in {"create", "refuse"} : Load(h, a, s, pc)
          \/ LoadAtDeadline(h, s)
    \/ \E g \in Signatures : CreateSignature(h, g) \/ StartRetry(h, g)
    \/ \E q \in Requests : StartRevoke(h, q)
    \/ MarkExpired(h) \/ MarkSigned(h) \/ Count(h) \/ Flip(h)
    \/ MarkDeclined(h) \/ CloseDeclined(h) \/ Revoke(h) \/ Retry(h) \/ Abort(h)

Next ==
    \/ \E h \in Handlers : HandlerStep(h)
    \/ \E q \in Requests :
          \/ \E S, E \in SUBSET Slots, f \in [Slots -> Users] :
                CreateRequest(q, S, f, E)
          \/ DeadlinePasses(q)

Spec == Init /\ [][Next]_vars

-----------------------------------------------------------------------------
(* Properties.                                                             *)

(* A request shows as SIGNED only if every one of its slots was signed,    *)
(* and behind every signed slot there is a Signature row of the account it *)
(* was meant for - also after crashes and whatever calls overlapped        *)
(* (sign: the row first, then the slot, then recomputeStatus).             *)
SignedBy(s) == \E g \in Signatures : /\ sig[g].slot = s
                                     /\ sig[g].signer = slot[s].invitee

SignedSlotsHaveSignatures ==
    \A s \in Slots : slot[s].signed => SignedBy(s) /\ slot[s].user = slot[s].invitee

SignedMeansEverySlot ==
    \A q \in Requests, s \in Slots :
        status[q] = "SIGNED" /\ slot[s].request = q => slot[s].signed

SignedIsBacked == SignedSlotsHaveSignatures /\ SignedMeansEverySlot

(* recomputeStatus "flips the request to SIGNED once every signer slot has *)
(* signed": two signers finishing at once do not both miss the other's     *)
(* mark, whatever else overlapped, unless a call was aborted.              *)
LastSignerFlips ==
    \A q \in Requests \ interrupted :
        status[q] = "PENDING" =>
            \/ \E s \in SlotsOf(q) : ~slot[s].signed
            \/ \E h \in Handlers : job[h].req = q /\ job[h].pc \in {"count", "flip"}

(* One signature per slot, unless conflicting calls overlapped or one was  *)
(* aborted between the row and the mark.                                   *)
OneSignaturePerSlot ==
    \A g1, g2 \in Signatures :
        (/\ sig[g1].slot # None /\ sig[g1].slot = sig[g2].slot
         /\ slot[sig[g1].slot].request \notin contested \cup interrupted)
            => g1 = g2

(* Both: of two signers who finish at once one flips the request, and none *)
(* has signed twice.                                                       *)
SlotsAreSignedOnce == LastSignerFlips /\ OneSignaturePerSlot

(* Signed, declined and revoked requests stay so, unless conflicting calls *)
(* overlapped, and a proof once validated is never lost to a retry ("an    *)
(* already-verified signature is returned untouched"), unless two retries  *)
(* overlapped.                                                             *)
SigningIsFinal ==
    [][/\ \A q \in Requests \ contested :
             status[q] \in {"SIGNED", "DECLINED", "REVOKED"}
                 => status'[q] = status[q]
       /\ \A g \in Signatures \ retried :
             sig[g].proof = "VERIFIED" => sig'[g].proof = "VERIFIED"]_vars
=============================================================================
