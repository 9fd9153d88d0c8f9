-------------------------- MODULE MCHoldingsProofs ---------------------------
(***************************************************************************)
(* Proofs about what users hold, as MCHoldings puts it side by side, for   *)
(* every value of the constants.                                           *)
(*                                                                         *)
(* First the signing service, whose names MCHoldings takes as they are:    *)
(* type correctness, that a request shows as SIGNED only with a signature  *)
(* of its invitee behind every slot, that a slot is signed once and the    *)
(* last signer marks the request, unless calls overlapped or were cut, and *)
(* that what is signed stays signed.  SignedIsBacked is not inductive: a   *)
(* handler that is about to mark a slot must have created its signature    *)
(* (Working), one about to flip a request must have seen every slot signed *)
(* - and no slot may be added to a request that exists (SlotsBelong).  For *)
(* the others, InOrder says what the handlers at work on a request have    *)
(* left it in, one by one.                                                 *)
(*                                                                         *)
(* Then sums over finite sets, and the parts whose modules MCHoldings      *)
(* instances, in the names they have there: x1, x2, ... are the variables  *)
(* in the order in which the module declares them.  S is Membership, P     *)
(* Purchases, R Rewards, E EventLog, N Notifications, M Mail, D Drive, B   *)
(* Bridge.  At the end what holds of all parts.                            *)
(***************************************************************************)
EXTENDS MCHoldings, FiniteSetsExt, FiniteSetTheorems, TLAPS

-----------------------------------------------------------------------------
(* The signing service.                                                    *)

\* A slot in use belongs to a request that exists and to some account.
SlotsBelong ==
    \A s \in Slots : slot[s].request # None =>
        /\ status[slot[s].request] # "none"
        /\ slot[s].invitee \in Users

OnSlot == {"create", "mark", "count", "flip", "refuse", "close"}

\* What a handler at work knows about its slot and request.
Working(h) ==
    LET s == job[h].slot
    IN /\ job[h].pc # "idle" /\ job[h].pc # "attest" => job[h].req \in Requests
       /\ job[h].pc = "attest" => job[h].sig \in Signatures
       /\ job[h].pc \in OnSlot => /\ s \in Slots
                                  /\ job[h].req = slot[s].request
                                  /\ job[h].actor = slot[s].invitee
       /\ job[h].pc = "mark" => SignedBy(s)
       /\ job[h].pc = "flip" =>
             \A t \in Slots : slot[t].request = job[h].req => slot[t].signed

Inv == /\ TypeOK
       /\ SlotsBelong
       /\ \A h \in Handlers : Working(h)
       /\ SignedIsBacked

-----------------------------------------------------------------------------
\* With no request made, the invariant holds.
LEMMA InitInv == Init => Inv
  BY NoneIsNoValue
  DEF Init, Inv, TypeOK, SlotsBelong, Working, OnSlot, SignedIsBacked,
      SignedSlotsHaveSignatures, SignedMeansEverySlot, Status, Slot, FreeSlot,
      Signature, FreeSignature, Job, Idle

\* The type invariant is kept by every action, given where handlers are.
LEMMA StepType ==
  ASSUME TypeOK, SlotsBelong, \A h \in Handlers : Working(h), [Next]_vars
  PROVE  TypeOK'
<1> USE NoneIsNoValue DEF TypeOK, Job, Idle, history, Goto, End
<1>1. ASSUME NEW h \in Handlers, HandlerStep(h)
      PROVE  TypeOK'
  <2>0. Working(h)
    OBVIOUS
  <2>1. CASE \E s \in Slots, a \in Users, pc \in {"create", "refuse"} :
                Load(h, a, s, pc)
    <3>1. PICK s \in Slots, a \in Users, pc \in {"create", "refuse"} :
             Load(h, a, s, pc)
      BY <2>1
    <3>2. slot[s].request \in Requests
      BY <3>1 DEF Load, Answerable, Slot
    <3> QED
      BY <3>1, <3>2 DEF Load, Begin
  <2>2. CASE \E s \in Slots : LoadAtDeadline(h, s)
    <3>1. PICK s \in Slots : LoadAtDeadline(h, s)
      BY <2>2
    <3>2. slot[s].request \in Requests
      BY <3>1 DEF LoadAtDeadline, Answerable, Slot
    <3> QED
      BY <3>1, <3>2 DEF LoadAtDeadline, Begin
  <2>3. CASE \E g \in Signatures : CreateSignature(h, g)
    <3>1. PICK g \in Signatures : CreateSignature(h, g)
      BY <2>3
    <3>2. job[h].slot \in Slots \cup {None} /\ job[h].actor \in Users \cup {None}
      BY <2>0
    <3>3. sig' \in [Signatures -> Signature]
      BY <3>1, <3>2 DEF CreateSignature, Attested, Signature
    <3>4. [job[h] EXCEPT !.pc = "mark"] \in Job
      BY <2>0
    <3>5. job' \in [Handlers -> Job]
      BY <3>1, <3>4 DEF CreateSignature
    <3> QED
      BY <3>1, <3>3, <3>5 DEF CreateSignature
  <2>4. CASE \E g \in Signatures : StartRetry(h, g)
    <3>1. PICK g \in Signatures : StartRetry(h, g)
      BY <2>4
    <3>2. [Idle EXCEPT !.pc = "attest", !.sig = g] \in Job
      BY <3>1
    <3>3. job' \in [Handlers -> Job]
      BY <3>1, <3>2 DEF StartRetry
    <3>4. retried' \subseteq Signatures
      BY <3>1 DEF StartRetry
    <3> QED
      BY <3>1, <3>3, <3>4 DEF StartRetry
  <2>5. CASE \E q \in Requests : StartRevoke(h, q)
    BY <2>5 DEF StartRevoke, Begin
  <2>6. CASE MarkSigned(h)
    <3>1. job[h].slot \in Slots /\ job[h].actor \in Users \cup {None}
      BY <2>0, <2>6 DEF Working, OnSlot, MarkSigned
    <3>2. [slot[job[h].slot] EXCEPT !.signed = TRUE, !.user = job[h].actor] \in Slot
      <4>1. slot[job[h].slot] \in Slot
        BY <3>1
      <4> QED
        BY <3>1, <4>1 DEF Slot
    <3> QED
      BY <2>6, <3>1, <3>2 DEF MarkSigned
  <2>7. CASE MarkDeclined(h)
    <3>1. job[h].slot \in Slots /\ job[h].actor \in Users \cup {None}
      BY <2>0, <2>7 DEF Working, OnSlot, MarkDeclined
    <3>2. [slot[job[h].slot] EXCEPT !.declined = TRUE, !.user = job[h].actor] \in Slot
      <4>1. slot[job[h].slot] \in Slot
        BY <3>1
      <4> QED
        BY <3>1, <4>1 DEF Slot
    <3> QED
      BY <2>7, <3>1, <3>2 DEF MarkDeclined
  <2>8. CASE Count(h)
    BY <2>8 DEF Count
  <2>9. CASE MarkExpired(h) \/ Flip(h) \/ CloseDeclined(h) \/ Revoke(h)
    BY <2>9 DEF MarkExpired, Flip, CloseDeclined, Revoke, Status
  <2>10. CASE Retry(h)
    <3>1. job[h].sig \in Signatures
      BY <2>0, <2>10 DEF Working, Retry
    <3>2. PICK p \in Attested : sig' = [sig EXCEPT ![job[h].sig].proof = p]
      BY <2>10 DEF Retry
    <3>3. [sig[job[h].sig] EXCEPT !.proof = p] \in Signature
      BY <3>1 DEF Signature, Attested
    <3> QED
      BY <2>10, <3>1, <3>2, <3>3 DEF Retry
  <2>11. CASE Abort(h)
    BY <2>11 DEF Abort
  <2> QED
    BY <1>1, <2>1, <2>2, <2>3, <2>4, <2>5, <2>6, <2>7, <2>8, <2>9, <2>10, <2>11
    DEF HandlerStep
<1>2. ASSUME NEW q \in Requests, NEW W \in SUBSET Slots, NEW F \in SUBSET Slots,
             NEW f \in [Slots -> Users], CreateRequest(q, W, f, F)
      PROVE  TypeOK'
  <2>1. \A s \in Slots :
           [FreeSlot EXCEPT !.request = q, !.invitee = f[s],
                            !.user = IF s \in F THEN None ELSE f[s]] \in Slot
    BY DEF FreeSlot, Slot
  <2> QED
    BY <1>2, <2>1 DEF CreateRequest, Status
<1>3. ASSUME NEW q \in Requests, DeadlinePasses(q)
      PROVE  TypeOK'
  BY <1>3 DEF DeadlinePasses
<1>4. CASE UNCHANGED vars
  BY <1>4 DEF vars
<1> QED
  BY <1>1, <1>2, <1>3, <1>4 DEF Next

-----------------------------------------------------------------------------
(* What any step leaves of the tables: a slot in use keeps its request and *)
(* invitee and stays marked, a free one is only taken for a new request, a *)
(* signature stays, a request stays; a slot is marked only with a          *)
(* signature behind it, a request is SIGNED only with every slot marked.   *)
SlotKept(s) ==
    /\ slot[s].request # None => /\ slot'[s].request = slot[s].request
                                 /\ slot'[s].invitee = slot[s].invitee
                                 /\ slot[s].signed => slot'[s].signed
    /\ slot[s].request = None =>
          \/ slot'[s].request = None
          \/ /\ slot'[s].request \in Requests /\ slot'[s].invitee \in Users
             /\ status[slot'[s].request] = "none"
             /\ status'[slot'[s].request] # "none"
    /\ slot'[s].signed => /\ SignedBy(s)
                          /\ slot'[s].invitee = slot[s].invitee
                          /\ slot'[s].user = slot'[s].invitee

SignatureKept(g) == sig[g].slot # None => /\ sig'[g].slot = sig[g].slot
                                          /\ sig'[g].signer = sig[g].signer

RequestKept(q) ==
    /\ status[q] # "none" => status'[q] # "none"
    /\ status'[q] = "SIGNED" =>
          /\ status[q] # "none"
          /\ \A s \in Slots : slot[s].request = q => slot[s].signed

Kept == /\ \A s \in Slots : SlotKept(s)
        /\ \A g \in Signatures : SignatureKept(g)
        /\ \A q \in Requests : RequestKept(q)

\* Tables that are kept keep the invariant's conjuncts about them ...
LEMMA KeptSlotsBelong ==
  ASSUME Inv, TypeOK', Kept
  PROVE  SlotsBelong'
<1> SUFFICES ASSUME NEW s \in Slots, slot'[s].request # None
             PROVE  /\ status'[slot'[s].request] # "none"
                    /\ slot'[s].invitee \in Users
  BY DEF SlotsBelong
<1>1. slot'[s] \in Slot /\ slot[s] \in Slot /\ SlotKept(s)
  BY DEF Inv, TypeOK, Kept
<1>2. CASE slot[s].request = None
  BY <1>1, <1>2 DEF SlotKept
<1>3. CASE slot[s].request # None
  <2>1. slot[s].request \in Requests
    BY <1>1, <1>3 DEF Slot
  <2> QED
    BY <1>1, <1>3, <2>1 DEF SlotKept, Kept, RequestKept, Inv, SlotsBelong
<1> QED
  BY <1>2, <1>3

\* A slot that has its signature keeps it.
LEMMA KeptSignedBy ==
  ASSUME Kept, NEW s \in Slots, SignedBy(s), slot'[s].invitee = slot[s].invitee,
         None \notin Slots
  PROVE  SignedBy(s)'
BY DEF Kept, SignatureKept, SignedBy

\* What is signed stays backed if the tables only grow.
LEMMA KeptSigned ==
  ASSUME Inv, TypeOK', Kept
  PROVE  SignedIsBacked'
<1>1. SignedSlotsHaveSignatures'
  <2> SUFFICES ASSUME NEW s \in Slots, slot'[s].signed
               PROVE  SignedBy(s)' /\ slot'[s].user = slot'[s].invitee
    BY DEF SignedSlotsHaveSignatures
  <2>1. SlotKept(s)
    BY DEF Kept
  <2> QED
    BY <2>1, KeptSignedBy, NoneIsNoValue DEF SlotKept
<1>2. SignedMeansEverySlot'
  <2> SUFFICES ASSUME NEW q \in Requests, NEW s \in Slots,
                      status'[q] = "SIGNED", slot'[s].request = q
               PROVE  slot'[s].signed
    BY DEF SignedMeansEverySlot
  <2>1. SlotKept(s) /\ RequestKept(q)
    BY DEF Kept
  <2>2. slot[s].request = q
    BY <2>1, NoneIsNoValue DEF SlotKept, RequestKept
  <2>3. slot[s].signed /\ slot[s].request # None
    BY <2>1, <2>2, NoneIsNoValue DEF RequestKept
  <2> QED
    BY <2>1, <2>3 DEF SlotKept
<1> QED
  BY <1>1, <1>2 DEF SignedIsBacked

\* ... and what a handler that does not move knows.
LEMMA KeptWorking ==
  ASSUME Inv, Kept, NEW h \in Handlers, job'[h] = job[h]
  PROVE  Working(h)'
<1> DEFINE s == job[h].slot
<1>0. Working(h)
  BY DEF Inv
<1>1. ASSUME job[h].pc \in OnSlot
      PROVE  /\ s \in Slots /\ job[h].req = slot[s].request
             /\ job[h].actor = slot[s].invitee
             /\ slot[s].request \in Requests /\ slot[s].request # None
             /\ slot'[s].request = slot[s].request
             /\ slot'[s].invitee = slot[s].invitee
  <2>1. /\ s \in Slots /\ job[h].req = slot[s].request
        /\ job[h].actor = slot[s].invitee /\ job[h].req \in Requests
    BY <1>0, <1>1 DEF Working, OnSlot
  <2>2. slot[s].request # None
    BY <2>1, NoneIsNoValue
  <2> QED
    BY <2>1, <2>2 DEF Kept, SlotKept
<1>2. job[h].pc = "mark" => SignedBy(s)'
  <2> SUFFICES ASSUME job[h].pc = "mark"
               PROVE  SignedBy(s)'
    OBVIOUS
  <2>1. SignedBy(s) /\ s \in Slots /\ slot'[s].invitee = slot[s].invitee
    BY <1>0, <1>1 DEF Working, OnSlot
  <2> QED
    BY <2>1, KeptSignedBy, NoneIsNoValue
<1>3. ASSUME job[h].pc = "flip", NEW t \in Slots, slot'[t].request = job[h].req
      PROVE  slot'[t].signed
  <2>1. /\ job[h].req \in Requests /\ status[job[h].req] # "none"
        /\ \A x \in Slots : slot[x].request = job[h].req => slot[x].signed
    BY <1>0, <1>1, <1>3 DEF Working, OnSlot, Inv, SlotsBelong
  <2>2. SlotKept(t)
    BY DEF Kept
  <2>3. slot[t].request = job[h].req
    BY <1>3, <2>1, <2>2, NoneIsNoValue DEF SlotKept
  <2> QED
    BY <2>1, <2>2, <2>3, NoneIsNoValue DEF SlotKept
<1> QED
  BY <1>0, <1>1, <1>2, <1>3 DEF Working
-----------------------------------------------------------------------------
(* Every action keeps the tables, and leaves each handler either where it  *)
(* was or knowing what it must.                                            *)
Moves == \A h \in Handlers : job'[h] = job[h] \/ Working(h)'

\* An action that touches no table.
LEMMA SameTablesKept ==
  ASSUME Inv, UNCHANGED <<status, slot, sig>>
  PROVE  Kept
BY DEF Inv, SignedIsBacked, SignedSlotsHaveSignatures, SignedMeansEverySlot,
       SlotsBelong, TypeOK, Slot, Kept, SlotKept, SignatureKept, RequestKept

\* An action that only writes the status of an existing request, not SIGNED.
LEMMA StatusKept ==
  ASSUME Inv, UNCHANGED <<slot, sig>>, NEW q \in Requests, NEW x \in Status,
         status' = [status EXCEPT ![q] = x],
         x = "SIGNED" => \A s \in Slots : slot[s].request = q => slot[s].signed,
         x = "SIGNED" => status[q] # "none"
  PROVE  Kept
BY DEF Inv, SignedIsBacked, SignedSlotsHaveSignatures, SignedMeansEverySlot,
       SlotsBelong, TypeOK, Slot, Status, Kept, SlotKept, SignatureKept,
       RequestKept

\* A step of a handler leaves what is signed, and moves as it should.
LEMMA HandlerStepKeeps ==
  ASSUME Inv, TypeOK', NEW h \in Handlers, HandlerStep(h)
  PROVE  Kept /\ Moves
<1> USE NoneIsNoValue
<1>0. Working(h) /\ TypeOK /\ job \in [Handlers -> Job]
  BY DEF Inv, TypeOK
<1>1. CASE \E s \in Slots, a \in Users, pc \in {"create", "refuse"} :
              Load(h, a, s, pc)
  <2>1. PICK s \in Slots, a \in Users, pc \in {"create", "refuse"} :
           Load(h, a, s, pc)
    BY <1>1
  <2>2. slot[s].request \in Requests
    BY <1>0, <2>1 DEF Load, Answerable, TypeOK, Slot
  <2>3. Kept
    BY <2>1, SameTablesKept DEF Load
  <2> QED
    BY <1>0, <2>1, <2>2, <2>3 DEF Load, Begin, Moves, Working, OnSlot
<1>2. CASE \E s \in Slots : LoadAtDeadline(h, s)
  <2>1. PICK s \in Slots : LoadAtDeadline(h, s)
    BY <1>2
  <2>2. slot[s].request \in Requests
    BY <1>0, <2>1 DEF LoadAtDeadline, Answerable, TypeOK, Slot
  <2>3. Kept
    BY <2>1, SameTablesKept DEF LoadAtDeadline
  <2> QED
    BY <1>0, <2>1, <2>2, <2>3 DEF LoadAtDeadline, Begin, Moves, Working, OnSlot
<1>3. CASE \E g \in Signatures : CreateSignature(h, g)
  <2>1. PICK g \in Signatures, p \in Attested :
           /\ CreateSignature(h, g)
           /\ sig' = [sig EXCEPT ![g] = [slot |-> job[h].slot,
                                        signer |-> job[h].actor, proof |-> p]]
    BY <1>3 DEF CreateSignature
  <2>2. /\ job[h].slot \in Slots /\ job[h].req \in Requests
        /\ job[h].req = slot[job[h].slot].request
        /\ job[h].actor = slot[job[h].slot].invitee
    BY <1>0, <2>1 DEF Working, OnSlot, CreateSignature
  <2>3. UNCHANGED <<status, slot>> /\ sig[g].slot = None
    BY <2>1 DEF CreateSignature
  <2>4. Kept
    BY <1>0, <2>1, <2>3
    DEF Inv, SignedIsBacked, SignedSlotsHaveSignatures, SignedMeansEverySlot,
        SlotsBelong, TypeOK, Kept, SlotKept, SignatureKept, RequestKept
  <2>5. SignedBy(job[h].slot)'
    BY <1>0, <2>1, <2>2, <2>3 DEF SignedBy, TypeOK, CreateSignature, Goto, Job
  <2>6. job' = [job EXCEPT ![h].pc = "mark"]
    BY <2>1 DEF CreateSignature, Goto
  <2> QED
    BY <1>0, <2>2, <2>3, <2>4, <2>5, <2>6 DEF Moves, Working, OnSlot, Job
<1>4. CASE \E g \in Signatures : StartRetry(h, g)
  <2>1. PICK g \in Signatures : StartRetry(h, g)
    BY <1>4
  <2>2. Kept
    BY <2>1, SameTablesKept DEF StartRetry
  <2> QED
    BY <1>0, <2>1, <2>2 DEF StartRetry, Moves, Working, OnSlot, Idle
<1>5. CASE \E q \in Requests : StartRevoke(h, q)
  <2>1. PICK q \in Requests : StartRevoke(h, q)
    BY <1>5
  <2>2. Kept
    BY <2>1, SameTablesKept DEF StartRevoke
  <2> QED
    BY <1>0, <2>1, <2>2 DEF StartRevoke, Begin, Moves, Working, OnSlot
<1>6. ASSUME job[h].pc \in {"mark", "refuse"}, UNCHANGED <<status, sig>>,
             NEW b \in BOOLEAN, NEW d \in BOOLEAN,
             slot' = [slot EXCEPT ![job[h].slot] =
                        [@ EXCEPT !.signed = b, !.declined = d,
                                  !.user = job[h].actor]],
             slot[job[h].slot].signed => b,
             b => SignedBy(job[h].slot)
      PROVE  Kept
  <2> DEFINE s == job[h].slot
  <2>1. /\ s \in Slots /\ job[h].req \in Requests
        /\ job[h].req = slot[s].request /\ job[h].actor = slot[s].invitee
    BY <1>0, <1>6 DEF Working, OnSlot
  <2>2. slot[s] \in Slot
    BY <1>0, <2>1 DEF TypeOK
  <2>3. slot'[s] = [slot[s] EXCEPT !.signed = b, !.declined = d,
                                   !.user = job[h].actor]
    BY <1>0, <1>6, <2>1 DEF TypeOK
  <2>4. /\ slot'[s].request = slot[s].request
        /\ slot'[s].invitee = slot[s].invitee
        /\ slot'[s].user = job[h].actor /\ slot'[s].signed = b
    BY <2>2, <2>3 DEF Slot
  <2>5. \A t \in Slots : t # s => slot'[t] = slot[t]
    BY <1>0, <1>6, <2>1 DEF TypeOK
  <2>6. ASSUME NEW t \in Slots PROVE SlotKept(t)
    BY <1>6, <2>1, <2>4, <2>5
    DEF SlotKept, Inv, SignedIsBacked, SignedSlotsHaveSignatures
  <2>7. \A q \in Requests : RequestKept(q)
    BY <1>6 DEF RequestKept, Inv, SignedIsBacked, SignedMeansEverySlot
  <2> QED
    BY <1>6, <2>6, <2>7 DEF Kept, SignatureKept
<1>7. CASE MarkSigned(h)
  <2> DEFINE s == job[h].slot
  <2>1. /\ s \in Slots /\ job[h].req \in Requests
        /\ job[h].req = slot[s].request /\ job[h].actor = slot[s].invitee
        /\ SignedBy(s) /\ slot[s] \in Slot
    BY <1>0, <1>7 DEF Working, OnSlot, MarkSigned, TypeOK
  <2>2. [slot[s] EXCEPT !.signed = TRUE, !.user = job[h].actor] =
        [slot[s] EXCEPT !.signed = TRUE, !.declined = slot[s].declined,
                        !.user = job[h].actor]
    BY <2>1 DEF Slot
  <2>3. Kept
    <3>1. slot' = [slot EXCEPT ![s] =
                     [@ EXCEPT !.signed = TRUE, !.declined = slot[s].declined,
                               !.user = job[h].actor]]
      BY <1>7, <2>1, <2>2 DEF MarkSigned
    <3>2. slot[s].declined \in BOOLEAN
      BY <2>1 DEF Slot
    <3> QED
      BY <1>6, <1>7, <2>1, <3>1, <3>2 DEF MarkSigned
  <2>4. job' = [job EXCEPT ![h].pc = "count"]
    BY <1>7 DEF MarkSigned, Goto
  <2>5. slot'[s].request = slot[s].request /\ slot'[s].invitee = slot[s].invitee
    BY <2>1, <2>3 DEF Kept, SlotKept
  <2> QED
    BY <1>0, <2>1, <2>3, <2>4, <2>5 DEF Moves, Working, OnSlot, Job
<1>8. CASE MarkDeclined(h)
  <2> DEFINE s == job[h].slot
  <2>1. /\ s \in Slots /\ job[h].req \in Requests
        /\ job[h].req = slot[s].request /\ job[h].actor = slot[s].invitee
        /\ slot[s] \in Slot
    BY <1>0, <1>8 DEF Working, OnSlot, MarkDeclined, TypeOK
  <2>2. [slot[s] EXCEPT !.declined = TRUE, !.user = job[h].actor] =
        [slot[s] EXCEPT !.signed = slot[s].signed, !.declined = TRUE,
                        !.user = job[h].actor]
    BY <2>1 DEF Slot
  <2>3. Kept
    <3>1. slot' = [slot EXCEPT ![s] =
                     [@ EXCEPT !.signed = slot[s].signed, !.declined = TRUE,
                               !.user = job[h].actor]]
      BY <1>8, <2>1, <2>2 DEF MarkDeclined
    <3>2. slot[s].signed \in BOOLEAN /\ (slot[s].signed => SignedBy(s))
      BY <2>1 DEF Slot, Inv, SignedIsBacked, SignedSlotsHaveSignatures
    <3> QED
      BY <1>6, <1>8, <2>1, <3>1, <3>2 DEF MarkDeclined
  <2>4. job' = [job EXCEPT ![h].pc = "close"]
    BY <1>8 DEF MarkDeclined, Goto
  <2>5. slot'[s].request = slot[s].request /\ slot'[s].invitee = slot[s].invitee
    BY <2>1, <2>3 DEF Kept, SlotKept
  <2> QED
    BY <1>0, <2>1, <2>3, <2>4, <2>5 DEF Moves, Working, OnSlot, Job
<1>9. CASE Count(h)
  <2>1. Kept
    BY <1>9, SameTablesKept DEF Count
  <2>2. UNCHANGED <<slot, sig>>
    BY <1>9 DEF Count
  <2>3. \/ job' = [job EXCEPT ![h].pc = "flip"] /\ AllSigned(job[h].req)
        \/ job' = [job EXCEPT ![h] = Idle]
    BY <1>9 DEF Count, Goto, End
  <2> QED
    BY <1>0, <1>9, <2>1, <2>2, <2>3
    DEF Moves, Working, OnSlot, Job, Count, AllSigned, SlotsOf, Idle
<1>10. CASE MarkExpired(h) \/ Flip(h) \/ CloseDeclined(h) \/ Revoke(h)
  <2>1. job[h].req \in Requests
    BY <1>0, <1>10 DEF Working, OnSlot, MarkExpired, Flip, CloseDeclined, Revoke
  <2>2. Kept
    <3>1. CASE Flip(h)
      <4>1. /\ \A t \in Slots : slot[t].request = job[h].req => slot[t].signed
            /\ status[job[h].req] # "none"
        BY <1>0, <2>1, <3>1 DEF Flip, Working, OnSlot, Inv, SlotsBelong
      <4> QED
        BY <2>1, <3>1, <4>1, StatusKept DEF Flip, Status
    <3>2. CASE MarkExpired(h) \/ CloseDeclined(h) \/ Revoke(h)
      BY <2>1, <3>2, StatusKept DEF MarkExpired, CloseDeclined, Revoke, Status
    <3> QED
      BY <1>10, <3>1, <3>2
  <2> QED
    BY <1>0, <1>10, <2>2
    DEF MarkExpired, Flip, CloseDeclined, Revoke, End, Idle, Moves, Working, OnSlot
<1>11. CASE Retry(h)
  <2>1. PICK p \in Attested : sig' = [sig EXCEPT ![job[h].sig].proof = p]
    BY <1>11 DEF Retry
  <2>2. job[h].sig \in Signatures /\ UNCHANGED <<status, slot>>
    BY <1>0, <1>11 DEF Working, Retry
  <2>3. \A g \in Signatures : sig'[g].slot = sig[g].slot /\ sig'[g].signer = sig[g].signer
    <3> SUFFICES ASSUME NEW g \in Signatures
                 PROVE  sig'[g].slot = sig[g].slot /\ sig'[g].signer = sig[g].signer
      OBVIOUS
    <3>1. sig[g] \in Signature
      BY <1>0 DEF TypeOK
    <3>2. sig'[g] = sig[g] \/ sig'[g] = [sig[g] EXCEPT !.proof = p]
      BY <1>0, <2>1, <2>2 DEF TypeOK
    <3> QED
      BY <3>1, <3>2 DEF Signature
  <2>4. Kept
    BY <2>2, <2>3
    DEF Inv, SignedIsBacked, SignedSlotsHaveSignatures, SignedMeansEverySlot,
        SlotsBelong, Kept, SlotKept, SignatureKept, RequestKept
  <2> QED
    BY <1>0, <1>11, <2>4 DEF Retry, End, Idle, Moves, Working, OnSlot
<1>12. CASE Abort(h)
  <2>1. Kept
    BY <1>12, SameTablesKept DEF Abort
  <2> QED
    BY <1>0, <1>12, <2>1 DEF Abort, End, Idle, Moves, Working, OnSlot
<1> QED
  BY <1>1, <1>2, <1>3, <1>4, <1>5, <1>7, <1>8, <1>9, <1>10, <1>11, <1>12
  DEF HandlerStep

\* So does the creation of another request.
LEMMA CreateRequestKeeps ==
  ASSUME Inv, TypeOK', NEW q \in Requests, NEW W \in SUBSET Slots,
         NEW F \in SUBSET Slots, NEW f \in [Slots -> Users],
         CreateRequest(q, W, f, F)
  PROVE  Kept /\ Moves
<1> USE NoneIsNoValue DEF CreateRequest
<1>1. TypeOK
  BY DEF Inv
<1>2. ASSUME NEW s \in Slots PROVE SlotKept(s)
  <2>1. CASE s \in W
    <3>1. slot'[s].request = q /\ slot'[s].invitee = f[s] /\ ~slot'[s].signed
      BY <2>1 DEF FreeSlot
    <3>2. status[q] = "none" /\ status'[q] = "PENDING" /\ f[s] \in Users
      BY <1>1 DEF TypeOK
    <3>3. slot[s].request = None
      BY <2>1
    <3> HIDE DEF CreateRequest
    <3> QED
      BY <3>1, <3>2, <3>3 DEF SlotKept
  <2>2. CASE s \notin W
    BY <2>2 DEF SlotKept, Inv, SignedIsBacked, SignedSlotsHaveSignatures
  <2> QED
    BY <2>1, <2>2
<1>3. \A r \in Requests : RequestKept(r)
  BY <1>1 DEF RequestKept, TypeOK, Inv, SignedIsBacked, SignedMeansEverySlot
<1> QED
  BY <1>2, <1>3 DEF Kept, SignatureKept, Moves

\* The inductive step.
LEMMA StepKeepsInv == Inv /\ [Next]_vars => Inv'
<1> SUFFICES ASSUME Inv, [Next]_vars
             PROVE  Inv'
  OBVIOUS
<1>1. TypeOK'
  BY StepType DEF Inv
<1>2. Kept /\ Moves
  <2>1. ASSUME NEW h \in Handlers, HandlerStep(h)
        PROVE  Kept /\ Moves
    BY <1>1, <2>1, HandlerStepKeeps
  <2>2. ASSUME NEW q \in Requests, NEW W \in SUBSET Slots, NEW F \in SUBSET Slots,
               NEW f \in [Slots -> Users], CreateRequest(q, W, f, F)
        PROVE  Kept /\ Moves
    BY <1>1, <2>2, CreateRequestKeeps
  <2>3. CASE (\E q \in Requests : DeadlinePasses(q)) \/ UNCHANGED vars
    BY <2>3, SameTablesKept DEF DeadlinePasses, vars, Moves
  <2> QED
    BY <2>1, <2>2, <2>3 DEF Next
<1>3. \A h \in Handlers : Working(h)'
  BY <1>2, KeptWorking DEF Moves
<1> QED
  BY <1>1, <1>2, <1>3, KeptSlotsBelong, KeptSigned DEF Inv

-----------------------------------------------------------------------------
\* Inv is an invariant.
LEMMA Invariance == Spec => []Inv
BY InitInv, StepKeepsInv, PTL DEF Spec

(* Type correctness: every action of the signing service, in every         *)
(* interleaving, keeps the three tables and the handlers well typed.       *)
THEOREM TypeCorrect == Spec => []TypeOK
BY Invariance, PTL DEF Inv

(* No overlap of calls and no crash makes a request show as SIGNED without *)
(* a mark on each slot and a signature of its invitee behind each mark.    *)
THEOREM SignedRequestsAreBacked == Spec => []SignedIsBacked
BY Invariance, PTL DEF Inv

-----------------------------------------------------------------------------
(* Calls that do not conflict.                                             *)
(*                                                                         *)
(* Unless a request is contested, the calls at work on it are one, or      *)
(* signers of different slots (Apart), and what each read of it still      *)
(* holds (Fresh).  A signature row, unless a call was interrupted, has its *)
(* slot marked or a handler about to mark it (Single); one that is being   *)
(* attested again, unless retries overlapped, is not yet verified          *)
(* (Retries).  A pending request has a slot to be signed or a handler that *)
(* is counting (Awaited).                                                  *)
Tidy(h) ==
    /\ job[h].pc \in {"idle", "attest"} => job[h].req = None
    /\ job[h].pc # "attest" => job[h].sig = None
    /\ job[h].pc = "attest" => sig[job[h].sig].slot # None

Rows(g) == IF sig[g].slot = None THEN sig[g].proof # "VERIFIED"
           ELSE sig[g].slot \in Slots /\ slot[sig[g].slot].request # None

Fresh(h) ==
    /\ \/ status[job[h].req] \in {"PENDING", "EXPIRED"}
       \/ job[h].pc \in {"count", "flip"} /\ status[job[h].req] = "SIGNED"
    /\ job[h].pc \in {"create", "mark"} => ~slot[job[h].slot].signed

Apart(h, i) == /\ job[h].pc \in Signing /\ job[i].pc \in Signing
               /\ job[h].slot # job[i].slot

Peaceful(q) ==
    q \notin contested =>
        \A h \in Handlers : job[h].req = q =>
           /\ Fresh(h)
           /\ \A i \in Handlers \ {h} : job[i].req = q => Apart(h, i)

Marking(s) == \E h \in Handlers : job[h].slot = s /\ job[h].pc = "mark"

Single(s) ==
    slot[s].request \notin contested \cup interrupted =>
        \A g \in Signatures : sig[g].slot = s =>
           /\ slot[s].signed \/ Marking(s)
           /\ \A x \in Signatures : sig[x].slot = s => x = g

Retries(g) ==
    g \notin retried =>
        \A h \in Handlers : job[h].sig = g =>
           /\ sig[g].proof # "VERIFIED"
           /\ \A i \in Handlers : job[i].sig = g => i = h

Awaited(q) ==
    q \notin interrupted /\ status[q] = "PENDING" =>
        \/ \E s \in Slots : slot[s].request = q /\ ~slot[s].signed
        \/ \E h \in Handlers : job[h].req = q /\ job[h].pc \in {"count", "flip"}

InOrder == /\ \A h \in Handlers : Tidy(h)
           /\ \A g \in Signatures : Rows(g) /\ Retries(g)
           /\ \A q \in Requests : Peaceful(q) /\ Awaited(q)
           /\ \A s \in Slots : Single(s)

\* With no request made, all is in order.
LEMMA InitInOrder == Init => InOrder
  BY NoneIsNoValue
  DEF Init, InOrder, Tidy, Rows, Retries, Peaceful, Awaited, Single, Idle,
      FreeSignature, FreeSlot

-----------------------------------------------------------------------------
(* What a step of a handler does, as far as the order of calls goes: it    *)
(* starts a call and touches no table ...                                  *)
Starts(h, q) ==
    /\ job[h].pc = "idle" /\ q \in Requests
    /\ \E s \in Slots \cup {None}, a \in Users \cup {None},
          pc \in {"create", "refuse", "expire", "revoke"} :
          /\ Begin(h, q, s, a, pc)
          /\ pc = "create" => s \in Slots /\ ~slot[s].signed
    /\ status[q] \in {"PENDING", "EXPIRED"}
    /\ UNCHANGED <<status, slot, sig, interrupted, retried>>

(* ... or goes on with one, on its own slot, request and signature.        *)
GoesOn(h) ==
    LET j == job[h]  k == job'[h]
    IN /\ j.pc # "idle"
       /\ \A i \in Handlers \ {h} : job'[i] = job[i]
       /\ \/ k = Idle
          \/ /\ k.req = j.req /\ k.slot = j.slot /\ k.sig = j.sig
             /\ k.pc \in Signing <=> j.pc \in Signing
             /\ <<j.pc, k.pc>> \in {<<"create", "mark">>, <<"mark", "count">>,
                                    <<"count", "flip">>, <<"refuse", "close">>}
       /\ UNCHANGED <<contested, retried>> /\ interrupted \subseteq interrupted'
       /\ \A q \in Requests :
             \/ status'[q] = status[q]
             \/ /\ q = j.req /\ k = Idle
                /\ \/ j.pc = "flip" /\ status'[q] = "SIGNED"
                   \/ j.pc \notin Signing /\ status'[q] # "PENDING"
       /\ \A s \in Slots :
             /\ slot'[s].request = slot[s].request
             /\ \/ slot'[s].signed = slot[s].signed
                \/ s = j.slot /\ k.pc = "count" /\ slot'[s].signed
       /\ \A g \in Signatures :
             /\ \/ sig'[g].slot = sig[g].slot
                \/ sig[g].slot = None /\ sig'[g].slot = j.slot /\ k.pc = "mark"
             /\ \/ sig'[g].proof = sig[g].proof
                \/ sig[g].slot = None /\ sig'[g].slot = j.slot /\ k.pc = "mark"
                \/ g = j.sig /\ j.pc = "attest" /\ k = Idle
       /\ k.pc = "mark" => /\ UNCHANGED slot
                           /\ \E x \in Signatures : \A g \in Signatures \ {x} :
                                 sig'[g] = sig[g]
       /\ j.pc = "mark" => \/ k.pc = "count" /\ slot'[j.slot].signed
                           \/ j.req \in interrupted'
       /\ j.pc \in {"count", "flip"} /\ k.pc # "flip" =>
             \/ j.req \in interrupted'
             \/ status'[j.req] = "SIGNED"
             \/ j.pc = "count" /\ ~AllSigned(j.req)

\* A step of a handler starts a call, retries a proof, or goes on.
LEMMA CallSteps ==
  ASSUME Inv, InOrder, NEW h \in Handlers, HandlerStep(h)
  PROVE  \/ \E q \in Requests : Starts(h, q)
         \/ \E g \in Signatures : StartRetry(h, g)
         \/ GoesOn(h)
<1> USE NoneIsNoValue
<1>0. /\ Working(h) /\ Tidy(h) /\ TypeOK /\ job \in [Handlers -> Job]
      /\ job[h] \in Job /\ slot \in [Slots -> Slot]
      /\ sig \in [Signatures -> Signature]
      /\ status \in [Requests -> Status \cup {"none"}]
  BY DEF Inv, InOrder, TypeOK
<1>1. CASE \E s \in Slots, a \in Users, pc \in {"create", "refuse"} :
              Load(h, a, s, pc)
  <2>1. PICK s \in Slots, a \in Users, pc \in {"create", "refuse"} :
           Load(h, a, s, pc)
    BY <1>1
  <2>2. PICK q \in Requests : q = slot[s].request
    BY <1>0, <2>1 DEF Load, Answerable, Slot
  <2>3. /\ job[h].pc = "idle" /\ Begin(h, q, s, a, pc) /\ ~slot[s].signed
        /\ status[q] \in {"PENDING", "EXPIRED"}
        /\ UNCHANGED <<status, slot, sig, interrupted, retried>>
    BY <2>1, <2>2 DEF Load, Answerable
  <2>4. Starts(h, q)
    BY <2>3 DEF Starts
  <2> QED
    BY <2>4
<1>2. CASE \E s \in Slots : LoadAtDeadline(h, s)
  <2>1. PICK s \in Slots : LoadAtDeadline(h, s)
    BY <1>2
  <2>2. PICK q \in Requests : q = slot[s].request
    BY <1>0, <2>1 DEF LoadAtDeadline, Answerable, Slot
  <2>3. /\ job[h].pc = "idle" /\ Begin(h, q, s, None, "expire")
        /\ status[q] \in {"PENDING", "EXPIRED"}
        /\ UNCHANGED <<status, slot, sig, interrupted, retried>>
    BY <2>1, <2>2 DEF LoadAtDeadline, Answerable
  <2>4. Starts(h, q)
    BY <2>3 DEF Starts
  <2> QED
    BY <2>4
<1>3. CASE \E q \in Requests : StartRevoke(h, q)
  <2>1. PICK q \in Requests : StartRevoke(h, q)
    BY <1>3
  <2>2. Starts(h, q)
    BY <2>1 DEF StartRevoke, MayRevoke, Starts
  <2> QED
    BY <2>2
\* What is common to the steps of a call that goes on, by where it goes.
<1>4. ASSUME End(h)
      PROVE  job'[h] = Idle /\ \A i \in Handlers \ {h} : job'[i] = job[i]
  BY <1>0, <1>4 DEF End
<1>5. ASSUME NEW pc, Goto(h, pc)
      PROVE  /\ job'[h].pc = pc /\ job'[h].req = job[h].req
             /\ job'[h].slot = job[h].slot /\ job'[h].sig = job[h].sig
             /\ \A i \in Handlers \ {h} : job'[i] = job[i]
  BY <1>0, <1>5 DEF Goto, Job
<1>6. Idle.pc = "idle"
  BY DEF Idle
<1>7. CASE \E g \in Signatures : CreateSignature(h, g)
  <2>1. PICK g \in Signatures : CreateSignature(h, g)
    BY <1>7
  <2>2. /\ job[h].pc = "create" /\ sig[g].slot = None /\ Goto(h, "mark")
        /\ sig'[g].slot = job[h].slot
        /\ \A x \in Signatures \ {g} : sig'[x] = sig[x]
        /\ UNCHANGED <<status, slot, contested, interrupted, retried>>
    BY <1>0, <2>1 DEF CreateSignature, history
  <2> QED
    BY <1>5, <2>2 DEF GoesOn, Signing
<1>8. CASE MarkSigned(h)
  <2>1. /\ job[h].pc = "mark" /\ Goto(h, "count") /\ job[h].slot \in Slots
        /\ slot' = [slot EXCEPT ![job[h].slot] =
                      [@ EXCEPT !.signed = TRUE, !.user = job[h].actor]]
        /\ UNCHANGED <<status, sig, contested, interrupted, retried>>
    BY <1>0, <1>8 DEF MarkSigned, history, Working, OnSlot
  <2>2. slot[job[h].slot] \in Slot /\ \A s \in Slots : s # job[h].slot => slot'[s] = slot[s]
    BY <1>0, <2>1
  <2>3. slot'[job[h].slot].signed /\ slot'[job[h].slot].request = slot[job[h].slot].request
    BY <1>0, <2>1, <2>2 DEF Slot
  <2>4. ASSUME NEW s \in Slots
        PROVE  /\ slot'[s].request = slot[s].request
               /\ slot'[s].signed = slot[s].signed \/ (s = job[h].slot /\ slot'[s].signed)
    BY <2>2, <2>3
  <2>5. /\ job'[h].pc = "count" /\ job'[h].req = job[h].req
        /\ job'[h].slot = job[h].slot /\ job'[h].sig = job[h].sig
        /\ \A i \in Handlers \ {h} : job'[i] = job[i]
    BY <1>5, <2>1
  <2> HIDE DEF Goto
  <2> QED
    BY <2>1, <2>3, <2>4, <2>5 DEF GoesOn, Signing
<1>9. CASE MarkDeclined(h)
  <2>1. /\ job[h].pc = "refuse" /\ Goto(h, "close") /\ job[h].slot \in Slots
        /\ slot' = [slot EXCEPT ![job[h].slot] =
                      [@ EXCEPT !.declined = TRUE, !.user = job[h].actor]]
        /\ UNCHANGED <<status, sig, contested, interrupted, retried>>
    BY <1>0, <1>9 DEF MarkDeclined, history, Working, OnSlot
  <2>2. slot[job[h].slot] \in Slot /\ \A s \in Slots : s # job[h].slot => slot'[s] = slot[s]
    BY <1>0, <2>1
  <2>3. /\ slot'[job[h].slot].signed = slot[job[h].slot].signed
        /\ slot'[job[h].slot].request = slot[job[h].slot].request
    BY <1>0, <2>1, <2>2 DEF Slot
  <2> QED
    BY <1>5, <2>1, <2>2, <2>3 DEF GoesOn, Signing
<1>10. CASE Count(h)
  <2>1. /\ job[h].pc = "count"
        /\ IF AllSigned(job[h].req) THEN Goto(h, "flip") ELSE End(h)
        /\ UNCHANGED <<status, slot, sig, contested, interrupted, retried>>
    BY <1>10 DEF Count, history
  <2> QED
    BY <1>4, <1>5, <1>6, <2>1 DEF GoesOn, Signing
<1>11. CASE MarkExpired(h) \/ Flip(h) \/ CloseDeclined(h) \/ Revoke(h)
  <2>1. PICK x \in {"EXPIRED", "SIGNED", "DECLINED", "REVOKED"} :
           /\ status' = [status EXCEPT ![job[h].req] = x]
           /\ \/ job[h].pc = "flip" /\ x = "SIGNED"
              \/ job[h].pc \in {"expire", "close", "revoke"}
    BY <1>11 DEF MarkExpired, Flip, CloseDeclined, Revoke
  <2>2. /\ End(h) /\ UNCHANGED <<slot, sig, contested, interrupted, retried>>
        /\ job[h].req \in Requests
    BY <1>0, <1>11, <2>1
    DEF MarkExpired, Flip, CloseDeclined, Revoke, history, Working
  <2>3. status'[job[h].req] = x /\ \A q \in Requests : q # job[h].req => status'[q] = status[q]
    BY <1>0, <2>1, <2>2
  <2> QED
    BY <1>4, <1>6, <2>1, <2>2, <2>3 DEF GoesOn, Signing
<1>12. CASE Retry(h)
  <2>1. PICK p \in Attested : sig' = [sig EXCEPT ![job[h].sig].proof = p]
    BY <1>12 DEF Retry
  <2>2. /\ job[h].pc = "attest" /\ job[h].sig \in Signatures /\ End(h)
        /\ UNCHANGED <<status, slot, contested, interrupted, retried>>
    BY <1>0, <1>12 DEF Working, Retry, history
  <2>3. \A g \in Signatures : /\ sig'[g].slot = sig[g].slot
                              /\ g # job[h].sig => sig'[g] = sig[g]
    <3> SUFFICES ASSUME NEW g \in Signatures
                 PROVE  sig'[g].slot = sig[g].slot /\ (g # job[h].sig => sig'[g] = sig[g])
      OBVIOUS
    <3>1. sig[g] \in Signature
      BY <1>0
    <3>2. IF g = job[h].sig THEN sig'[g] = [sig[g] EXCEPT !.proof = p]
          ELSE sig'[g] = sig[g]
      BY <1>0, <2>1, <2>2
    <3> QED
      BY <3>1, <3>2 DEF Signature
  <2> QED
    BY <1>4, <1>6, <2>2, <2>3 DEF GoesOn
<1>13. CASE Abort(h)
  <2>1. /\ job[h].pc # "idle" /\ End(h)
        /\ interrupted' = interrupted \cup ({job[h].req} \ {None})
        /\ UNCHANGED <<status, slot, sig, contested, retried>>
    BY <1>13 DEF Abort
  <2>2. job[h].pc \in {"mark", "count", "flip"} => job[h].req \in interrupted'
    BY <1>0, <2>1 DEF Working
  <2> QED
    BY <1>4, <1>6, <2>1, <2>2 DEF GoesOn
<1>14. CASE \E g \in Signatures : StartRetry(h, g)
  BY <1>14
<1> QED
  BY <1>1, <1>2, <1>3, <1>7, <1>8, <1>9, <1>10, <1>11, <1>12, <1>13, <1>14
  DEF HandlerStep

-----------------------------------------------------------------------------
\* A call that starts keeps the order: it is contested, or fits in.
LEMMA StartInOrder ==
  ASSUME Inv, InOrder, NEW h \in Handlers, NEW q \in Requests, Starts(h, q)
  PROVE  InOrder'
<1> USE NoneIsNoValue
<1>1. PICK s \in Slots \cup {None}, a \in Users \cup {None},
           pc \in {"create", "refuse", "expire", "revoke"} :
         /\ Begin(h, q, s, a, pc)
         /\ pc = "create" => s \in Slots /\ ~slot[s].signed
  BY DEF Starts
<1>2. /\ job[h].pc = "idle" /\ job[h].req = None /\ job[h].sig = None
      /\ job'[h] = [pc |-> pc, actor |-> a, slot |-> s, req |-> q, sig |-> None]
      /\ \A i \in Handlers \ {h} : job'[i] = job[i]
      /\ contested' = IF Conflicting(q, s, pc) # {} THEN contested \cup {q}
                      ELSE contested
      /\ status[q] \in {"PENDING", "EXPIRED"}
      /\ UNCHANGED <<status, slot, sig, interrupted, retried>>
  BY <1>1 DEF Starts, Begin, InOrder, Tidy, Inv, TypeOK
<1>3. /\ job'[h].pc = pc /\ job'[h].slot = s /\ job'[h].req = q
      /\ job'[h].sig = None
  BY <1>2
<1>4. ASSUME NEW i \in Handlers PROVE Tidy(i)'
  BY <1>2, <1>3 DEF InOrder, Tidy
<1>5. ASSUME NEW g \in Signatures PROVE Rows(g)' /\ Retries(g)'
  BY <1>2, <1>3 DEF InOrder, Rows, Retries
<1>6. ASSUME NEW r \in Requests, r \notin contested',
             NEW i \in Handlers, job'[i].req = r
      PROVE  /\ Fresh(i)'
             /\ \A k \in Handlers \ {i} : job'[k].req = r => Apart(i, k)'
  <2>1. r \notin contested /\ Peaceful(r)
    BY <1>2, <1>6 DEF InOrder
  <2>2. ASSUME r = q, NEW k \in Handlers, job[k].req = q
        PROVE  pc = "create" /\ job[k].pc \in Signing /\ job[k].slot # s
    <3>1. Conflicting(q, s, pc) = {}
      BY <1>2, <1>6, <2>2
    <3> QED
      BY <2>2, <3>1 DEF Conflicting
  <2>3. CASE i = h
    <3>1. r = q
      BY <1>3, <1>6, <2>3
    <3>2. Fresh(i)'
      BY <1>1, <1>2, <1>3, <2>3 DEF Fresh
    <3>3. ASSUME NEW k \in Handlers \ {i}, job'[k].req = r
          PROVE  Apart(i, k)'
      <4>1. job'[k] = job[k] /\ job[k].req = q
        BY <1>2, <2>3, <3>1, <3>3
      <4> QED
        BY <1>3, <2>2, <2>3, <3>1, <4>1 DEF Apart, Signing
    <3> QED
      BY <3>2, <3>3
  <2>4. CASE i # h
    <3>1. job'[i] = job[i] /\ job[i].req = r
      BY <1>2, <1>6, <2>4
    <3>2. Fresh(i)'
      BY <1>2, <2>1, <3>1 DEF Peaceful, Fresh
    <3>3. ASSUME NEW k \in Handlers \ {i}, job'[k].req = r
          PROVE  Apart(i, k)'
      <4>1. CASE k = h
        BY <1>3, <2>2, <3>1, <3>3, <4>1 DEF Apart, Signing
      <4>2. CASE k # h
        BY <1>2, <2>1, <3>1, <3>3, <4>2 DEF Peaceful, Apart
      <4> QED
        BY <4>1, <4>2
    <3> QED
      BY <3>2, <3>3
  <2> QED
    BY <2>3, <2>4
<1>7. ASSUME NEW r \in Requests PROVE Peaceful(r)'
  BY <1>6 DEF Peaceful
<1>8. ASSUME NEW r \in Requests PROVE Awaited(r)'
  <2>1. \A i \in Handlers : job[i].pc \in {"count", "flip"} => job'[i] = job[i]
    BY <1>2
  <2> QED
    BY <1>2, <2>1 DEF InOrder, Awaited
<1>9. ASSUME NEW t \in Slots PROVE Single(t)'
  <2>1. \A i \in Handlers : job[i].pc = "mark" => job'[i] = job[i]
    BY <1>2
  <2>2. Marking(t) => Marking(t)'
    BY <2>1 DEF Marking
  <2> QED
    BY <1>2, <2>2 DEF InOrder, Single
<1> QED
  BY <1>4, <1>5, <1>7, <1>8, <1>9 DEF InOrder

\* Signing again after a call that was cut short keeps the order.
LEMMA RetryInOrder ==
  ASSUME Inv, InOrder, NEW h \in Handlers, NEW x \in Signatures, StartRetry(h, x)
  PROVE  InOrder'
<1> USE NoneIsNoValue
<1>1. /\ job[h].pc = "idle" /\ NeedsProof(x)
      /\ job'[h] = [Idle EXCEPT !.pc = "attest", !.sig = x]
      /\ \A i \in Handlers \ {h} : job'[i] = job[i]
      /\ retried' = IF \E i \in Handlers : job[i].sig = x THEN retried \cup {x}
                    ELSE retried
      /\ UNCHANGED <<status, slot, sig, contested, interrupted>>
  BY DEF StartRetry, Inv, TypeOK
<1>2. job'[h].pc = "attest" /\ job'[h].sig = x /\ job'[h].req = None
  BY <1>1 DEF Idle
<1>3. ASSUME NEW i \in Handlers PROVE Tidy(i)'
  <2>1. CASE i = h
    BY <1>1, <1>2, <2>1 DEF Tidy, NeedsProof
  <2>2. CASE i # h
    BY <1>1, <2>2 DEF InOrder, Tidy
  <2> QED
    BY <2>1, <2>2
<1>4. ASSUME NEW g \in Signatures PROVE Rows(g)' /\ Retries(g)'
  <2>1. Rows(g)'
    BY <1>1 DEF InOrder, Rows
  <2>2. CASE g = x
    BY <1>1, <1>2, <2>1, <2>2 DEF Retries, NeedsProof
  <2>3. CASE g # x
    <3>1. \A i \in Handlers : job'[i].sig = g => job[i].sig = g
      BY <1>1, <1>2, <2>3
    <3>2. g \notin retried' => g \notin retried
      BY <1>1
    <3>3. Retries(g) /\ sig' = sig
      BY <1>1 DEF InOrder
    <3> QED
      BY <2>1, <3>1, <3>2, <3>3 DEF Retries
  <2> QED
    BY <2>2, <2>3
<1>5. ASSUME NEW r \in Requests PROVE Peaceful(r)'
  <2>1. \A i \in Handlers : job'[i].req = r => i # h /\ job'[i] = job[i]
    BY <1>1, <1>2
  <2>2. \A i \in Handlers : i # h /\ Fresh(i) => Fresh(i)'
    BY <1>1 DEF Fresh
  <2>3. \A i, k \in Handlers : i # h /\ k # h /\ Apart(i, k) => Apart(i, k)'
    BY <1>1 DEF Apart
  <2> QED
    BY <1>1, <2>1, <2>2, <2>3 DEF InOrder, Peaceful
<1>6. ASSUME NEW r \in Requests PROVE Awaited(r)'
  <2>1. \A i \in Handlers : job[i].pc \in {"count", "flip"} => job'[i] = job[i]
    BY <1>1
  <2> QED
    BY <1>1, <2>1 DEF InOrder, Awaited
<1>7. ASSUME NEW t \in Slots PROVE Single(t)'
  <2>1. \A i \in Handlers : job[i].pc = "mark" => job'[i] = job[i]
    BY <1>1
  <2>2. Marking(t) => Marking(t)'
    BY <2>1 DEF Marking
  <2> QED
    BY <1>1, <2>2 DEF InOrder, Single
<1> QED
  BY <1>3, <1>4, <1>5, <1>6, <1>7 DEF InOrder

\* A new request, with its slots.
LEMMA CreateInOrder ==
  ASSUME Inv, InOrder, NEW q \in Requests, NEW W \in SUBSET Slots,
         NEW F \in SUBSET Slots, NEW f \in [Slots -> Users],
         CreateRequest(q, W, f, F)
  PROVE  InOrder'
<1> USE NoneIsNoValue
<1>1. /\ status[q] = "none" /\ W # {} /\ \A s \in W : slot[s].request = None
      /\ status'[q] = "PENDING" /\ \A r \in Requests \ {q} : status'[r] = status[r]
      /\ \A s \in Slots \ W : slot'[s] = slot[s]
      /\ \A s \in W : slot'[s].request = q /\ ~slot'[s].signed
      /\ UNCHANGED <<sig, job, contested, interrupted, retried>>
  BY DEF CreateRequest, FreeSlot, history, Inv, TypeOK
<1>2. ASSUME NEW i \in Handlers PROVE Tidy(i)'
  BY <1>1 DEF InOrder, Tidy
<1>3. ASSUME NEW g \in Signatures PROVE Rows(g)' /\ Retries(g)'
  BY <1>1 DEF InOrder, Rows, Retries
<1>4. ASSUME NEW r \in Requests, r \notin contested', NEW i \in Handlers,
             job'[i].req = r
      PROVE  Fresh(i)' /\ \A k \in Handlers \ {i} : job'[k].req = r => Apart(i, k)'
  <2>1. Fresh(i) /\ \A k \in Handlers \ {i} : job[k].req = r => Apart(i, k)
    BY <1>1, <1>4 DEF InOrder, Peaceful
  <2>2. r # q
    BY <1>1, <1>4, <2>1 DEF Fresh
  <2>3. job[i].pc \in {"create", "mark"} => job[i].slot \in Slots \ W
    BY <1>1, <1>4 DEF Inv, Working, OnSlot
  <2>4. Fresh(i)'
    BY <1>1, <1>4, <2>1, <2>2, <2>3 DEF Fresh
  <2> QED
    BY <1>1, <2>1, <2>4 DEF Apart
<1>5. ASSUME NEW r \in Requests PROVE Peaceful(r)'
  BY <1>4 DEF Peaceful
<1>6. ASSUME NEW r \in Requests PROVE Awaited(r)'
  <2>1. CASE r = q
    BY <1>1, <2>1 DEF Awaited
  <2>2. CASE r # q
    BY <1>1, <2>2 DEF InOrder, Awaited
  <2> QED
    BY <2>1, <2>2
<1>7. ASSUME NEW t \in Slots PROVE Single(t)'
  <2>1. CASE t \in W
    <3>1. \A g \in Signatures : sig'[g].slot # t
      BY <1>1, <2>1 DEF InOrder, Rows
    <3> QED
      BY <3>1 DEF Single
  <2>2. CASE t \notin W
    <3>1. Marking(t) => Marking(t)'
      BY <1>1 DEF Marking
    <3> QED
      BY <1>1, <2>2, <3>1 DEF InOrder, Single
  <2> QED
    BY <2>1, <2>2
<1> QED
  BY <1>2, <1>3, <1>5, <1>6, <1>7 DEF InOrder

\* A step of a call that goes on.
LEMMA WorkInOrder ==
  ASSUME Inv, InOrder, NEW h \in Handlers, GoesOn(h)
  PROVE  InOrder'
<1> USE NoneIsNoValue
<1> DEFINE j == job[h]
           k == job'[h]
<1>0. /\ Working(h) /\ Tidy(h)
      /\ Idle.pc = "idle" /\ Idle.req = None /\ Idle.sig = None
      /\ j.pc # "idle"
      /\ \A i \in Handlers \ {h} : job'[i] = job[i]
      /\ contested' = contested /\ retried' = retried
      /\ interrupted \subseteq interrupted'
  BY DEF Inv, InOrder, GoesOn, Idle
<1>1. \/ k = Idle
      \/ /\ k.req = j.req /\ k.slot = j.slot /\ k.sig = j.sig
         /\ k.pc \in Signing <=> j.pc \in Signing
         /\ <<j.pc, k.pc>> \in {<<"create", "mark">>, <<"mark", "count">>,
                                <<"count", "flip">>, <<"refuse", "close">>}
  BY DEF GoesOn
<1>2. \A q \in Requests :
         \/ status'[q] = status[q]
         \/ /\ q = j.req /\ k = Idle
            /\ \/ j.pc = "flip" /\ status'[q] = "SIGNED"
               \/ j.pc \notin Signing /\ status'[q] # "PENDING"
  BY DEF GoesOn
<1>3. \A s \in Slots :
         /\ slot'[s].request = slot[s].request
         /\ \/ slot'[s].signed = slot[s].signed
            \/ s = j.slot /\ k.pc = "count" /\ slot'[s].signed
  BY DEF GoesOn
<1>4. \A g \in Signatures :
         /\ \/ sig'[g].slot = sig[g].slot
            \/ sig[g].slot = None /\ sig'[g].slot = j.slot /\ k.pc = "mark"
         /\ \/ sig'[g].proof = sig[g].proof
            \/ sig[g].slot = None /\ sig'[g].slot = j.slot /\ k.pc = "mark"
            \/ g = j.sig /\ j.pc = "attest" /\ k = Idle
  BY DEF GoesOn
<1>5. k.pc = "mark" => /\ UNCHANGED slot
                       /\ \E x \in Signatures : \A g \in Signatures \ {x} :
                             sig'[g] = sig[g]
  BY DEF GoesOn
<1>6. j.pc = "mark" => \/ k.pc = "count" /\ slot'[j.slot].signed
                       \/ j.req \in interrupted'
  BY DEF GoesOn
<1>7. j.pc \in {"count", "flip"} /\ k.pc # "flip" =>
         \/ j.req \in interrupted'
         \/ status'[j.req] = "SIGNED"
         \/ j.pc = "count" /\ ~AllSigned(j.req)
  BY DEF GoesOn
<1> HIDE DEF j, k
\* The slot of a handler on a slot is its request's.
<1>8. ASSUME NEW i \in Handlers, job[i].pc \in OnSlot
      PROVE  /\ job[i].slot \in Slots /\ job[i].req \in Requests
             /\ slot[job[i].slot].request = job[i].req
  BY <1>8 DEF Inv, Working, OnSlot
<1>9. k.pc = "mark" => j.pc = "create" /\ j.slot \in Slots
                       /\ slot[j.slot].request = j.req /\ j.req \in Requests
  BY <1>0, <1>1, <1>8 DEF OnSlot, j
<1>10. ASSUME NEW i \in Handlers PROVE Tidy(i)'
  <2>1. CASE i = h
    <3>1. k.pc # "attest" /\ (k.pc = "idle" => k.req = None)
      BY <1>0, <1>1
    <3>2. k.sig = None
      BY <1>0, <1>1 DEF Tidy, j
    <3> QED
      BY <2>1, <3>1, <3>2 DEF Tidy, k
  <2>2. CASE i # h
    <3>1. Tidy(i) /\ job'[i] = job[i]
      BY <1>0, <2>2 DEF InOrder
    <3>2. job[i].pc = "attest" => job[i].sig \in Signatures
      BY DEF Inv, Working
    <3>3. job[i].pc = "attest" => sig'[job[i].sig].slot # None
      BY <1>4, <1>9, <3>1, <3>2 DEF Tidy
    <3> QED
      BY <3>1, <3>3 DEF Tidy
  <2> QED
    BY <2>1, <2>2
<1>11. ASSUME NEW g \in Signatures PROVE Rows(g)'
  <2>0. Rows(g)
    BY DEF InOrder
  <2>1. CASE sig'[g].slot = sig[g].slot
    <3>1. CASE sig[g].slot = None
      <4>1. j.sig # g \/ j.pc # "attest"
        BY <1>0, <3>1 DEF Tidy, j
      <4>2. ~(sig'[g].slot = j.slot /\ k.pc = "mark")
        BY <1>9, <2>1, <3>1
      <4> QED
        BY <1>4, <2>0, <2>1, <3>1, <4>1, <4>2 DEF Rows
    <3>2. CASE sig[g].slot # None
      BY <1>3, <2>0, <2>1, <3>2 DEF Rows
    <3> QED
      BY <3>1, <3>2
  <2>2. CASE sig'[g].slot = j.slot /\ k.pc = "mark"
    BY <1>3, <1>9, <2>2 DEF Rows
  <2> QED
    BY <1>4, <2>1, <2>2
<1>12. ASSUME NEW g \in Signatures PROVE Retries(g)'
  <2> SUFFICES ASSUME g \notin retried, NEW i \in Handlers, job'[i].sig = g
               PROVE  /\ sig'[g].proof # "VERIFIED"
                      /\ \A y \in Handlers : job'[y].sig = g => y = i
    BY <1>0 DEF Retries
  <2>1. k.sig = None
    BY <1>0, <1>1 DEF Tidy, j
  <2>2. \A y \in Handlers : job'[y].sig = g => y # h /\ job[y].sig = g
    BY <1>0, <2>1 DEF k
  <2>3. sig[g].proof # "VERIFIED" /\ \A y \in Handlers : job[y].sig = g => y = i
    BY <2>2 DEF InOrder, Retries
  <2>4. sig[g].slot # None
    BY <2>2 DEF InOrder, Tidy
  <2>5. sig'[g].proof = sig[g].proof
    BY <1>4, <2>2, <2>3, <2>4 DEF j
  <2> QED
    BY <2>2, <2>3, <2>5
<1>13. ASSUME NEW q \in Requests, q \notin contested, NEW i \in Handlers,
              job'[i].req = q
       PROVE  Fresh(i)' /\ \A y \in Handlers \ {i} : job'[y].req = q => Apart(i, y)'
  <2>1. ASSUME NEW y \in Handlers, job'[y].req = q
        PROVE  /\ job[y].req = q /\ job'[y].slot = job[y].slot
               /\ job'[y].pc \in Signing <=> job[y].pc \in Signing
    <3>1. CASE y = h
      BY <1>0, <1>1, <2>1, <3>1 DEF j, k
    <3>2. CASE y # h
      BY <1>0, <2>1, <3>2
    <3> QED
      BY <3>1, <3>2
  <2>2. Fresh(i) /\ \A y \in Handlers \ {i} : job[y].req = q => Apart(i, y)
    BY <1>13, <2>1 DEF InOrder, Peaceful
  <2>3. \A y \in Handlers \ {i} : job'[y].req = q => Apart(i, y)'
    BY <1>13, <2>1, <2>2 DEF Apart
  <2>4. CASE i = h
    <3>1. k # Idle /\ j.req = q
      BY <1>0, <1>13, <2>1, <2>4 DEF j, k
    <3>2. status'[q] = status[q]
      BY <1>2, <3>1
    <3>3. /\ k.pc \in {"count", "flip"} \/ status[q] \in {"PENDING", "EXPIRED"}
          /\ status[q] \in {"PENDING", "EXPIRED", "SIGNED"}
      BY <1>1, <2>1, <2>2, <2>4, <3>1, <1>13 DEF Fresh, j
    <3>4. k.pc \in {"create", "mark"} => ~slot'[k.slot].signed
      BY <1>1, <1>5, <2>2, <2>4, <3>1 DEF Fresh, j
    <3>5. job'[h].req = q
      BY <1>13, <2>4
    <3>6. \/ status'[q] \in {"PENDING", "EXPIRED"}
          \/ job'[h].pc \in {"count", "flip"} /\ status'[q] = "SIGNED"
      BY <3>2, <3>3 DEF k
    <3>7. job'[h].pc \in {"create", "mark"} => ~slot'[job'[h].slot].signed
      BY <3>4 DEF k
    <3>8. Fresh(i)'
      BY <2>4, <3>5, <3>6, <3>7 DEF Fresh
    <3> QED
      BY <2>3, <3>8
  <2>5. CASE i # h
    <3>1. job'[i] = job[i] /\ job[i].req = q
      BY <1>0, <1>13, <2>5
    <3>2. j.req = q => Apart(i, h)
      BY <2>2, <2>5 DEF j
    <3>3. ASSUME job[i].pc \in {"create", "mark"}
          PROVE  job[i].slot \in Slots /\ slot[job[i].slot].request = q
                 /\ ~slot[job[i].slot].signed
      BY <1>8, <2>2, <3>1, <3>3 DEF OnSlot, Fresh
    \* Whoever flips has seen every slot of the request signed.
    <3>4. \/ status'[q] = status[q]
          \/ /\ status'[q] = "SIGNED"
             /\ job[i].pc \in {"count", "flip"}
      <4>a. CASE status'[q] = status[q]
        BY <4>a
      <4>b. CASE status'[q] # status[q]
        <5>1. q = j.req /\ Apart(i, h)
          BY <1>2, <3>2, <4>b
        <5>2. j.pc = "flip" /\ status'[q] = "SIGNED"
          BY <1>2, <5>1, <4>b DEF Apart, j
        <5>3. \A t \in Slots : slot[t].request = q => slot[t].signed
          BY <1>0, <5>1, <5>2 DEF Working, j
        <5>4. job[i].pc \notin {"create", "mark"}
          BY <3>3, <5>3
        <5> QED
          BY <5>1, <5>2, <5>4 DEF Apart, Signing
      <4> QED
        BY <4>a, <4>b
    <3>5. ASSUME job[i].pc \in {"create", "mark"}
          PROVE  ~slot'[job[i].slot].signed
      <4>1. CASE k.pc = "count" /\ job[i].slot = j.slot
        <5>1. j.pc \in OnSlot
          BY <1>0, <1>1, <4>1 DEF OnSlot
        <5>2. j.req = q
          BY <1>8, <3>3, <3>5, <4>1, <5>1 DEF j
        <5> QED
          BY <3>2, <4>1, <5>2 DEF Apart, j
      <4> QED
        BY <1>3, <3>3, <3>5, <4>1
    <3>6. \/ status'[q] \in {"PENDING", "EXPIRED"}
          \/ job[i].pc \in {"count", "flip"} /\ status'[q] = "SIGNED"
      BY <2>2, <3>1, <3>4 DEF Fresh
    <3>7. Fresh(i)'
      BY <3>1, <3>5, <3>6 DEF Fresh
    <3> QED
      BY <2>3, <3>7
  <2> QED
    BY <2>4, <2>5
<1>14. ASSUME NEW q \in Requests PROVE Peaceful(q)'
  BY <1>0, <1>13 DEF Peaceful
<1>15. ASSUME NEW q \in Requests PROVE Awaited(q)'
  <2> SUFFICES ASSUME q \notin interrupted', status'[q] = "PENDING",
                      \A s \in Slots : slot'[s].request = q => slot'[s].signed
               PROVE  \E i \in Handlers : job'[i].req = q
                                          /\ job'[i].pc \in {"count", "flip"}
    BY DEF Awaited
  <2>1. q \notin interrupted /\ status[q] = "PENDING"
    BY <1>0, <1>2
  <2>2. CASE \E s \in Slots : slot[s].request = q /\ ~slot[s].signed
    <3>1. PICK s \in Slots : slot[s].request = q /\ ~slot[s].signed
      BY <2>2
    <3>2. s = j.slot /\ k.pc = "count"
      BY <1>3, <3>1
    <3>3. k.req = j.req /\ j.pc \in OnSlot
      BY <1>0, <1>1, <3>2 DEF OnSlot
    <3>4. k.req = q
      BY <1>8, <3>1, <3>2, <3>3 DEF j
    <3> QED
      BY <3>2, <3>4 DEF k
  <2>3. CASE \E i \in Handlers : job[i].req = q /\ job[i].pc \in {"count", "flip"}
    <3>1. PICK i \in Handlers : job[i].req = q /\ job[i].pc \in {"count", "flip"}
      BY <2>3
    <3>2. CASE i # h
      BY <1>0, <3>1, <3>2
    <3>3. CASE i = h
      <4>0. j.req = q /\ j.pc \in {"count", "flip"}
        BY <3>1, <3>3 DEF j
      <4>1. CASE k.pc = "flip"
        <5>1. k.req = q
          BY <1>0, <1>1, <4>0, <4>1
        <5> QED
          BY <4>1, <5>1 DEF k
      <4>2. CASE k.pc # "flip"
        <5>1. ~AllSigned(q) /\ j.pc = "count"
          BY <1>7, <4>0, <4>2
        <5>2. PICK s \in Slots : slot[s].request = q /\ ~slot[s].signed
          BY <5>1 DEF AllSigned, SlotsOf
        <5> QED
          BY <2>2, <5>2
      <4> QED
        BY <4>1, <4>2
    <3> QED
      BY <3>2, <3>3
  <2> QED
    BY <2>1, <2>2, <2>3 DEF InOrder, Awaited
<1>16. ASSUME NEW s \in Slots PROVE Single(s)'
  <2>0. PICK q \in Requests \cup {None} : slot[s].request = q
    BY DEF Inv, TypeOK, Slot
  <2>1. slot'[s].request = q
    BY <1>3, <2>0
  <2> SUFFICES ASSUME q \notin contested, q \notin interrupted',
                      NEW g \in Signatures, sig'[g].slot = s
               PROVE  /\ slot'[s].signed \/ Marking(s)'
                      /\ \A x \in Signatures : sig'[x].slot = s => x = g
    BY <1>0, <2>1 DEF Single
  <2>2. ASSUME NEW x \in Signatures, sig[x].slot = s
        PROVE  /\ slot[s].signed \/ Marking(s)
               /\ \A y \in Signatures : sig[y].slot = s => y = x
    BY <1>0, <2>0, <2>2 DEF InOrder, Single
  <2>3. Marking(s) => slot'[s].signed \/ Marking(s)'
    <3> SUFFICES ASSUME NEW i \in Handlers, job[i].slot = s, job[i].pc = "mark"
                 PROVE  slot'[s].signed \/ Marking(s)'
      BY DEF Marking
    <3>1. CASE i # h
      BY <1>0, <3>1 DEF Marking
    <3>2. CASE i = h
      <4>1. j.req = q /\ j.pc = "mark" /\ j.slot = s
        BY <1>8, <2>0, <3>2 DEF OnSlot, j
      <4> QED
        BY <1>6, <4>1
    <3> QED
      BY <3>1, <3>2
  <2>4. CASE k.pc = "mark" /\ j.slot = s
    <3>1. /\ j.pc = "create" /\ j.req = q /\ q \in Requests
      BY <1>9, <2>0, <2>4
    <3>2. Fresh(h) /\ \A i \in Handlers \ {h} : job[i].req = q => Apart(h, i)
      BY <3>1 DEF InOrder, Peaceful, j
    <3>3. ~slot[s].signed
      BY <2>4, <3>1, <3>2 DEF Fresh, j
    <3>4. ~Marking(s)
      <4> SUFFICES ASSUME NEW i \in Handlers, job[i].slot = s, job[i].pc = "mark"
                   PROVE  FALSE
        BY DEF Marking
      <4>1. i # h
        BY <3>1 DEF j
      <4>2. job[i].req = q
        BY <1>8, <2>0 DEF OnSlot
      <4> QED
        BY <2>4, <3>2, <4>1, <4>2 DEF Apart, j
    <3>5. \A x \in Signatures : sig[x].slot # s
      BY <2>2, <3>3, <3>4
    <3>6. PICK z \in Signatures : \A x \in Signatures \ {z} : sig'[x] = sig[x]
      BY <1>5, <2>4
    <3>7. \A x \in Signatures : sig'[x].slot = s => x = z
      BY <3>5, <3>6
    <3>8. Marking(s)'
      <4>1. k.slot = s
        BY <1>0, <1>1, <2>4
      <4> QED
        BY <2>4, <4>1 DEF Marking, k
    <3> QED
      BY <3>7, <3>8
  <2>5. CASE ~(k.pc = "mark" /\ j.slot = s)
    <3>1. \A x \in Signatures : sig'[x].slot = s => sig[x].slot = s
      BY <1>4, <2>5
    <3> QED
      BY <1>3, <2>2, <2>3, <3>1
  <2> QED
    BY <2>4, <2>5
<1> QED
  BY <1>10, <1>11, <1>12, <1>14, <1>15, <1>16 DEF InOrder

\* Every step keeps the order.
LEMMA StepInOrder == Inv /\ InOrder /\ [Next]_vars => InOrder'
<1> SUFFICES ASSUME Inv, InOrder, [Next]_vars PROVE InOrder'
  OBVIOUS
<1>1. ASSUME NEW h \in Handlers, HandlerStep(h) PROVE InOrder'
  BY <1>1, CallSteps, StartInOrder, RetryInOrder, WorkInOrder
<1>2. ASSUME NEW q \in Requests, NEW W \in SUBSET Slots, NEW F \in SUBSET Slots,
             NEW f \in [Slots -> Users], CreateRequest(q, W, f, F)
      PROVE  InOrder'
  BY <1>2, CreateInOrder
<1>3. CASE (\E q \in Requests : DeadlinePasses(q)) \/ UNCHANGED vars
  BY <1>3 DEF DeadlinePasses, vars, history, InOrder, Tidy, Rows, Retries, Peaceful,
              Fresh, Apart, Awaited, Single, Marking
<1> QED
  BY <1>1, <1>2, <1>3 DEF Next

(* Slots, signatures and requests are in order in every state the signing  *)
(* service can get into.                                                   *)
THEOREM Orderly == Spec => []InOrder
BY InitInOrder, StepInOrder, Invariance, PTL DEF Spec

(* Of two signers who finish at once one flips the request, and no slot    *)
(* has two signatures, unless calls that conflict overlapped or one was    *)
(* interrupted (sign, recomputeStatus) - for any number of requests,       *)
(* slots and calls.                                                        *)
THEOREM SlotsOnce == Spec => []SlotsAreSignedOnce
<1>1. Inv /\ InOrder => LastSignerFlips
  BY DEF InOrder, Awaited, LastSignerFlips, SlotsOf
<1>2. Inv /\ InOrder => OneSignaturePerSlot
  BY DEF InOrder, Single, Rows, OneSignaturePerSlot
<1> QED
  BY <1>1, <1>2, Invariance, Orderly, PTL DEF SlotsAreSignedOnce

(* Signed, declined and revoked requests stay so unless contested, and a   *)
(* proof once validated is not lost to a retry unless two overlapped       *)
(* (recomputeStatus, decline, revoke, reattest).                           *)
THEOREM FinalSignings == Spec => SigningIsFinal
<1> DEFINE FinalStep ==
      /\ \A q \in Requests \ contested :
            status[q] \in {"SIGNED", "DECLINED", "REVOKED"} => status'[q] = status[q]
      /\ \A g \in Signatures \ retried :
            sig[g].proof = "VERIFIED" => sig'[g].proof = "VERIFIED"
<1>1. ASSUME Inv, InOrder, NEW h \in Handlers, HandlerStep(h) PROVE FinalStep
  <2>1. CASE GoesOn(h)
    <3>1. ASSUME NEW q \in Requests \ contested,
                 status[q] \in {"SIGNED", "DECLINED", "REVOKED"}
          PROVE  status'[q] = status[q]
      <4> SUFFICES ASSUME status'[q] # status[q] PROVE FALSE
        OBVIOUS
      <4>1. /\ q = job[h].req
            /\ \/ job[h].pc = "flip" /\ status'[q] = "SIGNED"
               \/ job[h].pc \notin Signing
        BY <2>1 DEF GoesOn
      <4>2. Fresh(h)
        BY <1>1, <4>1 DEF InOrder, Peaceful
      <4> QED
        BY <3>1, <4>1, <4>2 DEF Fresh, Signing
    <3>2. ASSUME NEW g \in Signatures \ retried, sig[g].proof = "VERIFIED"
          PROVE  sig'[g].proof = "VERIFIED"
      <4>1. /\ \/ sig'[g].proof = sig[g].proof
               \/ sig[g].slot = None
               \/ g = job[h].sig
        BY <2>1 DEF GoesOn
      <4>2. sig[g].slot # None /\ g # job[h].sig
        BY <1>1, <3>2 DEF InOrder, Rows, Retries
      <4> QED
        BY <3>2, <4>1, <4>2
    <3> QED
      BY <3>1, <3>2
  <2>2. CASE (\E q \in Requests : Starts(h, q)) \/ \E g \in Signatures : StartRetry(h, g)
    BY <2>2 DEF Starts, StartRetry
  <2> QED
    BY <1>1, <2>1, <2>2, CallSteps
<1>2. ASSUME Inv, NEW q \in Requests, NEW W \in SUBSET Slots, NEW F \in SUBSET Slots,
             NEW f \in [Slots -> Users], CreateRequest(q, W, f, F)
      PROVE  FinalStep
  BY <1>2 DEF CreateRequest, Inv, TypeOK
<1>3. ASSUME (\E q \in Requests : DeadlinePasses(q)) \/ UNCHANGED vars
      PROVE  FinalStep
  BY <1>3 DEF DeadlinePasses, vars
<1>4. Inv /\ InOrder /\ [Next]_vars => [FinalStep]_vars
  BY <1>1, <1>2, <1>3 DEF Next
<1> QED
  BY <1>4, Invariance, Orderly, PTL DEF Spec, SigningIsFinal

-----------------------------------------------------------------------------
(* Finite sets.                                                            *)

\* Finite sets and their sizes are in every part what they are here.
LEMMA SameSets ==
  ASSUME NEW Y
  PROVE  /\ R!IsFiniteSet(Y) = IsFiniteSet(Y)
         /\ E!IsFiniteSet(Y) = IsFiniteSet(Y)
         /\ D!IsFiniteSet(Y) = IsFiniteSet(Y)
         /\ B!IsFiniteSet(Y) = IsFiniteSet(Y)
         /\ R!Cardinality(Y) = Cardinality(Y)
         /\ E!Cardinality(Y) = Cardinality(Y)
         /\ M!Cardinality(Y) = Cardinality(Y)
         /\ B!Cardinality(Y) = Cardinality(Y)
         /\ S!Cardinality(Y) = Cardinality(Y)
<1>1. R!IsFiniteSet(Y) = IsFiniteSet(Y)
  BY DEF R!IsFiniteSet, IsFiniteSet
<1>2. E!IsFiniteSet(Y) = IsFiniteSet(Y)
  BY DEF E!IsFiniteSet, IsFiniteSet
<1>3. D!IsFiniteSet(Y) = IsFiniteSet(Y)
  BY DEF D!IsFiniteSet, IsFiniteSet
<1>4. B!IsFiniteSet(Y) = IsFiniteSet(Y)
  BY DEF B!IsFiniteSet, IsFiniteSet
<1>5. R!Cardinality(Y) = Cardinality(Y)
  BY DEF R!Cardinality, Cardinality
<1>6. E!Cardinality(Y) = Cardinality(Y)
  BY DEF E!Cardinality, Cardinality
<1>7. M!Cardinality(Y) = Cardinality(Y)
  BY DEF M!Cardinality, Cardinality
<1>8. B!Cardinality(Y) = Cardinality(Y)
  BY DEF B!Cardinality, Cardinality
<1>9. S!Cardinality(Y) = Cardinality(Y)
  BY DEF S!Cardinality, Cardinality
<1> QED
  BY <1>1, <1>2, <1>3, <1>4, <1>5, <1>6, <1>7, <1>8, <1>9

-----------------------------------------------------------------------------
(* Sums over finite sets.                                                  *)


Pick(s) == CHOOSE x \in s : TRUE

Adds(Sum, f, Y) ==
    Sum = [s \in SUBSET Y |-> IF s = {} THEN 0 ELSE f[Pick(s)] + Sum[s \ {Pick(s)}]]

\* Among sets of subsets of a finite set there is a least one.
LEMMA LeastSubset ==
  ASSUME NEW Y, IsFiniteSet(Y), NEW Minimal \in SUBSET SUBSET Y, Minimal # {}
  PROVE  \E s \in Minimal : \A t \in SUBSET s : t # s => t \notin Minimal
<1>1. Minimal \subseteq FiniteSubsetsOf(Y)
  BY FS_FiniteSubsetsOfFinite
<1>2. PICK s \in Minimal : \A t \in Minimal : <<t, s>> \notin StrictSubsetOrdering(Y)
  BY <1>1, FS_StrictSubsetOrderingWellFounded, WFMin
<1>3. ASSUME NEW t \in SUBSET s, t # s
      PROVE  t \notin Minimal
  <2> SUFFICES ASSUME t \in Minimal PROVE FALSE
    OBVIOUS
  <2>1. <<t, s>> \in StrictSubsetOrdering(Y)
    BY <1>3 DEF StrictSubsetOrdering
  <2> QED
    BY <1>2, <2>1
<1> QED
  BY <1>3

LEMMA PickIn == \A s : s # {} => Pick(s) \in s
BY DEF Pick

\* What adding up says of one subset.
LEMMA AddsAt ==
  ASSUME NEW Sum, NEW f, NEW Y, Adds(Sum, f, Y), NEW s \in SUBSET Y
  PROVE  /\ s = {} => Sum[s] = 0
         /\ s # {} => Sum[s] = f[Pick(s)] + Sum[s \ {Pick(s)}]
<1> DEFINE Body(u) == IF u = {} THEN 0 ELSE f[Pick(u)] + Sum[u \ {Pick(u)}]
<1>1. Sum = [u \in SUBSET Y |-> Body(u)]
  BY DEF Adds
<1> HIDE DEF Body
<1>2. Sum[s] = Body(s)
  BY <1>1
<1> QED
  BY <1>2 DEF Body

\* There is one way at most to add up.
LEMMA AddsOnce ==
  ASSUME NEW Sum, NEW Other, NEW f, NEW Y, IsFiniteSet(Y), Adds(Sum, f, Y), Adds(Other, f, Y)
  PROVE  Sum = Other
<1> DEFINE Minimal == {s \in SUBSET Y : Sum[s] # Other[s]}
<1>0. /\ Minimal \in SUBSET SUBSET Y
      /\ \A s \in SUBSET Y : s \in Minimal <=> Sum[s] # Other[s]
  OBVIOUS
<1> HIDE DEF Minimal
<1>1. CASE Minimal # {}
  <2>1. PICK s \in Minimal : \A t \in SUBSET s : t # s => t \notin Minimal
    BY <1>0, <1>1, LeastSubset
  <2>2. CASE s = {}
    BY <1>0, <2>1, <2>2, AddsAt
  <2>3. CASE s # {}
    <3>1. Pick(s) \in s
      BY <1>0, <2>3, PickIn
    <3>2. s \ {Pick(s)} \in SUBSET s /\ s \ {Pick(s)} # s /\ s \ {Pick(s)} \in SUBSET Y
      BY <1>0, <3>1
    <3>3. Sum[s \ {Pick(s)}] = Other[s \ {Pick(s)}]
      BY <1>0, <2>1, <3>2
    <3>4. Sum[s] # Other[s] /\ s \in SUBSET Y
      BY <1>0, <2>1
    <3>5. Sum[s] = f[Pick(s)] + Sum[s \ {Pick(s)}]
      BY <2>3, <3>4, AddsAt
    <3>6. Other[s] = f[Pick(s)] + Other[s \ {Pick(s)}]
      BY <2>3, <3>4, AddsAt
    <3> QED
      BY <3>3, <3>4, <3>5, <3>6
  <2> QED
    BY <1>0, <2>2, <2>3
<1>2. CASE Minimal = {}
  <2>1. \A s \in SUBSET Y : Sum[s] = Other[s]
    BY <1>0, <1>2
  <2>2. Sum = [s \in SUBSET Y |-> Sum[s]] /\ Other = [s \in SUBSET Y |-> Other[s]]
    BY <1>0 DEF Adds
  <2> QED
    BY <1>0, <2>1, <2>2
<1> QED
  BY <1>0, <1>1, <1>2

\* Adding up a set adds up its subsets.
LEMMA AddsSubset ==
  ASSUME NEW Sum, NEW f, NEW Y, Adds(Sum, f, Y), NEW Z \in SUBSET Y
  PROVE  Adds([s \in SUBSET Z |-> Sum[s]], f, Z)
<1>1. PICK Other : Other = [s \in SUBSET Z |-> Sum[s]]
  OBVIOUS
<1>2. ASSUME NEW s \in SUBSET Z
      PROVE  Other[s] = IF s = {} THEN 0 ELSE f[Pick(s)] + Other[s \ {Pick(s)}]
  <2>1. Other[s] = Sum[s] /\ Other[s \ {Pick(s)}] = Sum[s \ {Pick(s)}]
    BY <1>1
  <2> QED
    BY <2>1, AddsAt
<1>3. Other = [s \in SUBSET Z |-> Other[s]]
  BY <1>1
<1>4. Adds(Other, f, Z)
  BY <1>2, <1>3 DEF Adds
<1> QED
  BY <1>1, <1>4

\* A finite set can be added up.
LEMMA AddsExist ==
  ASSUME NEW f, NEW Y, IsFiniteSet(Y)
  PROVE  \E Sum : Adds(Sum, f, Y)
<1> DEFINE Minimal == {Z \in SUBSET Y : ~\E Sum : Adds(Sum, f, Z)}
<1>0. /\ Minimal \in SUBSET SUBSET Y
      /\ \A Z \in SUBSET Y : Z \in Minimal <=> ~\E Sum : Adds(Sum, f, Z)
  OBVIOUS
<1> HIDE DEF Minimal
<1>1. SUFFICES ASSUME Minimal # {} PROVE FALSE
  BY <1>0
<1>2. PICK Z \in Minimal : \A t \in SUBSET Z : t # Z => t \notin Minimal
  BY <1>0, <1>1, LeastSubset
<1> DEFINE For(s) == CHOOSE Other : Adds(Other, f, s)
<1>3. \A s \in SUBSET Z : s # Z => Adds(For(s), f, s)
  BY <1>0, <1>2
<1>4. \A s \in SUBSET Z : IsFiniteSet(s)
  BY <1>0, FS_Subset
<1>5. ASSUME NEW s \in SUBSET Z, NEW u \in SUBSET s, s # Z
      PROVE  For(s)[u] = For(u)[u]
  <2>1. Adds(For(s), f, s) /\ u # Z
    BY <1>3, <1>5
  <2>2. Adds([v \in SUBSET u |-> For(s)[v]], f, u)
    BY <1>0, <2>1, AddsSubset
  <2>3. Adds(For(u), f, u) /\ IsFiniteSet(u)
    BY <1>0, <1>3, <1>4, <2>1
  <2>4. [v \in SUBSET u |-> For(s)[v]] = For(u)
    BY <1>0, <2>2, <2>3, AddsOnce
  <2>5. [v \in SUBSET u |-> For(s)[v]][u] = For(s)[u]
    OBVIOUS
  <2> QED
    BY <1>0, <2>4, <2>5
<1> DEFINE Value(s) == IF s = Z THEN IF s = {} THEN 0
                                     ELSE f[Pick(s)] + For(s \ {Pick(s)})[s \ {Pick(s)}]
                       ELSE For(s)[s]
<1>6. PICK Sum : Sum = [s \in SUBSET Z |-> Value(s)]
  OBVIOUS
<1>7. \A s \in SUBSET Z : s # Z => Sum[s] = For(s)[s]
  BY <1>0, <1>6
<1>8. ASSUME NEW s \in SUBSET Z
      PROVE  Sum[s] = IF s = {} THEN 0 ELSE f[Pick(s)] + Sum[s \ {Pick(s)}]
  <2>1. s # {} => /\ Pick(s) \in s
                  /\ s \ {Pick(s)} \in SUBSET Z /\ s \ {Pick(s)} # Z
                  /\ s \ {Pick(s)} \in SUBSET s
    BY <1>0, PickIn
  <2>2. s # {} => Sum[s \ {Pick(s)}] = For(s \ {Pick(s)})[s \ {Pick(s)}]
    BY <1>0, <1>7, <2>1
  <2>3. CASE s = Z
    <3>1. Sum[s] = IF s = {} THEN 0
                 ELSE f[Pick(s)] + For(s \ {Pick(s)})[s \ {Pick(s)}]
      BY <1>0, <1>6, <2>3
    <3> QED
      BY <1>0, <2>2, <3>1
  <2>4. CASE s # Z
    <3>1. Sum[s] = For(s)[s]
      BY <1>0, <1>7, <2>4
    <3>2. Adds(For(s), f, s)
      BY <1>0, <1>3, <2>4
    <3>3. CASE s = {}
      BY <1>0, <3>1, <3>2, <3>3, AddsAt
    <3>4. CASE s # {}
      <4>1. For(s)[s] = f[Pick(s)] + For(s)[s \ {Pick(s)}]
        BY <1>0, <3>2, <3>4, AddsAt
      <4>2. For(s)[s \ {Pick(s)}] = For(s \ {Pick(s)})[s \ {Pick(s)}]
        BY <1>0, <1>5, <2>1, <2>4, <3>4
      <4> QED
        BY <1>0, <2>2, <3>1, <3>4, <4>1, <4>2
    <3> QED
      BY <1>0, <3>3, <3>4
  <2> QED
    BY <1>0, <2>3, <2>4
<1>9. Sum = [s \in SUBSET Z |-> Sum[s]]
  BY <1>0, <1>6
<1>10. Adds(Sum, f, Z)
  BY <1>0, <1>8, <1>9 DEF Adds
<1> QED
  BY <1>0, <1>2, <1>10

\* The sum over a finite set is what adding up gives for it.
LEMMA SumIsAdded ==
  ASSUME NEW f, NEW Y, IsFiniteSet(Y), NEW Sum, Adds(Sum, f, Y)
  PROVE  SumFunctionOnSet(f, Y) = Sum[Y]
<1> DEFINE All == CHOOSE iter : iter = [s \in SUBSET Y |->
                     IF s = {} THEN 0
                     ELSE f[CHOOSE x \in s : TRUE] + iter[s \ {CHOOSE x \in s : TRUE}]]
<1>1. SumFunctionOnSet(f, Y) = All[Y]
  BY DEF SumFunctionOnSet, FoldFunctionOnSet, MapThenFoldSet
<1>2. All = CHOOSE Other : Adds(Other, f, Y)
  BY DEF Adds, Pick
<1> HIDE DEF All
<1>3. Adds(All, f, Y)
  BY <1>2
<1>4. All = Sum
  BY <1>3, AddsOnce
<1> QED
  BY <1>1, <1>4

\* The sum taken apart where the definition takes it apart.
LEMMA SumAtPick ==
  ASSUME NEW f, NEW Y, IsFiniteSet(Y), NEW Z \in SUBSET Y
  PROVE  /\ Z = {} => SumFunctionOnSet(f, Z) = 0
         /\ Z # {} => SumFunctionOnSet(f, Z) =
                         f[Pick(Z)] + SumFunctionOnSet(f, Z \ {Pick(Z)})
<1>1. PICK Sum : Adds(Sum, f, Z)
  BY AddsExist, FS_Subset
<1>2. IsFiniteSet(Z) /\ IsFiniteSet(Z \ {Pick(Z)})
  BY FS_Subset
<1>3. SumFunctionOnSet(f, Z) = Sum[Z]
  BY <1>1, <1>2, SumIsAdded
<1>4. PICK u \in SUBSET Z : u = Z \ {Pick(Z)}
  OBVIOUS
<1>5. Adds([s \in SUBSET u |-> Sum[s]], f, u)
  BY <1>1, AddsSubset
<1>6. SumFunctionOnSet(f, u) = [s \in SUBSET u |-> Sum[s]][u]
  BY <1>2, <1>4, <1>5, SumIsAdded
<1>7. SumFunctionOnSet(f, u) = Sum[u]
  BY <1>6
<1> QED
  BY <1>1, <1>3, <1>4, <1>7, AddsAt

\* A sum of natural numbers is one.
LEMMA SumIsNat ==
  ASSUME NEW f, NEW Y, IsFiniteSet(Y), \A x \in Y : f[x] \in Nat
  PROVE  SumFunctionOnSet(f, Y) \in Nat
<1> DEFINE Minimal == {Z \in SUBSET Y : SumFunctionOnSet(f, Z) \notin Nat}
<1>0. /\ Minimal \in SUBSET SUBSET Y
      /\ \A Z \in SUBSET Y : Z \in Minimal <=> SumFunctionOnSet(f, Z) \notin Nat
  OBVIOUS
<1> HIDE DEF Minimal
<1>1. SUFFICES ASSUME Minimal # {} PROVE FALSE
  BY <1>0
<1>2. PICK Z \in Minimal : \A t \in SUBSET Z : t # Z => t \notin Minimal
  BY <1>0, <1>1, LeastSubset
<1>3. Z # {}
  <2>1. Z \in SUBSET Y /\ SumFunctionOnSet(f, Z) \notin Nat
    BY <1>0, <1>2
  <2>2. Z = {} => SumFunctionOnSet(f, Z) = 0
    BY <2>1, SumAtPick
  <2> QED
    BY <2>1, <2>2
<1>4. Pick(Z) \in Z /\ f[Pick(Z)] \in Nat
  BY <1>0, <1>3, PickIn
<1>5. PICK u \in SUBSET Z : u = Z \ {Pick(Z)}
  OBVIOUS
<1>6. SumFunctionOnSet(f, u) \in Nat
  BY <1>0, <1>2, <1>4, <1>5
<1>7. SumFunctionOnSet(f, Z) = f[Pick(Z)] + SumFunctionOnSet(f, u)
  BY <1>0, <1>3, <1>5, SumAtPick
<1> QED
  BY <1>0, <1>2, <1>4, <1>6, <1>7

\* The sum taken apart anywhere.
LEMMA SumTake ==
  ASSUME NEW f, NEW Y, IsFiniteSet(Y), \A x \in Y : f[x] \in Nat, NEW x \in Y
  PROVE  SumFunctionOnSet(f, Y) = f[x] + SumFunctionOnSet(f, Y \ {x})
<1> DEFINE Minimal == {Z \in SUBSET Y : \E y \in Z :
                    SumFunctionOnSet(f, Z) # f[y] + SumFunctionOnSet(f, Z \ {y})}
<1>0. /\ Minimal \in SUBSET SUBSET Y
      /\ \A Z \in SUBSET Y : Z \in Minimal <=> \E y \in Z :
            SumFunctionOnSet(f, Z) # f[y] + SumFunctionOnSet(f, Z \ {y})
  OBVIOUS
<1> HIDE DEF Minimal
<1>1. SUFFICES ASSUME Minimal # {} PROVE FALSE
  BY <1>0
<1>2. PICK Z \in Minimal : \A t \in SUBSET Z : t # Z => t \notin Minimal
  BY <1>0, <1>1, LeastSubset
<1>3. PICK y \in Z : SumFunctionOnSet(f, Z) # f[y] + SumFunctionOnSet(f, Z \ {y})
  BY <1>0, <1>2
<1>4. PICK p \in Z : p = Pick(Z)
  BY <1>0, <1>3, PickIn
<1>5. SumFunctionOnSet(f, Z) = f[p] + SumFunctionOnSet(f, Z \ {p})
  BY <1>0, <1>3, <1>4, SumAtPick
<1>6. p # y
  BY <1>0, <1>3, <1>5
<1>7. SumFunctionOnSet(f, Z \ {p}) = f[y] + SumFunctionOnSet(f, (Z \ {p}) \ {y})
  <2>1. Z \ {p} \in SUBSET Z /\ Z \ {p} # Z /\ y \in Z \ {p}
    BY <1>6
  <2>2. Z \ {p} \in SUBSET Y /\ Z \ {p} \notin Minimal
    BY <1>0, <1>2, <2>1
  <2>3. ~\E z \in Z \ {p} : SumFunctionOnSet(f, Z \ {p}) #
                              f[z] + SumFunctionOnSet(f, (Z \ {p}) \ {z})
    BY <1>0, <2>2
  <2> QED
    BY <2>1, <2>3
<1>8. SumFunctionOnSet(f, Z \ {y}) = f[p] + SumFunctionOnSet(f, (Z \ {y}) \ {p})
  <2>1. Z \ {y} \in SUBSET Z /\ Z \ {y} # Z /\ p \in Z \ {y}
    BY <1>6
  <2>2. Z \ {y} \in SUBSET Y /\ Z \ {y} \notin Minimal
    BY <1>0, <1>2, <2>1
  <2>3. ~\E z \in Z \ {y} : SumFunctionOnSet(f, Z \ {y}) #
                              f[z] + SumFunctionOnSet(f, (Z \ {y}) \ {z})
    BY <1>0, <2>2
  <2> QED
    BY <2>1, <2>3
<1>9. (Z \ {p}) \ {y} = (Z \ {y}) \ {p}
  OBVIOUS
<1>10. SumFunctionOnSet(f, (Z \ {p}) \ {y}) \in Nat /\ f[p] \in Nat /\ f[y] \in Nat
  <2>1. IsFiniteSet((Z \ {p}) \ {y})
    BY <1>0, FS_Subset
  <2> QED
    BY <1>0, <2>1, SumIsNat
<1>11. PICK n \in Nat : n = SumFunctionOnSet(f, (Z \ {p}) \ {y})
  BY <1>10
<1>12. SumFunctionOnSet(f, Z) = f[p] + (f[y] + n)
  BY <1>5, <1>7, <1>11
<1>13. SumFunctionOnSet(f, Z \ {y}) = f[p] + n
  BY <1>8, <1>9, <1>11
<1>14. f[p] + (f[y] + n) = f[y] + (f[p] + n)
  BY <1>10, <1>11
<1> QED
  BY <1>3, <1>12, <1>13, <1>14

\* The sum depends on the values in the set alone.
LEMMA SumSame ==
  ASSUME NEW f, NEW g, NEW Y, IsFiniteSet(Y), \A x \in Y : f[x] = g[x]
  PROVE  SumFunctionOnSet(f, Y) = SumFunctionOnSet(g, Y)
<1> DEFINE Minimal == {Z \in SUBSET Y : SumFunctionOnSet(f, Z) # SumFunctionOnSet(g, Z)}
<1>0. /\ Minimal \in SUBSET SUBSET Y
      /\ \A Z \in SUBSET Y : Z \in Minimal <=> SumFunctionOnSet(f, Z) # SumFunctionOnSet(g, Z)
  OBVIOUS
<1> HIDE DEF Minimal
<1>1. SUFFICES ASSUME Minimal # {} PROVE FALSE
  BY <1>0
<1>2. PICK Z \in Minimal : \A t \in SUBSET Z : t # Z => t \notin Minimal
  BY <1>0, <1>1, LeastSubset
<1>3. Z # {}
  <2>1. Z \in SUBSET Y /\ SumFunctionOnSet(f, Z) # SumFunctionOnSet(g, Z)
    BY <1>0, <1>2
  <2>2. Z = {} => SumFunctionOnSet(f, Z) = 0
    BY <2>1, SumAtPick
  <2>3. Z = {} => SumFunctionOnSet(g, Z) = 0
    BY <2>1, SumAtPick
  <2> QED
    BY <2>1, <2>2, <2>3
<1>4. Pick(Z) \in Z /\ f[Pick(Z)] = g[Pick(Z)]
  BY <1>0, <1>3, PickIn
<1>5. SumFunctionOnSet(f, Z \ {Pick(Z)}) = SumFunctionOnSet(g, Z \ {Pick(Z)})
  <2>1. Z \ {Pick(Z)} \in SUBSET Z /\ Z \ {Pick(Z)} # Z
    BY <1>0, <1>4
  <2> QED
    BY <1>0, <1>2, <2>1
<1> QED
  BY <1>0, <1>2, <1>3, <1>4, <1>5, SumAtPick

\* One value changes, and the sum with it.
LEMMA SumChange ==
  ASSUME NEW f, NEW g, NEW Y, IsFiniteSet(Y), NEW x \in Y,
         \A y \in Y : f[y] \in Nat /\ g[y] \in Nat,
         \A y \in Y : y # x => f[y] = g[y]
  PROVE  SumFunctionOnSet(f, Y) + g[x] = SumFunctionOnSet(g, Y) + f[x]
<1>1. IsFiniteSet(Y \ {x})
  BY FS_Subset
<1>2. SumFunctionOnSet(f, Y \ {x}) = SumFunctionOnSet(g, Y \ {x})
  BY <1>1, SumSame
<1>3. SumFunctionOnSet(f, Y \ {x}) \in Nat
  BY <1>1, SumIsNat
<1>4. /\ SumFunctionOnSet(f, Y) = f[x] + SumFunctionOnSet(f, Y \ {x})
      /\ SumFunctionOnSet(g, Y) = g[x] + SumFunctionOnSet(g, Y \ {x})
  BY SumTake
<1> QED
  BY <1>2, <1>3, <1>4

\* A sum is at most the number of values times what bounds each.
LEMMA SumBound ==
  ASSUME NEW f, NEW Y, IsFiniteSet(Y), NEW m \in Nat,
         \A x \in Y : f[x] \in Nat /\ f[x] <= m
  PROVE  SumFunctionOnSet(f, Y) <= Cardinality(Y) * m
<1> DEFINE Minimal == {Z \in SUBSET Y : ~(SumFunctionOnSet(f, Z) <= Cardinality(Z) * m)}
<1>0. /\ Minimal \in SUBSET SUBSET Y
      /\ \A Z \in SUBSET Y : Z \in Minimal <=> ~(SumFunctionOnSet(f, Z) <= Cardinality(Z) * m)
  OBVIOUS
<1> HIDE DEF Minimal
<1>1. SUFFICES ASSUME Minimal # {} PROVE FALSE
  BY <1>0
<1>2. PICK Z \in Minimal : \A t \in SUBSET Z : t # Z => t \notin Minimal
  BY <1>0, <1>1, LeastSubset
<1>3. IsFiniteSet(Z)
  BY <1>0, FS_Subset
<1>4. Z # {}
  <2>1. Cardinality({}) = 0 /\ 0 * m = 0
    BY FS_EmptySet
  <2>2. Z \in SUBSET Y /\ ~(SumFunctionOnSet(f, Z) <= Cardinality(Z) * m)
    BY <1>0, <1>2
  <2>3. Z = {} => SumFunctionOnSet(f, Z) = 0
    BY <2>2, SumAtPick
  <2>4. Z = {} => Cardinality(Z) * m = 0
    BY <2>1
  <2> QED
    BY <2>2, <2>3, <2>4
<1>5. PICK p \in Z : TRUE
  BY <1>0, <1>4
<1>6. SumFunctionOnSet(f, Z) = f[p] + SumFunctionOnSet(f, Z \ {p})
  BY <1>0, <1>3, SumTake
<1>7. IsFiniteSet(Z \ {p}) /\ Cardinality(Z \ {p}) = Cardinality(Z) - 1
      /\ Cardinality(Z \ {p}) \in Nat /\ Cardinality(Z) \in Nat
  BY <1>0, <1>3, FS_RemoveElement, FS_CardinalityType
<1>8. SumFunctionOnSet(f, Z \ {p}) \in Nat
  BY <1>0, <1>7, SumIsNat
<1>9. SumFunctionOnSet(f, Z \ {p}) <= Cardinality(Z \ {p}) * m
  <2>1. Z \ {p} \in SUBSET Z /\ Z \ {p} # Z
    BY <1>0, <1>5
  <2> QED
    BY <1>0, <1>2, <2>1
<1>10. Cardinality(Z \ {p}) * m + m = Cardinality(Z) * m
  BY <1>0, <1>7
<1> QED
  BY <1>0, <1>2, <1>6, <1>7, <1>8, <1>9, <1>10

\* The sums and the maximum the parts use are these.
LEMMA SameSums ==
  ASSUME NEW f, NEW Y
  PROVE  /\ D!SumFunctionOnSet(f, Y) = SumFunctionOnSet(f, Y)
         /\ B!SumFunctionOnSet(f, Y) = SumFunctionOnSet(f, Y)
         /\ B!Max(Y) = Max(Y)
BY DEF D!SumFunctionOnSet, D!FoldFunctionOnSet, D!MapThenFoldSet, SumFunctionOnSet,
       FoldFunctionOnSet, MapThenFoldSet, B!SumFunctionOnSet, B!FoldFunctionOnSet,
       B!MapThenFoldSet, B!Max, Max

-----------------------------------------------------------------------------
(* Memberships.                                                            *)

\* No membership, no subscription and no handler at work: the invariant holds.
LEMMA MembershipInitInv == ASSUME S!Init PROVE S!Inv
<1>1. S!TypeOK
  BY DEF S!Init, S!TypeOK, S!Row, S!Job, S!Idle
<1>2. \A h \in Handlers : x6[h] = S!Idle /\ S!Idle.pc = "idle"
  BY DEF S!Init, S!Idle
<1>3. \A r \in Signatures : x5[r].status = "none"
  BY DEF S!Init
<1>4. \A h \in Handlers, e \in S!Event : ~S!Handles(h, e)
  BY <1>2 DEF S!Handles
<1>5. S!Working /\ S!Apart
  BY <1>2 DEF S!Working, S!Apart
<1>6. S!Reported
  BY DEF S!Init, S!Reported
<1>7. S!HandledOnce
  BY <1>4 DEF S!Init, S!HandledOnce
<1>8. \A s \in Slots : S!RowsOf(s) = {}
  BY <1>3 DEF S!RowsOf
<1>9. S!RowsTell
  BY <1>8 DEF S!RowsTell, S!Done, S!Init
<1>10. S!OneActiveUnlessCrossed
  BY <1>3 DEF S!OneActiveUnlessCrossed, S!ActiveOf
<1> QED
  BY <1>1, <1>5, <1>6, <1>7, <1>9, <1>10 DEF S!Inv

\* What an event is.
LEMMA MembershipEvents ==
  /\ \A s \in Slots : /\ S!Completed(s) \in S!Event /\ S!Deleted(s) \in S!Event
                      /\ S!Completed(s).sub = s /\ S!Deleted(s).sub = s
                      /\ S!Completed(s).kind = "completed" /\ S!Deleted(s).kind = "deleted"
                      /\ S!Completed(s) # S!Deleted(s)
  /\ \A e \in S!Event : /\ e.sub \in Slots
                        /\ e.kind = "completed" => e = S!Completed(e.sub)
                        /\ e.kind = "deleted" => e = S!Deleted(e.sub)
                        /\ e.kind \in {"completed", "deleted"}
BY DEF S!Event, S!Completed, S!Deleted

\* When handler h ends, the others are where they were.
LEMMA MembershipEnding ==
  ASSUME S!TypeOK, S!Working, NEW h \in Handlers, x6' = [x6 EXCEPT ![h] = S!Idle]
  PROVE  /\ x6' \in [Handlers -> S!Job] /\ S!Working'
         /\ \A k \in Handlers : k # h => x6'[k] = x6[k]
         /\ x6'[h] = S!Idle
         /\ \A k \in Handlers, e \in S!Event : S!Handles(k, e)' <=> k # h /\ S!Handles(k, e)
         /\ \A u \in Members : S!Creating(u)' = S!Creating(u) \ {h}
<1>1. S!Idle \in S!Job /\ S!Idle.pc = "idle"
  BY DEF S!Idle, S!Job
<1>2. /\ x6' \in [Handlers -> S!Job] /\ x6'[h] = S!Idle
      /\ \A k \in Handlers : k # h => x6'[k] = x6[k]
  BY <1>1 DEF S!TypeOK
<1>3. S!Working'
  BY <1>1, <1>2 DEF S!Working
<1>4. \A k \in Handlers, e \in S!Event : S!Handles(k, e)' <=> k # h /\ S!Handles(k, e)
  BY <1>1, <1>2 DEF S!Handles
<1>5. \A u \in Members : S!Creating(u)' = S!Creating(u) \ {h}
  BY <1>1, <1>2 DEF S!Creating
<1> QED
  BY <1>2, <1>3, <1>4, <1>5

\* What is not about handlers stays true while no row changes and no event
\* moves.
LEMMA MembershipRowsRest ==
  ASSUME S!Inv, x5' = x5
  PROVE  /\ \A u \in Members : S!ActiveOf(u)' = S!ActiveOf(u)
         /\ \A s \in Slots : S!RowsOf(s)' = S!RowsOf(s)
         /\ \A s \in Slots : S!HasRow(s)' = S!HasRow(s)
         /\ x5' \in [Signatures -> S!Row]
BY DEF S!Inv, S!TypeOK, S!ActiveOf, S!RowsOf, S!HasRow

\* What is said of rows and their events holds while both stay as they are.
LEMMA MembershipRowsTellStays ==
  ASSUME S!Inv, x9' = x9,
         \A s \in Slots : S!Done(S!Completed(s)) => x2'[s].owner = x2[s].owner,
         \A s \in Slots : S!RowsOf(s)' = S!RowsOf(s),
         \A r \in Signatures : x5[r].status = "CANCELLED" => x5'[r].status = "CANCELLED",
         \A e \in S!Event : S!Done(e)' <=> S!Done(e)
  PROVE  S!RowsTell'
<1>1. \A s \in Slots : /\ S!Completed(s)' = S!Completed(s) /\ S!Deleted(s)' = S!Deleted(s)
                       /\ S!Completed(s) \in S!Event /\ S!Deleted(s) \in S!Event
  BY MembershipEvents DEF S!Completed, S!Deleted
<1>2. \A s \in Slots : S!RowsOf(s) \subseteq Signatures
  BY DEF S!RowsOf
<1> QED
  BY <1>1, <1>2 DEF S!Inv, S!RowsTell

\* Stripe's own steps leave rows and handlers alone.
LEMMA MembershipStripeStep ==
  ASSUME S!Inv, NEW s \in Slots, NEW u \in Members \cup {None},
         S!CheckoutPaid(s, u) \/ S!SubscriptionEnds(s)
  PROVE  S!Inv'
<1>1. UNCHANGED <<x1, x4, x5, x6, x7, x8, x9>>
  BY DEF S!CheckoutPaid, S!SubscriptionEnds, S!history
<1>2. /\ \A t \in Slots : t # s => x2'[t] = x2[t]
      /\ \/ /\ x2[s].state = "none"
            /\ x2'[s] = [state |-> "live", owner |-> u]
            /\ x3' = x3 \cup {S!Completed(s)}
         \/ /\ x2[s].state = "live"
            /\ x2'[s].state = "ended" /\ x2'[s].owner = x2[s].owner
            /\ x3' = x3 \cup {S!Deleted(s)}
  BY DEF S!CheckoutPaid, S!SubscriptionEnds, S!Inv, S!TypeOK
<1>3. S!TypeOK'
  <2>1. x2' \in [Slots -> [state : {"none", "live", "ended"}, owner : Members \cup {None}]]
    <3>1. CASE S!CheckoutPaid(s, u)
      BY <3>1 DEF S!CheckoutPaid, S!Inv, S!TypeOK
    <3>2. CASE S!SubscriptionEnds(s)
      BY <3>2 DEF S!SubscriptionEnds, S!Inv, S!TypeOK
    <3> QED
      BY <3>1, <3>2
  <2>2. x3' \subseteq S!Event
    BY <1>2, MembershipEvents DEF S!Inv, S!TypeOK
  <2> QED
    BY <1>1, <2>1, <2>2 DEF S!Inv, S!TypeOK
<1>4. \A k \in Handlers, e \in S!Event : S!Handles(k, e)' <=> S!Handles(k, e)
  BY <1>1 DEF S!Handles
<1>5. S!Working' /\ S!HandledOnce'
  <2>1. S!Working'
    BY <1>1 DEF S!Inv, S!Working
  <2>2. \A e \in S!Event : e \in x4 => x2'[e.sub].owner = x2[e.sub].owner
    BY <1>2, MembershipEvents DEF S!Inv, S!Reported
  <2>3. S!HandledOnce'
    BY <1>1, <1>4, <2>2 DEF S!Inv, S!HandledOnce
  <2> QED
    BY <2>1, <2>3
<1>6. S!Apart' /\ S!OneActiveUnlessCrossed'
  <2>1. /\ \A v \in Members : S!ActiveOf(v)' = S!ActiveOf(v)
        /\ \A v \in Members : S!Creating(v)' = S!Creating(v)
    BY <1>1, MembershipRowsRest DEF S!Creating
  <2>2. \A h \in Handlers : x6[h].pc = "create" => x6[h].user \in Members
    BY DEF S!Inv, S!Working
  <2> QED
    BY <1>1, <2>1, <2>2 DEF S!Inv, S!Apart, S!OneActiveUnlessCrossed
<1>7. S!Reported'
  <2> SUFFICES ASSUME NEW t \in Slots
               PROVE  /\ (S!Completed(t) \in x3' \cup x4'
                              <=> x2'[t].state # "none")
                      /\ (S!Deleted(t) \in x3' \cup x4'
                              <=> x2'[t].state = "ended")
                      /\ x2'[t].state = "none" => x2'[t].owner = None
    BY DEF S!Reported, S!Completed, S!Deleted
  <2>1. \A v \in Slots : S!Completed(t) # S!Deleted(v)
    BY DEF S!Completed, S!Deleted
  <2>2. \A v \in Slots : v # t => S!Completed(t) # S!Completed(v) /\ S!Deleted(t) # S!Deleted(v)
    BY MembershipEvents
  <2> QED
    BY <1>1, <1>2, <2>1, <2>2, MembershipEvents DEF S!Inv, S!Reported
<1>8. S!RowsTell'
  <2>1. \A e \in S!Event : S!Done(e)' <=> S!Done(e)
    BY <1>1, <1>4 DEF S!Done
  <2>2. \A t \in Slots : S!Done(S!Completed(t)) => (x2'[t].owner = x2[t].owner)
    BY <1>2 DEF S!Done, S!Inv, S!Reported
  <2>3. \A t \in Slots : S!RowsOf(t)' = S!RowsOf(t)
    BY <1>1, MembershipRowsRest
  <2> QED
    BY <1>1, <2>1, <2>2, <2>3, MembershipRowsTellStays
<1> QED
  BY <1>3, <1>5, <1>6, <1>7, <1>8 DEF S!Inv

\* A call of subscribe() handles no event.
LEMMA MembershipSubscribeStep ==
  ASSUME S!Inv, NEW h \in Handlers, NEW u \in Members, S!SubscribeInDev(h, u)
  PROVE  S!Inv'
<1> PICK j : j = [pc |-> "sweep", user |-> u, sub |-> None]
  OBVIOUS
<1>1. UNCHANGED <<x1, x2, x3, x4, x5, x7, x8, x9>>
  BY DEF S!SubscribeInDev, S!history
<1>2. /\ x6[h].pc = "idle" /\ x6' = [x6 EXCEPT ![h] = j]
      /\ j \in S!Job /\ j.pc = "sweep" /\ j.user \in Members /\ j.sub = None
  BY DEF S!SubscribeInDev, S!Job
<1>3. /\ x6' \in [Handlers -> S!Job] /\ x6'[h] = j
      /\ \A k \in Handlers : k # h => x6'[k] = x6[k]
  BY <1>2 DEF S!Inv, S!TypeOK
<1>4. \A k \in Handlers, e \in S!Event : S!Handles(k, e)' <=> S!Handles(k, e)
  <2>1. \A e \in S!Event : e.sub # None
    BY MembershipEvents, ConstantsAreSound DEF S!NoneIsNoValue
  <2> QED
    BY <1>2, <1>3, <2>1 DEF S!Handles
<1>5. S!TypeOK' /\ S!Working' /\ S!HandledOnce'
  BY <1>1, <1>2, <1>3, <1>4 DEF S!Inv, S!TypeOK, S!Working, S!HandledOnce
<1>6. S!Apart' /\ S!OneActiveUnlessCrossed'
  <2>1. /\ \A v \in Members : S!ActiveOf(v)' = S!ActiveOf(v)
        /\ \A v \in Members : S!Creating(v)' = S!Creating(v)
    BY <1>1, <1>2, <1>3, MembershipRowsRest DEF S!Creating
  <2>2. \A k \in Handlers : x6'[k].pc = "create" => /\ x6[k] = x6'[k]
                                                    /\ x6[k].user \in Members
    BY <1>2, <1>3 DEF S!Inv, S!Working
  <2> QED
    BY <1>1, <2>1, <2>2 DEF S!Inv, S!Apart, S!OneActiveUnlessCrossed
<1>7. S!Reported'
  BY <1>1 DEF S!Inv, S!Reported, S!Completed, S!Deleted
<1>8. S!RowsTell'
  <2>1. \A e \in S!Event : S!Done(e)' <=> S!Done(e)
    BY <1>1, <1>4 DEF S!Done
  <2>2. \A t \in Slots : S!RowsOf(t)' = S!RowsOf(t)
    BY <1>1, MembershipRowsRest
  <2> QED
    BY <1>1, <2>1, <2>2, MembershipRowsTellStays
<1> QED
  BY <1>5, <1>6, <1>7, <1>8 DEF S!Inv

\* A delivery is handled if it is the first of its event.
LEMMA MembershipDeliverStep ==
  ASSUME S!Inv, NEW h \in Handlers, NEW e \in x3, S!Deliver(h, e)
  PROVE  S!Inv'
<1>1. UNCHANGED <<x1, x2, x5, x7, x8, x9>>
  BY DEF S!Deliver, S!history
<1>2. e \in S!Event /\ x6[h].pc = "idle" /\ e.sub \in Slots
  BY MembershipEvents DEF S!Deliver, S!Inv, S!TypeOK
<1>3. /\ x4' = x4 \cup {e}
      /\ x3' \subseteq x3
      /\ x3 \subseteq x3' \cup x4'
  BY DEF S!Deliver, S!Answer, S!FirstDelivery
<1>4. S!TypeOK' /\ x6' \in [Handlers -> S!Job]
  <2>1. S!Handling(e) \in S!Job
    BY <1>2 DEF S!Handling, S!Job, S!Idle, S!Inv, S!TypeOK
  <2>2. x6' \in [Handlers -> S!Job]
    BY <2>1 DEF S!Deliver, S!Inv, S!TypeOK
  <2> QED
    BY <1>1, <1>2, <1>3, <2>2 DEF S!Inv, S!TypeOK
<1>5. S!Reported'
  <2>1. x3' \cup x4' = x3 \cup x4
    BY <1>3
  <2> QED
    BY <1>1, <2>1 DEF S!Inv, S!Reported, S!Completed, S!Deleted
<1>6. CASE e \in x4
  <2>1. x6' = x6 /\ x4' = x4
    BY <1>6 DEF S!Deliver, S!FirstDelivery
  <2>2. \A k \in Handlers, x \in S!Event : S!Handles(k, x)' <=> S!Handles(k, x)
    BY <2>1 DEF S!Handles
  <2>3. S!Working' /\ S!HandledOnce'
    BY <1>1, <2>1, <2>2 DEF S!Inv, S!Working, S!HandledOnce
  <2>4. S!Apart' /\ S!OneActiveUnlessCrossed'
    BY <1>1, <2>1
    DEF S!Inv, S!Apart, S!OneActiveUnlessCrossed, S!ActiveOf, S!Creating
  <2>5. S!RowsTell'
    <3>1. \A x \in S!Event : S!Done(x)' <=> S!Done(x)
      BY <1>1, <2>1, <2>2 DEF S!Done
    <3>2. \A t \in Slots : S!RowsOf(t)' = S!RowsOf(t)
      BY <1>1, MembershipRowsRest
    <3> QED
      BY <1>1, <3>1, <3>2, MembershipRowsTellStays
  <2> QED
    BY <1>4, <1>5, <2>3, <2>4, <2>5 DEF S!Inv
<1>7. CASE e \notin x4
  <2> PICK j : j = S!Handling(e)
    OBVIOUS
  <2>1. /\ x6'[h] = j
        /\ \A k \in Handlers : k # h => x6'[k] = x6[k]
    BY <1>7 DEF S!Deliver, S!FirstDelivery, S!Inv, S!TypeOK
  <2>2. \/ j = S!Idle /\ e = S!Completed(e.sub) /\ x2[e.sub].owner = None
        \/ /\ e = S!Completed(e.sub) /\ j.pc = "sweep" /\ j.sub = e.sub
           /\ j.user = x2[e.sub].owner /\ j.user \in Members
        \/ e = S!Deleted(e.sub) /\ j.pc = "drop" /\ j.sub = e.sub
    BY <1>2, MembershipEvents DEF S!Handling, S!Inv, S!TypeOK
  <2>3. \A k \in Handlers : ~S!Handles(k, e)
    BY <1>2, <1>7 DEF S!Inv, S!HandledOnce
  <2>4. \A x \in S!Event : S!Handles(h, x)' <=> x = e /\ j # S!Idle
    <3>1. \A x \in S!Event : x = e <=> x.kind = e.kind /\ x.sub = e.sub
      BY <1>2 DEF S!Event
    <3>2. CASE j = S!Idle
      BY <2>1, <3>2 DEF S!Handles, S!Idle
    <3>3. CASE e.kind = "completed" /\ j.pc = "sweep" /\ j.sub = e.sub
      <4>1. j # S!Idle
        BY <3>3 DEF S!Idle
      <4> QED
        BY <2>1, <3>1, <3>3, <4>1, MembershipEvents DEF S!Handles
    <3>4. CASE e.kind = "deleted" /\ j.pc = "drop" /\ j.sub = e.sub
      <4>1. j # S!Idle
        BY <3>4 DEF S!Idle
      <4> QED
        BY <2>1, <3>1, <3>4, <4>1, MembershipEvents DEF S!Handles
    <3> QED
      BY <1>2, <2>2, <3>2, <3>3, <3>4, MembershipEvents
  <2>5. \A k \in Handlers, x \in S!Event : k # h => (S!Handles(k, x)' <=> S!Handles(k, x))
    BY <2>1 DEF S!Handles
  <2>6. S!Working'
    BY <1>2, <2>1, <2>2 DEF S!Inv, S!Working, S!Idle
  <2>7. S!HandledOnce'
    <3>1. \A x \in S!Event : ~S!Handles(h, x)
      BY <1>2 DEF S!Handles
    <3>2. e \notin x8
      BY <1>7 DEF S!Inv, S!HandledOnce
    <3>3. j # S!Idle /\ e.kind = "completed" => x2[e.sub].owner # None
      BY <1>2, <2>2, MembershipEvents, ConstantsAreSound DEF S!NoneIsNoValue
    <3> QED
      BY <1>1, <1>3, <2>3, <2>4, <2>5, <3>1, <3>2, <3>3
      DEF S!Inv, S!HandledOnce
  <2>8. S!Apart' /\ S!OneActiveUnlessCrossed'
    <3>1. /\ \A v \in Members : S!ActiveOf(v)' = S!ActiveOf(v)
          /\ \A v \in Members : S!Creating(v)' = S!Creating(v)
      BY <1>1, <1>2, <2>1, <2>2, MembershipRowsRest DEF S!Creating, S!Idle
    <3>2. \A k \in Handlers : x6'[k].pc = "create" => /\ x6[k] = x6'[k]
                                                      /\ x6[k].user \in Members
      BY <1>2, <2>1, <2>2 DEF S!Inv, S!Working, S!Idle
    <3> QED
      BY <1>1, <3>1, <3>2 DEF S!Inv, S!Apart, S!OneActiveUnlessCrossed
  <2>9. S!RowsTell'
    <3>1. \A x \in S!Event : x # e => (S!Done(x)' <=> S!Done(x))
      <4>1. \A x \in S!Event : ~S!Handles(h, x)
        BY <1>2 DEF S!Handles
      <4> QED
        BY <1>1, <1>3, <2>4, <2>5, <4>1 DEF S!Done
    <3>2. ~S!Done(e)
      BY <1>7 DEF S!Done
    <3>3. S!Done(e)' => e = S!Completed(e.sub) /\ x2[e.sub].owner = None
      BY <1>2, <2>2, <2>4 DEF S!Done, S!Idle
    <3>4. \A t \in Slots : S!RowsOf(t)' = S!RowsOf(t)
      BY <1>1, MembershipRowsRest
    <3>5. \A t \in Slots : S!Completed(t)' = S!Completed(t) /\ S!Deleted(t)' = S!Deleted(t)
      BY DEF S!Completed, S!Deleted
    <3>6. \A t \in Slots : /\ S!Completed(t) = e => t = e.sub
                           /\ S!Done(S!Deleted(t))' => S!Done(S!Deleted(t))
      BY <1>2, <3>1, <3>3, MembershipEvents
    <3> QED
      BY <1>1, <1>2, <3>1, <3>2, <3>3, <3>4, <3>5, <3>6, MembershipEvents
      DEF S!Inv, S!RowsTell
  <2> QED
    BY <1>4, <1>5, <2>6, <2>7, <2>8, <2>9 DEF S!Inv
<1> QED
  BY <1>6, <1>7

\* Cancelling makes no row active, and moves none to another subscription.
LEMMA MembershipCancelling ==
  ASSUME S!Inv, NEW rs, S!CancelWhere(rs)
  PROVE  /\ x5' \in [Signatures -> S!Row]
         /\ \A s \in Slots : S!RowsOf(s)' = S!RowsOf(s)
         /\ \A u \in Members : S!ActiveOf(u)' = S!ActiveOf(u) \ rs
         /\ \A r \in Signatures : /\ x5[r].status = "CANCELLED" => x5'[r].status = "CANCELLED"
                                  /\ r \in rs => x5'[r].status # "ACTIVE"
<1>1. \A r \in Signatures : x5[r] \in S!Row
  BY DEF S!Inv, S!TypeOK
<1>2. ASSUME NEW r \in Signatures
      PROVE  /\ x5'[r] \in S!Row
             /\ x5'[r].owner = x5[r].owner /\ x5'[r].sub = x5[r].sub
             /\ x5'[r].status = IF x5[r].status = "ACTIVE" /\ r \in rs
                                 THEN "CANCELLED" ELSE x5[r].status
  <2>1. x5'[r] = IF x5[r].status = "ACTIVE" /\ r \in rs
                  THEN [x5[r] EXCEPT !.status = "CANCELLED"] ELSE x5[r]
    BY DEF S!CancelWhere
  <2>2. x5[r] \in S!Row
    BY <1>1
  <2> QED
    BY <2>1, <2>2 DEF S!Row
<1>3. x5' \in [Signatures -> S!Row]
  BY <1>2 DEF S!CancelWhere
<1>4. \A s \in Slots : S!RowsOf(s)' = S!RowsOf(s)
  BY <1>2 DEF S!RowsOf
<1>5. \A u \in Members : S!ActiveOf(u)' = S!ActiveOf(u) \ rs
  BY <1>2 DEF S!ActiveOf
<1> QED
  BY <1>2, <1>3, <1>4, <1>5

\* cancelActiveForUser() leaves nothing active.
LEMMA MembershipSweepStep ==
  ASSUME S!Inv, NEW h \in Handlers, S!SweepActive(h)
  PROVE  S!Inv'
<1> PICK u : u = x6[h].user
  OBVIOUS
<1>1. /\ UNCHANGED <<x1, x2, x3, x4, x8, x9>>
      /\ x6[h].pc = "sweep" /\ x6' = [x6 EXCEPT ![h].pc = "create"]
      /\ S!CancelWhere({r \in Signatures : x5[r].owner = u})
      /\ x7' = IF S!Creating(u) # {} THEN x7 \cup {u} ELSE x7
  BY DEF S!SweepActive
<1>2. u \in Members
  BY <1>1 DEF S!Inv, S!Working
<1>3. /\ x6' \in [Handlers -> S!Job]
      /\ x6'[h].pc = "create" /\ x6'[h].user = u /\ x6'[h].sub = x6[h].sub
      /\ \A k \in Handlers : k # h => x6'[k] = x6[k]
  <2>1. x6[h] \in S!Job
    BY DEF S!Inv, S!TypeOK
  <2> QED
    BY <1>1, <2>1 DEF S!Inv, S!TypeOK, S!Job
<1>4. /\ x5' \in [Signatures -> S!Row]
      /\ \A s \in Slots : S!RowsOf(s)' = S!RowsOf(s)
      /\ \A v \in Members : S!ActiveOf(v)' \subseteq S!ActiveOf(v)
      /\ S!ActiveOf(u)' = {}
      /\ \A r \in Signatures : x5[r].status = "CANCELLED" => x5'[r].status = "CANCELLED"
  <2>1. \A v \in Members : S!ActiveOf(v)' = S!ActiveOf(v) \ {r \in Signatures : x5[r].owner = u}
    BY <1>1, MembershipCancelling
  <2>2. \A v \in Members : S!ActiveOf(v)' \subseteq S!ActiveOf(v)
    BY <2>1
  <2>3. S!ActiveOf(u)' = {}
    <3>1. S!ActiveOf(u) \subseteq {r \in Signatures : x5[r].owner = u}
      BY DEF S!ActiveOf
    <3> QED
      BY <1>2, <2>1, <3>1
  <2> QED
    BY <1>1, <2>2, <2>3, MembershipCancelling
<1>5. \A k \in Handlers, e \in S!Event : S!Handles(k, e)' <=> S!Handles(k, e)
  <2>1. \A e \in S!Event : S!Handles(h, e)' <=> S!Handles(h, e)
    BY <1>1, <1>3, MembershipEvents DEF S!Handles
  <2>2. \A k \in Handlers, e \in S!Event : k # h => (S!Handles(k, e)' <=> S!Handles(k, e))
    BY <1>3 DEF S!Handles
  <2> QED
    BY <2>1, <2>2
<1>6. x7 \subseteq x7' /\ x7' \subseteq Members
  BY <1>1, <1>2 DEF S!Inv, S!TypeOK
<1>7. S!TypeOK' /\ S!Working' /\ S!HandledOnce' /\ S!Reported'
  <2>1. S!TypeOK'
    BY <1>1, <1>3, <1>4, <1>6 DEF S!Inv, S!TypeOK
  <2>2. S!Working'
    BY <1>2, <1>3 DEF S!Inv, S!Working
  <2>3. S!HandledOnce' /\ S!Reported'
    BY <1>1, <1>5 DEF S!Inv, S!HandledOnce, S!Reported, S!Completed, S!Deleted
  <2> QED
    BY <2>1, <2>2, <2>3
<1>8. S!Apart'
  <2>1. \A v \in Members : S!Creating(v)' = IF v = u THEN S!Creating(v) \cup {h} ELSE S!Creating(v)
    BY <1>1, <1>3 DEF S!Creating
  <2>2. ASSUME NEW k \in Handlers, NEW v,
               x6'[k].pc = "create", v = x6'[k].user, v \notin x7'
        PROVE  S!ActiveOf(v)' = {} /\ S!Creating(v)' = {k}
    <3>1. CASE v = u
      <4>1. S!Creating(u) = {} /\ S!Creating(u)' = {h}
        BY <1>1, <1>2, <2>1, <2>2, <3>1
      <4>2. k \in S!Creating(v)'
        BY <2>2, <3>1 DEF S!Creating
      <4> QED
        BY <1>4, <3>1, <4>1, <4>2
    <3>2. CASE v # u
      <4>1. k # h /\ x6'[k] = x6[k]
        BY <1>3, <2>2, <3>2
      <4>2. x6[k].user \in Members
        BY <2>2, <4>1 DEF S!Inv, S!Working
      <4>3. S!ActiveOf(x6[k].user) = {} /\ S!Creating(x6[k].user) = {k}
        BY <1>6, <2>2, <4>1 DEF S!Inv, S!Apart
      <4> QED
        BY <1>4, <2>1, <2>2, <3>2, <4>1, <4>2, <4>3
    <3> QED
      BY <3>1, <3>2
  <2> QED
    BY <2>2 DEF S!Apart
<1>9. S!OneActiveUnlessCrossed'
  <2>1. \A v \in Members \ x7' : S!ActiveOf(v)' \subseteq S!ActiveOf(v) /\ v \notin x7
    BY <1>4, <1>6
  <2> QED
    BY <2>1 DEF S!Inv, S!OneActiveUnlessCrossed
<1>10. S!RowsTell'
  <2>1. \A e \in S!Event : S!Done(e)' <=> S!Done(e)
    BY <1>1, <1>5 DEF S!Done
  <2> QED
    BY <1>1, <1>4, <2>1, MembershipRowsTellStays
<1> QED
  BY <1>7, <1>8, <1>9, <1>10 DEF S!Inv

\* The new row is the only active one of its user, and the only one of its
\* subscription.
LEMMA MembershipCreateStep ==
  ASSUME S!Inv, NEW h \in Handlers, S!CreateRow(h)
  PROVE  S!Inv'
<1> PICK u, s : u = x6[h].user /\ s = x6[h].sub
  OBVIOUS
<1>1. /\ UNCHANGED <<x1, x2, x4, x7, x8, x9>>
      /\ x6[h].pc = "create" /\ x6' = [x6 EXCEPT ![h] = S!Idle]
      /\ x3' \subseteq x3
      /\ x3 \ x3' \subseteq {S!Completed(s)}
      /\ s = None => x3' = x3
  BY DEF S!CreateRow, S!history, S!AnswerOrNot, S!Answer
<1>2. u \in Members /\ s \in Slots \cup {None}
  BY <1>1 DEF S!Inv, S!Working, S!TypeOK, S!Job
<1> PICK n : n = [status |-> "ACTIVE", owner |-> u, sub |-> s]
  OBVIOUS
<1>3. n \in S!Row /\ n.status = "ACTIVE" /\ n.owner = u /\ n.sub = s
  BY <1>2 DEF S!Row
<1>4. PICK r \in Signatures : x5[r].status = "none" /\ x5' = [x5 EXCEPT ![r] = n]
  BY DEF S!CreateRow
<1>5. /\ x5' \in [Signatures -> S!Row] /\ x5'[r] = n
      /\ \A q \in Signatures : q # r => x5'[q] = x5[q]
  BY <1>3, <1>4 DEF S!Inv, S!TypeOK
<1>6. /\ x6' \in [Handlers -> S!Job] /\ S!Working'
      /\ \A k \in Handlers : k # h => x6'[k] = x6[k]
      /\ x6'[h] = S!Idle
      /\ \A k \in Handlers, e \in S!Event : S!Handles(k, e)' <=> k # h /\ S!Handles(k, e)
      /\ \A v \in Members : S!Creating(v)' = S!Creating(v) \ {h}
  BY <1>1, MembershipEnding DEF S!Inv
<1>7. s # None => S!Handles(h, S!Completed(s))
  BY <1>1, <1>2, MembershipEvents DEF S!Handles
<1>8. s # None => /\ S!Completed(s) \in x4 \ x8 /\ x2[s].owner # None
                  /\ \A k \in Handlers : S!Handles(k, S!Completed(s)) => k = h
  <2>1. s # None => s \in Slots /\ S!Completed(s) \in S!Event
    BY <1>2, MembershipEvents
  <2> QED
    BY <1>7, <2>1, MembershipEvents DEF S!Inv, S!HandledOnce
<1>9. \A e \in S!Event : S!Handles(h, e) => s # None /\ e = S!Completed(s)
  BY <1>1, MembershipEvents, ConstantsAreSound DEF S!Handles, S!NoneIsNoValue
<1>10. S!TypeOK' /\ S!HandledOnce' /\ S!Reported'
  <2>1. x3' \cup x4' = x3 \cup x4
    BY <1>1, <1>8
  <2>2. S!Reported'
    BY <1>1, <2>1 DEF S!Inv, S!Reported, S!Completed, S!Deleted
  <2>3. S!TypeOK'
    BY <1>1, <1>5, <1>6 DEF S!Inv, S!TypeOK
  <2>4. S!HandledOnce'
    BY <1>1, <1>6 DEF S!Inv, S!HandledOnce
  <2> QED
    BY <2>2, <2>3, <2>4
<1>11. \A v \in Members : S!ActiveOf(v)' = IF v = u THEN S!ActiveOf(v) \cup {r} ELSE S!ActiveOf(v)
  BY <1>3, <1>4, <1>5 DEF S!ActiveOf
<1>12. u \notin x7 => S!ActiveOf(u) = {} /\ S!Creating(u) = {h}
  BY <1>1 DEF S!Inv, S!Apart
<1>13. S!Apart'
  <2> SUFFICES ASSUME NEW k \in Handlers, NEW v,
                            x6'[k].pc = "create", v = x6'[k].user, v \notin x7'
               PROVE  S!ActiveOf(v)' = {} /\ S!Creating(v)' = {k}
    BY DEF S!Apart
  <2>1. k # h /\ x6'[k] = x6[k]
    BY <1>6 DEF S!Idle
  <2>2. x6[k].user \in Members /\ x6[k].user \notin x7
    BY <1>1, <2>1 DEF S!Inv, S!Working
  <2>3. S!ActiveOf(x6[k].user) = {} /\ S!Creating(x6[k].user) = {k}
    BY <2>1, <2>2 DEF S!Inv, S!Apart
  <2>4. x6[k].user # u
    BY <1>12, <2>1, <2>2, <2>3
  <2> QED
    BY <1>6, <1>11, <2>1, <2>2, <2>3, <2>4
<1>14. S!OneActiveUnlessCrossed'
  <2>1. ASSUME NEW v \in Members \ x7'
        PROVE  \A p, q \in S!ActiveOf(v)' : p = q
    <3>1. v \in Members \ x7
      BY <1>1
    <3>2. CASE v = u
      BY <1>2, <1>11, <1>12, <3>1, <3>2
    <3>3. CASE v # u
      BY <1>11, <3>1, <3>3 DEF S!Inv, S!OneActiveUnlessCrossed
    <3> QED
      BY <3>2, <3>3
  <2> QED
    BY <2>1 DEF S!OneActiveUnlessCrossed
<1>15. S!RowsTell'
  <2>1. \A t \in Slots : S!RowsOf(t)' = IF t = s THEN S!RowsOf(t) \cup {r} ELSE S!RowsOf(t)
    BY <1>3, <1>4, <1>5 DEF S!RowsOf
  <2>2. \A e \in S!Event : (S!Done(e)' <=> S!Done(e)) \/ (s # None /\ e = S!Completed(s))
    BY <1>1, <1>6, <1>9 DEF S!Done
  <2>3. s # None => ~S!Done(S!Completed(s)) /\ S!Done(S!Completed(s))'
    <3>1. s # None => ~S!Done(S!Completed(s))
      BY <1>7 DEF S!Done
    <3>2. s # None => S!Done(S!Completed(s))'
      <4>1. s # None => S!Completed(s) \in S!Event
        BY <1>2, MembershipEvents
      <4>2. s # None => (S!Completed(s) \in x4' \ x8'
                             /\ \A k \in Handlers : ~S!Handles(k, S!Completed(s))')
        BY <1>1, <1>6, <1>8, <4>1
      <4> QED
        BY <4>2 DEF S!Done, S!Handles, S!Completed
    <3> QED
      BY <3>1, <3>2
  <2>4. s # None => s \in Slots /\ S!RowsOf(s) = {} /\ S!RowsOf(s)' = {r}
    <3>1. s # None => s \in Slots
      BY <1>2
    <3>2. s # None => S!RowsOf(s) = {}
      BY <2>3, <3>1 DEF S!Inv, S!RowsTell
    <3> QED
      BY <2>1, <3>1, <3>2
  <2>5. ASSUME NEW t \in Slots
        PROVE  /\ \A p, q \in S!RowsOf(t)' : p = q
               /\ S!RowsOf(t)' # {} <=> S!Done(S!Completed(t))' /\ x2'[t].owner # None
               /\ S!Done(S!Deleted(t))' /\ t \notin x9' =>
                     /\ S!RowsOf(t)' # {}
                     /\ \A q \in S!RowsOf(t)' : x5'[q].status = "CANCELLED"
    <3>1. S!Done(S!Deleted(t))' <=> S!Done(S!Deleted(t))
      <4>1. S!Deleted(t) \in S!Event /\ (s # None => S!Deleted(t) # S!Completed(s))
        BY <2>4, MembershipEvents DEF S!Completed, S!Deleted
      <4> QED
        BY <2>2, <4>1 DEF S!Deleted
    <3>2. CASE t = s
      <4>1. s # None
        BY <3>2, ConstantsAreSound DEF S!NoneIsNoValue
      <4>2. ~(S!Done(S!Deleted(t)) /\ t \notin x9)
        BY <2>4, <3>2, <4>1 DEF S!Inv, S!RowsTell
      <4>3. S!Done(S!Completed(t))' /\ S!RowsOf(t)' = {r} /\ x2'[t].owner # None
        BY <1>1, <1>8, <2>3, <2>4, <3>2, <4>1
      <4> QED
        BY <1>1, <3>1, <4>2, <4>3
    <3>3. CASE t # s
      <4>1. S!RowsOf(t)' = S!RowsOf(t) /\ r \notin S!RowsOf(t) /\ S!RowsOf(t) \subseteq Signatures
        BY <1>4, <2>1, <3>3 DEF S!RowsOf
      <4>2. S!Done(S!Completed(t))' <=> S!Done(S!Completed(t))
        <5>1. S!Completed(t) \in S!Event /\ S!Completed(t)' = S!Completed(t)
          BY MembershipEvents DEF S!Completed
        <5>2. s # None => S!Completed(t) # S!Completed(s)
          BY <2>4, <3>3, MembershipEvents
        <5> QED
          BY <2>2, <5>1, <5>2
      <4>3. \A q \in S!RowsOf(t) : x5'[q] = x5[q]
        BY <1>5, <4>1
      <4> QED
        BY <1>1, <3>1, <4>1, <4>2, <4>3 DEF S!Inv, S!RowsTell
    <3> QED
      BY <3>2, <3>3
  <2> QED
    BY <2>5 DEF S!RowsTell, S!Completed, S!Deleted
<1> QED
  BY <1>6, <1>10, <1>13, <1>14, <1>15 DEF S!Inv

\* Nobody's row is made active by a cancellation.
LEMMA MembershipCancelStep ==
  ASSUME S!Inv, NEW u \in Members, NEW r \in Signatures, S!Cancel(u, r)
  PROVE  S!Inv'
<1>1. UNCHANGED <<x1, x2, x3, x4, x6, x7, x8, x9>>
  BY DEF S!Cancel, S!history
<1>2. S!CancelWhere({r})
  BY DEF S!Cancel, S!CancelWhere, S!Inv, S!TypeOK
<1>3. /\ x5' \in [Signatures -> S!Row]
      /\ \A s \in Slots : S!RowsOf(s)' = S!RowsOf(s)
      /\ \A v \in Members : S!ActiveOf(v)' \subseteq S!ActiveOf(v)
      /\ \A q \in Signatures : x5[q].status = "CANCELLED" => x5'[q].status = "CANCELLED"
  BY <1>2, MembershipCancelling
<1>4. \A k \in Handlers, e \in S!Event : S!Handles(k, e)' <=> S!Handles(k, e)
  BY <1>1 DEF S!Handles
<1>5. S!TypeOK' /\ S!Working' /\ S!HandledOnce' /\ S!Reported'
  BY <1>1, <1>3, <1>4
  DEF S!Inv, S!TypeOK, S!Working, S!HandledOnce, S!Reported, S!Completed,
      S!Deleted
<1>6. S!Apart' /\ S!OneActiveUnlessCrossed'
  <2>1. \A v \in Members : S!Creating(v)' = S!Creating(v)
    BY <1>1 DEF S!Creating
  <2>2. \A h \in Handlers : x6[h].pc = "create" => x6[h].user \in Members
    BY DEF S!Inv, S!Working
  <2>3. S!Apart'
    <3> SUFFICES ASSUME NEW k \in Handlers, x6[k].pc = "create", x6[k].user \notin x7
                 PROVE  S!ActiveOf(x6[k].user)' = {} /\ S!Creating(x6[k].user)' = {k}
      BY <1>1 DEF S!Apart, S!ActiveOf, S!Creating
    <3>1. S!ActiveOf(x6[k].user) = {} /\ S!Creating(x6[k].user) = {k}
      BY DEF S!Inv, S!Apart
    <3> QED
      BY <1>1, <1>3, <2>1, <2>2, <3>1
  <2>4. S!OneActiveUnlessCrossed'
    BY <1>1, <1>3 DEF S!Inv, S!OneActiveUnlessCrossed
  <2> QED
    BY <2>3, <2>4
<1>7. S!RowsTell'
  <2>1. \A e \in S!Event : S!Done(e)' <=> S!Done(e)
    BY <1>1, <1>4 DEF S!Done
  <2> QED
    BY <1>1, <1>3, <2>1, MembershipRowsTellStays
<1> QED
  BY <1>5, <1>6, <1>7 DEF S!Inv

\* The end of a subscription, handled after its start, leaves its row cancelled.
LEMMA MembershipDropStep ==
  ASSUME S!Inv, NEW h \in Handlers, S!DropSubscription(h)
  PROVE  S!Inv'
<1> PICK s : s = x6[h].sub
  OBVIOUS
<1>1. /\ UNCHANGED <<x1, x2, x4, x7, x8>>
      /\ x6[h].pc = "drop" /\ x6' = [x6 EXCEPT ![h] = S!Idle]
      /\ S!CancelWhere({r \in Signatures : x5[r].sub = s})
      /\ x9' = IF S!HasRow(s) THEN x9 ELSE x9 \cup {s}
      /\ x3' \subseteq x3
      /\ x3 \ x3' \subseteq {S!Deleted(s)}
  BY DEF S!DropSubscription, S!AnswerOrNot, S!Answer
<1>2. s \in Slots /\ S!Deleted(s) \in S!Event /\ S!Handles(h, S!Deleted(s))
  BY <1>1, MembershipEvents DEF S!Inv, S!Working, S!Handles
<1>3. /\ S!Deleted(s) \in x4 \ x8
      /\ \A k \in Handlers : S!Handles(k, S!Deleted(s)) => k = h
  BY <1>2 DEF S!Inv, S!HandledOnce
<1>4. /\ x5' \in [Signatures -> S!Row]
      /\ \A t \in Slots : S!RowsOf(t)' = S!RowsOf(t)
      /\ \A v \in Members : S!ActiveOf(v)' \subseteq S!ActiveOf(v)
      /\ \A q \in Signatures : x5[q].status = "CANCELLED" => x5'[q].status = "CANCELLED"
      /\ \A q \in S!RowsOf(s) : x5'[q].status # "ACTIVE"
  <2>1. S!RowsOf(s) \subseteq {r \in Signatures : x5[r].sub = s}
    BY DEF S!RowsOf
  <2> QED
    BY <1>1, <2>1, MembershipCancelling
<1>5. /\ x6' \in [Handlers -> S!Job] /\ S!Working'
      /\ \A k \in Handlers : k # h => x6'[k] = x6[k]
      /\ x6'[h] = S!Idle
      /\ \A k \in Handlers, e \in S!Event : S!Handles(k, e)' <=> k # h /\ S!Handles(k, e)
      /\ \A v \in Members : S!Creating(v)' = S!Creating(v) \ {h}
  BY <1>1, MembershipEnding DEF S!Inv
<1>6. \A e \in S!Event : S!Handles(h, e) => e = S!Deleted(s)
  BY <1>1, MembershipEvents DEF S!Handles
<1>7. S!TypeOK' /\ S!HandledOnce' /\ S!Reported'
  <2>1. x3' \cup x4' = x3 \cup x4
    BY <1>1, <1>3
  <2>2. S!Reported'
    BY <1>1, <2>1 DEF S!Inv, S!Reported, S!Completed, S!Deleted
  <2>3. S!TypeOK'
    BY <1>1, <1>2, <1>4, <1>5 DEF S!Inv, S!TypeOK
  <2>4. S!HandledOnce'
    BY <1>1, <1>5 DEF S!Inv, S!HandledOnce
  <2> QED
    BY <2>2, <2>3, <2>4
<1>8. S!Apart' /\ S!OneActiveUnlessCrossed'
  <2>1. \A v \in Members : S!Creating(v)' = S!Creating(v)
    BY <1>1, <1>5 DEF S!Creating
  <2>2. S!Apart'
    <3> SUFFICES ASSUME NEW k \in Handlers, NEW v, x6'[k].pc = "create",
                        v = x6'[k].user, v \notin x7
                 PROVE  S!ActiveOf(v)' = {} /\ S!Creating(v)' = {k}
      BY <1>1 DEF S!Apart
    <3>1. x6'[k] = x6[k] /\ x6[k].user \in Members
      BY <1>5 DEF S!Inv, S!Working, S!Idle
    <3>2. S!ActiveOf(x6[k].user) = {} /\ S!Creating(x6[k].user) = {k}
      BY <3>1 DEF S!Inv, S!Apart
    <3> QED
      BY <1>4, <2>1, <3>1, <3>2
  <2>3. S!OneActiveUnlessCrossed'
    BY <1>1, <1>4 DEF S!Inv, S!OneActiveUnlessCrossed
  <2> QED
    BY <2>2, <2>3
<1>9. S!RowsTell'
  <2>1. \A e \in S!Event : (S!Done(e)' <=> S!Done(e)) \/ e = S!Deleted(s)
    BY <1>1, <1>5, <1>6 DEF S!Done
  <2>2. \A t \in Slots : S!Completed(t)' = S!Completed(t) /\ S!Deleted(t)' = S!Deleted(t)
    BY DEF S!Completed, S!Deleted
  <2>3. x9 \subseteq x9'
    BY <1>1
  <2>4. s \notin x9' => /\ S!RowsOf(s) # {}
                        /\ \A q \in S!RowsOf(s) : x5'[q].status = "CANCELLED"
    <3>1. s \notin x9' => S!RowsOf(s) # {}
      BY <1>1 DEF S!HasRow, S!RowsOf
    <3>2. \A q \in S!RowsOf(s) : q \in Signatures /\ x5'[q].status # "none"
      <4>1. \A q \in S!RowsOf(s) : q \in S!RowsOf(s)'
        BY <1>2, <1>4
      <4> QED
        BY <4>1 DEF S!RowsOf
    <3> QED
      BY <1>4, <3>1, <3>2 DEF S!Row
  <2>5. ASSUME NEW t \in Slots
        PROVE  /\ \A p, q \in S!RowsOf(t)' : p = q
               /\ S!RowsOf(t)' # {} <=> S!Done(S!Completed(t))' /\ x2'[t].owner # None
               /\ S!Done(S!Deleted(t))' /\ t \notin x9' =>
                     /\ S!RowsOf(t)' # {}
                     /\ \A q \in S!RowsOf(t)' : x5'[q].status = "CANCELLED"
    <3>1. S!Done(S!Completed(t))' <=> S!Done(S!Completed(t))
      <4>1. S!Completed(t) \in S!Event /\ S!Completed(t) # S!Deleted(s)
        BY <1>2, MembershipEvents DEF S!Completed, S!Deleted
      <4> QED
        BY <2>1, <2>2, <4>1
    <3>2. t # s => (S!Done(S!Deleted(t))' <=> S!Done(S!Deleted(t)))
      <4>1. S!Deleted(t) \in S!Event /\ (t # s => S!Deleted(t) # S!Deleted(s))
        BY <1>2, MembershipEvents
      <4> QED
        BY <2>1, <2>2, <4>1
    <3>3. S!RowsOf(t) \subseteq Signatures
      BY DEF S!RowsOf
    <3> QED
      BY <1>1, <1>4, <2>3, <2>4, <3>1, <3>2, <3>3 DEF S!Inv, S!RowsTell
  <2> QED
    BY <2>5 DEF S!RowsTell, S!Completed, S!Deleted
<1> QED
  BY <1>5, <1>7, <1>8, <1>9 DEF S!Inv

\* A handler that stops leaves its event recorded and lost.
LEMMA MembershipStopStep ==
  ASSUME S!Inv, NEW h \in Handlers, S!Stop(h)
  PROVE  S!Inv'
<1> PICK s, x : /\ s = x6[h].sub
                /\ x = IF x6[h].pc = "drop" THEN S!Deleted(s) ELSE S!Completed(s)
  OBVIOUS
<1>1. /\ UNCHANGED <<x1, x2, x3, x4, x5, x7, x9>>
      /\ x6[h].pc # "idle" /\ x6' = [x6 EXCEPT ![h] = S!Idle]
      /\ x8' = IF s = None THEN x8 ELSE x8 \cup {x}
  BY DEF S!Stop
<1>2. /\ x6' \in [Handlers -> S!Job] /\ S!Working'
      /\ \A k \in Handlers : k # h => x6'[k] = x6[k]
      /\ x6'[h] = S!Idle
      /\ \A k \in Handlers, e \in S!Event : S!Handles(k, e)' <=> k # h /\ S!Handles(k, e)
      /\ \A v \in Members : S!Creating(v)' = S!Creating(v) \ {h}
  BY <1>1, MembershipEnding DEF S!Inv
<1>3. s # None => s \in Slots /\ x \in S!Event /\ S!Handles(h, x)
  <2>1. x6[h].pc \in {"sweep", "create", "drop"} /\ s \in Slots \cup {None}
    BY <1>1 DEF S!Inv, S!TypeOK, S!Job
  <2> QED
    BY <2>1, MembershipEvents DEF S!Handles
<1>4. s # None => x \in x4 \ x8 /\ \A k \in Handlers : S!Handles(k, x) => k = h
  BY <1>3 DEF S!Inv, S!HandledOnce
<1>5. \A e \in S!Event : S!Handles(h, e) => s # None /\ e = x
  <2> SUFFICES ASSUME NEW e \in S!Event, S!Handles(h, e)
               PROVE  s # None /\ e = x
    OBVIOUS
  <2>1. s = e.sub /\ s \in Slots /\ s # None
    BY MembershipEvents, ConstantsAreSound DEF S!Handles, S!NoneIsNoValue
  <2>2. CASE e.kind = "deleted"
    BY <2>1, <2>2, MembershipEvents DEF S!Handles
  <2>3. CASE e.kind = "completed"
    BY <2>1, <2>3, MembershipEvents DEF S!Handles
  <2> QED
    BY <2>1, <2>2, <2>3, MembershipEvents
<1>6. S!TypeOK' /\ S!HandledOnce' /\ S!Reported'
  <2>1. x8' \subseteq x4'
    BY <1>1, <1>4 DEF S!Inv, S!HandledOnce
  <2>2. S!Reported'
    BY <1>1 DEF S!Inv, S!Reported, S!Completed, S!Deleted
  <2>3. S!TypeOK'
    BY <1>1, <1>2, <2>1 DEF S!Inv, S!TypeOK
  <2>4. \A k \in Handlers, e \in S!Event : S!Handles(k, e)' => e \notin x8'
    BY <1>1, <1>2, <1>4 DEF S!Inv, S!HandledOnce
  <2>5. S!HandledOnce'
    BY <1>1, <1>2, <2>1, <2>4 DEF S!Inv, S!HandledOnce
  <2> QED
    BY <2>2, <2>3, <2>5
<1>7. S!Apart' /\ S!OneActiveUnlessCrossed'
  <2>1. \A v \in Members : S!ActiveOf(v)' = S!ActiveOf(v)
    BY <1>1, MembershipRowsRest
  <2>2. S!Apart'
    <3> SUFFICES ASSUME NEW k \in Handlers, NEW v, x6'[k].pc = "create",
                        v = x6'[k].user, v \notin x7
                 PROVE  S!ActiveOf(v)' = {} /\ S!Creating(v)' = {k}
      BY <1>1 DEF S!Apart
    <3>1. k # h /\ x6'[k] = x6[k] /\ x6[k].user \in Members
      BY <1>2 DEF S!Inv, S!Working, S!Idle
    <3>2. S!ActiveOf(x6[k].user) = {} /\ S!Creating(x6[k].user) = {k}
      BY <3>1 DEF S!Inv, S!Apart
    <3> QED
      BY <1>2, <2>1, <3>1, <3>2
  <2>3. S!OneActiveUnlessCrossed'
    BY <1>1, <2>1 DEF S!Inv, S!OneActiveUnlessCrossed
  <2> QED
    BY <2>2, <2>3
<1>8. S!RowsTell'
  <2>1. ASSUME NEW e \in S!Event
        PROVE  S!Done(e)' <=> S!Done(e)
    <3>1. CASE s # None /\ e = x
      BY <1>1, <1>3, <3>1 DEF S!Done
    <3>2. CASE ~(s # None /\ e = x)
      BY <1>1, <1>2, <1>5, <3>2 DEF S!Done
    <3> QED
      BY <3>1, <3>2
  <2>2. \A t \in Slots : S!RowsOf(t)' = S!RowsOf(t)
    BY <1>1, MembershipRowsRest
  <2> QED
    BY <1>1, <2>1, <2>2, MembershipRowsTellStays
<1> QED
  BY <1>2, <1>6, <1>7, <1>8 DEF S!Inv

\* Every step keeps the invariant.
LEMMA MembershipNextInv == ASSUME S!Inv, [S!Next]_(S!vars) PROVE S!Inv'
<1>1. CASE UNCHANGED S!vars
  <2>1. UNCHANGED <<x1, x2, x3, x4, x5, x6, x7, x8, x9>>
    BY <1>1 DEF S!vars, S!history
  <2> QED
    BY <2>1
    DEF S!Inv, S!TypeOK, S!Working, S!Apart, S!Reported, S!HandledOnce,
        S!RowsTell, S!Handles, S!Done, S!OneActiveUnlessCrossed, S!ActiveOf,
        S!Creating, S!RowsOf, S!Completed, S!Deleted
<1>2. CASE \E s \in Slots : S!SubscriptionEnds(s)
                           \/ \E u \in Members \cup {None} : S!CheckoutPaid(s, u)
  BY <1>2, MembershipStripeStep
<1>3. CASE \E u \in Members, r \in Signatures : S!Cancel(u, r)
  BY <1>3, MembershipCancelStep
<1>4. CASE \E h \in Handlers : \/ \E u \in Members : S!SubscribeInDev(h, u)
                               \/ \E e \in x3 : S!Deliver(h, e)
                               \/ S!SweepActive(h) \/ S!CreateRow(h)
                               \/ S!DropSubscription(h) \/ S!Stop(h)
  BY <1>4, MembershipSubscribeStep, MembershipDeliverStep,
     MembershipSweepStep, MembershipCreateStep, MembershipDropStep,
     MembershipStopStep
<1> QED
  BY <1>1, <1>2, <1>3, <1>4 DEF S!Next

\* What the invariant says of the properties.
LEMMA MembershipInvImplies ==
  ASSUME S!Inv PROVE S!TypeOK /\ S!OneActiveUnlessCrossed /\ S!SettledMirrorsStripe
<1>1. ASSUME NEW s \in Slots, x2[s].owner # None, S!Settled(s)
      PROVE  /\ Cardinality(S!RowsOf(s)) = 1
             /\ x2[s].state = "ended" =>
                   \A r \in S!RowsOf(s) : x5[r].status = "CANCELLED"
  <2>1. \A e \in {S!Completed(s), S!Deleted(s)} :
           /\ e \notin x8 /\ (e \in x3 => e \in x4)
           /\ \A h \in Handlers : ~S!Handles(h, e)
    BY <1>1, MembershipEvents DEF S!Settled, S!Handles
  <2>2. S!Completed(s) \in x4
    BY <1>1, <2>1 DEF S!Inv, S!Reported
  <2>3. S!Done(S!Completed(s))
    BY <2>1, <2>2 DEF S!Done
  <2>4. S!RowsOf(s) # {} /\ \A r, q \in S!RowsOf(s) : r = q
    BY <1>1, <2>3 DEF S!Inv, S!RowsTell
  <2>5. PICK r : S!RowsOf(s) = {r}
    BY <2>4
  <2>6. Cardinality(S!RowsOf(s)) = 1
    BY <2>5, FS_Singleton
  <2>7. x2[s].state = "ended" => S!Done(S!Deleted(s))
    BY <2>1 DEF S!Inv, S!Reported, S!Done
  <2>8. s \notin x9
    BY <1>1 DEF S!Settled
  <2> QED
    BY <2>6, <2>7, <2>8 DEF S!Inv, S!RowsTell
<1> QED
  BY <1>1, SameSets DEF S!Inv, S!SettledMirrorsStripe

-----------------------------------------------------------------------------
(* Purchases.                                                              *)

\* The order of the stages.
LEMMA PurchaseRanks ==
  /\ P!Rank("none") = 0 /\ P!Rank("PAYMENT_CONFIRMED") = 1
  /\ P!Rank("VERIFIED") = 2 /\ P!Rank("ALLOCATED") = 3
BY DEF P!Rank

\* With nothing bought and nobody at work the invariant holds.
LEMMA PurchaseInitInv == ASSUME P!Init PROVE P!Inv
<1>1. P!TypeOK /\ P!Walks
  BY DEF P!Init, P!TypeOK, P!Walks, P!Job, P!Idle
<1>2. \A t \in Txs : P!Rank(x1[t]) <= P!Rank(x3[t]) /\ x1[t] = x3[t]
  <2>1. \A t \in Txs : x1[t] = "none" /\ x3[t] = "none"
    BY DEF P!Init
  <2>2. ASSUME NEW t \in Txs
        PROVE  P!Rank(x1[t]) <= P!Rank(x3[t]) /\ x1[t] = x3[t]
    <3>1. x1[t] = "none" /\ x3[t] = "none"
      BY <2>1
    <3>2. P!Rank(x1[t]) = 0 /\ P!Rank(x3[t]) = 0
      BY <3>1, PurchaseRanks
    <3> QED
      BY <3>1, <3>2
  <2> QED
    BY <2>2
<1> QED
  BY <1>1, <1>2 DEF P!Inv, P!StandsWhereReported

\* When handler h ends, the others walk on as before.
LEMMA PurchaseEnding ==
  ASSUME P!Inv, NEW h \in Handlers, x2' = [x2 EXCEPT ![h] = P!Idle],
         UNCHANGED x3, x1' \in [Txs -> P!Stages \cup {"none"}],
         \A t \in Txs : /\ x1'[t] = "none" <=> x1[t] = "none"
                        /\ x1'[t] = x1[t] \/ x2[h].tx = t,
         \A t \in Txs : x1'[t] = x1[t] \/ x2[h].pc \in {"verify", "allocate"},
         x4' \subseteq Txs, x4 \subseteq x4',
         x2[h].pc \in {"verify", "allocate"} =>
             /\ P!Rank(x1'[x2[h].tx]) <= P!Rank(x2[h].want)
             /\ x1'[x2[h].tx] = x2[h].want \/ x2[h].tx \in x4'
  PROVE  P!Inv'
<1>1. P!Idle \in P!Job /\ P!Idle.pc = "idle" /\ P!Idle.tx = None
  BY DEF P!Idle, P!Job
<1>2. /\ x2' \in [Handlers -> P!Job] /\ x2'[h] = P!Idle
      /\ \A k \in Handlers : k # h => x2'[k] = x2[k]
  BY <1>1 DEF P!Inv, P!TypeOK
<1>3. P!TypeOK'
  BY <1>2 DEF P!Inv, P!TypeOK
<1>4. ASSUME NEW k \in Handlers, k # h, x2[k].pc \in {"verify", "allocate"}
      PROVE  x1'[x2[k].tx] = x1[x2[k].tx]
  BY <1>4 DEF P!Inv, P!Walks
<1>5. P!Walks'
  <2> SUFFICES ASSUME NEW k \in Handlers, NEW j, j = x2'[k]
               PROVE  /\ j.pc = "idle" => j = P!Idle
                      /\ j.pc # "idle" => j.tx \in Txs /\ j.want \in P!Stages
                      /\ j.pc = "verify" => /\ x1'[j.tx] = "PAYMENT_CONFIRMED"
                                            /\ j.want \in {"VERIFIED", "ALLOCATED"}
                      /\ j.pc = "allocate" => /\ x1'[j.tx] = "VERIFIED"
                                              /\ j.want = "ALLOCATED"
                      /\ j.pc \in {"verify", "allocate"} =>
                            /\ x3'[j.tx] = j.want
                            /\ \A i \in Handlers :
                                  x2'[i].pc \in {"verify", "allocate"} /\ x2'[i].tx = j.tx
                                     => i = k
    BY DEF P!Inv, P!Walks, P!Idle
  <2>1. CASE k = h
    BY <1>1, <1>2, <2>1
  <2>2. CASE k # h
    <3>1. j = x2[k]
      BY <1>2, <2>2
    <3>2. \A i \in Handlers : x2'[i].pc \in {"verify", "allocate"} => x2'[i] = x2[i]
      BY <1>1, <1>2
    <3> QED
      BY <1>4, <2>2, <3>1, <3>2 DEF P!Inv, P!Walks
  <2> QED
    BY <2>1, <2>2
<1>6. ASSUME NEW t \in Txs
      PROVE  /\ P!Rank(x1'[t]) <= P!Rank(x3'[t])
             /\ ~P!Walking(t)' /\ t \notin x4' => x1'[t] = x3'[t]
  <2>1. CASE x2[h].tx = t /\ x2[h].pc \in {"verify", "allocate"}
    BY <2>1 DEF P!Inv, P!Walks
  <2>2. CASE ~(x2[h].tx = t /\ x2[h].pc \in {"verify", "allocate"})
    <3>1. x1'[t] = x1[t]
      BY <2>2
    <3>2. P!Walking(t) => P!Walking(t)'
      <4> SUFFICES ASSUME NEW k \in Handlers, x2[k].tx = t, x2[k].pc # "insert"
                   PROVE  P!Walking(t)'
        BY DEF P!Walking
      <4>1. x2[k].pc \in {"verify", "allocate"}
        BY <1>1, ConstantsAreSound
        DEF P!Inv, P!TypeOK, P!Job, P!Walks, P!NoneIsNoTx
      <4>2. x2'[k] = x2[k]
        BY <1>2, <2>2, <4>1
      <4> QED
        BY <4>2 DEF P!Walking
    <3> QED
      BY <3>1, <3>2 DEF P!Inv, P!StandsWhereReported
  <2> QED
    BY <2>1, <2>2
<1> QED
  BY <1>3, <1>5, <1>6 DEF P!Inv, P!StandsWhereReported

\* A delivery begins to insert.
LEMMA PurchaseReceiveStep ==
  ASSUME P!Inv, NEW h \in Handlers, NEW t \in Txs, NEW w \in P!Stages,
         P!Receive(h, t, w)
  PROVE  P!Inv'
<1> PICK n : n = [pc |-> "insert", tx |-> t, want |-> w]
  OBVIOUS
<1>1. n \in P!Job /\ n.pc = "insert" /\ n.tx = t /\ n.want = w
  BY DEF P!Job
<1>2. /\ UNCHANGED <<x1, x3, x4>> /\ x2[h].pc = "idle"
      /\ x2' \in [Handlers -> P!Job] /\ x2'[h] = n
      /\ \A k \in Handlers : k # h => x2'[k] = x2[k]
  BY <1>1 DEF P!Receive, P!Inv, P!TypeOK
<1>3. P!TypeOK'
  BY <1>2 DEF P!Inv, P!TypeOK
<1>4. P!Walks'
  BY <1>1, <1>2 DEF P!Inv, P!Walks
<1>5. \A u \in Txs : P!Walking(u) => P!Walking(u)'
  BY <1>2, ConstantsAreSound
  DEF P!Walking, P!Inv, P!Walks, P!NoneIsNoTx, P!Idle
<1> QED
  BY <1>2, <1>3, <1>4, <1>5 DEF P!Inv, P!StandsWhereReported

\* The one insert of a purchase that succeeds sets its handler walking.
LEMMA PurchaseInsertStep ==
  ASSUME P!Inv, NEW h \in Handlers, P!Insert(h)
  PROVE  P!Inv'
<1> PICK t, w : t = x2[h].tx /\ w = x2[h].want
  OBVIOUS
<1>1. t \in Txs /\ w \in P!Stages /\ x2[h].pc = "insert" /\ UNCHANGED x4
  BY DEF P!Insert, P!Inv, P!Walks
<1>2. CASE x1[t] # "none"
  <2>1. UNCHANGED <<x1, x3>> /\ x2' = [x2 EXCEPT ![h] = P!Idle]
    BY <1>2 DEF P!Insert, P!Goto
  <2> QED
    BY <1>1, <2>1, PurchaseEnding DEF P!Inv, P!TypeOK
<1>3. CASE x1[t] = "none"
  <2>1. /\ x1' = [x1 EXCEPT ![t] = "PAYMENT_CONFIRMED"]
        /\ x3' = [x3 EXCEPT ![t] = w]
        /\ P!Goto(h, P!AfterInsert(w))
    BY <1>3 DEF P!Insert
  <2>2. /\ x1' \in [Txs -> P!Stages \cup {"none"}] /\ x1'[t] = "PAYMENT_CONFIRMED"
        /\ x3' \in [Txs -> P!Stages \cup {"none"}] /\ x3'[t] = w
        /\ \A u \in Txs : u # t => x1'[u] = x1[u] /\ x3'[u] = x3[u]
    BY <1>1, <2>1 DEF P!Inv, P!TypeOK, P!Stages
  <2>3. \A k \in Handlers : x2[k].pc \in {"verify", "allocate"} => x2[k].tx # t
    BY <1>3 DEF P!Inv, P!Walks
  <2>4. P!Idle \in P!Job /\ P!Idle.pc = "idle" /\ P!Idle.tx = None
    BY DEF P!Idle, P!Job
  <2>5. PICK n : /\ x2' = [x2 EXCEPT ![h] = n] /\ n \in P!Job
                 /\ \/ w = "PAYMENT_CONFIRMED" /\ n = P!Idle
                    \/ /\ w \in {"VERIFIED", "ALLOCATED"}
                       /\ n.pc = "verify" /\ n.tx = t /\ n.want = w
    <3>1. CASE w = "PAYMENT_CONFIRMED"
      BY <2>1, <2>4, <3>1 DEF P!Goto, P!AfterInsert
    <3>2. CASE w # "PAYMENT_CONFIRMED"
      <4>1. x2[h] \in P!Job
        BY DEF P!Inv, P!TypeOK
      <4>2. x2' = [x2 EXCEPT ![h] = [x2[h] EXCEPT !.pc = "verify"]]
        BY <2>1, <3>2 DEF P!Goto, P!AfterInsert
      <4>3. w \in {"VERIFIED", "ALLOCATED"}
        BY <1>1, <3>2 DEF P!Stages
      <4> PICK m : m = [x2[h] EXCEPT !.pc = "verify"]
        OBVIOUS
      <4>5. m \in P!Job /\ m.pc = "verify" /\ m.tx = t /\ m.want = w
        BY <4>1 DEF P!Job
      <4> QED
        BY <4>2, <4>3, <4>5
    <3> QED
      BY <3>1, <3>2
  <2>6. /\ x2' \in [Handlers -> P!Job] /\ x2'[h] = n
        /\ \A k \in Handlers : k # h => x2'[k] = x2[k]
    BY <2>5 DEF P!Inv, P!TypeOK
  <2>7. P!TypeOK'
    BY <1>1, <2>2, <2>6 DEF P!Inv, P!TypeOK
  <2>8. P!Walks'
    <3>1. \A u \in Txs : x1'[u] = "none" <=> x3'[u] = "none"
      BY <1>1, <2>2 DEF P!Inv, P!Walks, P!Stages
    <3>2. ASSUME NEW k \in Handlers, NEW j, j = x2'[k]
          PROVE  /\ j.pc = "idle" => j = P!Idle
                 /\ j.pc # "idle" => j.tx \in Txs /\ j.want \in P!Stages
                 /\ j.pc = "verify" => /\ x1'[j.tx] = "PAYMENT_CONFIRMED"
                                       /\ j.want \in {"VERIFIED", "ALLOCATED"}
                 /\ j.pc = "allocate" => /\ x1'[j.tx] = "VERIFIED"
                                         /\ j.want = "ALLOCATED"
                 /\ j.pc \in {"verify", "allocate"} =>
                       /\ x3'[j.tx] = j.want
                       /\ \A i \in Handlers :
                             x2'[i].pc \in {"verify", "allocate"} /\ x2'[i].tx = j.tx
                                => i = k
      <4>1. \A i \in Handlers : i # h /\ x2'[i].pc \in {"verify", "allocate"}
                                   => x2'[i].tx # t
        BY <2>3, <2>6
      <4>2. CASE k = h
        BY <1>1, <2>2, <2>4, <2>5, <2>6, <3>2, <4>1, <4>2
      <4>3. CASE k # h
        <5>1. j = x2[k]
          BY <2>6, <3>2, <4>3
        <5>2. j.pc \in {"verify", "allocate"} => j.tx # t /\ j.tx \in Txs
          BY <2>3, <5>1 DEF P!Inv, P!Walks
        <5>3. j.pc \in {"verify", "allocate"} =>
                 ~(x2'[h].pc \in {"verify", "allocate"} /\ x2'[h].tx = j.tx)
          BY <2>4, <2>5, <2>6, <5>2
        <5> QED
          BY <2>2, <2>6, <4>3, <5>1, <5>2, <5>3 DEF P!Inv, P!Walks
      <4> QED
        BY <4>2, <4>3
    <3> QED
      BY <3>1, <3>2 DEF P!Walks, P!Idle
  <2>9. ASSUME NEW u \in Txs
        PROVE  /\ P!Rank(x1'[u]) <= P!Rank(x3'[u])
               /\ ~P!Walking(u)' /\ u \notin x4' => x1'[u] = x3'[u]
    <3>1. CASE u = t
      <4>1. P!Rank(x1'[u]) <= P!Rank(x3'[u])
        BY <1>1, <2>2, <3>1, PurchaseRanks DEF P!Stages
      <4>2. w # "PAYMENT_CONFIRMED" => P!Walking(u)'
        BY <2>5, <2>6, <3>1 DEF P!Walking
      <4> QED
        BY <2>2, <3>1, <4>1, <4>2
    <3>2. CASE u # t
      <4>1. P!Walking(u) => P!Walking(u)'
        BY <1>1, <2>6, <3>2 DEF P!Walking
      <4> QED
        BY <1>1, <2>2, <3>2, <4>1 DEF P!Inv, P!StandsWhereReported
    <3> QED
      BY <3>1, <3>2
  <2> QED
    BY <2>7, <2>8, <2>9 DEF P!Inv, P!StandsWhereReported
<1> QED
  BY <1>2, <1>3

\* A guarded update of the row the handler walks forward always succeeds.
LEMMA PurchaseVerifyStep ==
  ASSUME P!Inv, NEW h \in Handlers, P!MarkVerified(h)
  PROVE  P!Inv'
<1> PICK t, w : t = x2[h].tx /\ w = x2[h].want
  OBVIOUS
<1>1. /\ t \in Txs /\ w \in {"VERIFIED", "ALLOCATED"} /\ x2[h].pc = "verify"
      /\ UNCHANGED <<x3, x4>> /\ x1[t] = "PAYMENT_CONFIRMED"
      /\ x3[t] = w
      /\ \A k \in Handlers :
            x2[k].pc \in {"verify", "allocate"} /\ x2[k].tx = t => k = h
  BY DEF P!MarkVerified, P!Inv, P!Walks
<1>2. /\ x1' = [x1 EXCEPT ![t] = "VERIFIED"]
      /\ P!Goto(h, IF w = "ALLOCATED" THEN "allocate" ELSE "idle")
  BY <1>1 DEF P!MarkVerified, P!Advance
<1>3. /\ x1' \in [Txs -> P!Stages \cup {"none"}] /\ x1'[t] = "VERIFIED"
      /\ \A u \in Txs : u # t => x1'[u] = x1[u]
  BY <1>1, <1>2 DEF P!Inv, P!TypeOK, P!Stages
<1>4. CASE w = "VERIFIED"
  <2>1. x2' = [x2 EXCEPT ![h] = P!Idle]
    BY <1>2, <1>4 DEF P!Goto
  <2> QED
    <3>1. P!Rank(x1'[t]) <= P!Rank(w) /\ x1'[t] = w
      BY <1>3, <1>4, PurchaseRanks
    <3>2. /\ \A u \in Txs : /\ x1'[u] = "none" <=> x1[u] = "none"
                            /\ x1'[u] = x1[u] \/ t = u
          /\ x4' \subseteq Txs
      BY <1>1, <1>3 DEF P!Inv, P!TypeOK
    <3> QED
      BY <1>1, <1>3, <2>1, <3>1, <3>2, PurchaseEnding
<1>5. CASE w = "ALLOCATED"
  <2>1. PICK n : /\ x2' = [x2 EXCEPT ![h] = n] /\ n \in P!Job
                 /\ n.pc = "allocate" /\ n.tx = t /\ n.want = w
    <3>1. x2[h] \in P!Job
      BY DEF P!Inv, P!TypeOK
    <3>2. x2' = [x2 EXCEPT ![h] = [x2[h] EXCEPT !.pc = "allocate"]]
      BY <1>2, <1>5 DEF P!Goto
    <3> PICK m : m = [x2[h] EXCEPT !.pc = "allocate"]
      OBVIOUS
    <3>5. m \in P!Job /\ m.pc = "allocate" /\ m.tx = t /\ m.want = w
      BY <3>1 DEF P!Job
    <3> QED
      BY <3>2, <3>5
  <2>2. /\ x2' \in [Handlers -> P!Job] /\ x2'[h] = n
        /\ \A k \in Handlers : k # h => x2'[k] = x2[k]
    BY <2>1 DEF P!Inv, P!TypeOK
  <2>3. P!TypeOK'
    BY <1>1, <1>3, <2>2 DEF P!Inv, P!TypeOK
  <2>4. P!Walks'
    <3>1. \A u \in Txs : x1'[u] = "none" <=> x3'[u] = "none"
      BY <1>1, <1>3 DEF P!Inv, P!Walks
    <3>2. ASSUME NEW k \in Handlers, NEW j, j = x2'[k]
          PROVE  /\ j.pc = "idle" => j = P!Idle
                 /\ j.pc # "idle" => j.tx \in Txs /\ j.want \in P!Stages
                 /\ j.pc = "verify" => /\ x1'[j.tx] = "PAYMENT_CONFIRMED"
                                       /\ j.want \in {"VERIFIED", "ALLOCATED"}
                 /\ j.pc = "allocate" => /\ x1'[j.tx] = "VERIFIED"
                                         /\ j.want = "ALLOCATED"
                 /\ j.pc \in {"verify", "allocate"} =>
                       /\ x3'[j.tx] = j.want
                       /\ \A i \in Handlers :
                             x2'[i].pc \in {"verify", "allocate"} /\ x2'[i].tx = j.tx
                                => i = k
      <4>1. \A i \in Handlers : i # h /\ x2'[i].pc \in {"verify", "allocate"}
                                   => x2'[i].tx # t
        BY <1>1, <2>2
      <4>2. CASE k = h
        BY <1>1, <1>3, <1>5, <2>1, <2>2, <3>2, <4>1, <4>2 DEF P!Stages
      <4>3. CASE k # h
        <5>1. j = x2[k]
          BY <2>2, <3>2, <4>3
        <5>2. j.pc \in {"verify", "allocate"} => j.tx # t /\ j.tx \in Txs
          BY <1>1, <4>3, <5>1 DEF P!Inv, P!Walks
        <5>3. j.pc \in {"verify", "allocate"} => x2'[h].tx # j.tx
          BY <2>1, <2>2, <5>2
        <5> QED
          BY <1>1, <1>3, <2>2, <4>3, <5>1, <5>2, <5>3 DEF P!Inv, P!Walks
      <4> QED
        BY <4>2, <4>3
    <3> QED
      BY <3>1, <3>2 DEF P!Walks, P!Idle
  <2>5. ASSUME NEW u \in Txs
        PROVE  /\ P!Rank(x1'[u]) <= P!Rank(x3'[u])
               /\ ~P!Walking(u)' /\ u \notin x4' => x1'[u] = x3'[u]
    <3>1. CASE u = t
      <4>1. P!Rank(x1'[u]) <= P!Rank(x3'[u])
        BY <1>1, <1>3, <1>5, <3>1, PurchaseRanks
      <4>2. P!Walking(u)'
        BY <2>1, <2>2, <3>1 DEF P!Walking
      <4> QED
        BY <4>1, <4>2
    <3>2. CASE u # t
      <4>1. P!Walking(u) => P!Walking(u)'
        BY <1>1, <2>2, <3>2 DEF P!Walking
      <4> QED
        BY <1>1, <1>3, <3>2, <4>1 DEF P!Inv, P!StandsWhereReported
    <3> QED
      BY <3>1, <3>2
  <2> QED
    BY <2>3, <2>4, <2>5 DEF P!Inv, P!StandsWhereReported
<1> QED
  BY <1>1, <1>4, <1>5

\* Every step keeps the invariant.
LEMMA PurchaseNextInv == ASSUME P!Inv, [P!Next]_(P!vars) PROVE P!Inv'
<1>1. CASE UNCHANGED P!vars
  BY <1>1
  DEF P!vars, P!Inv, P!TypeOK, P!Walks, P!StandsWhereReported, P!Walking
<1>2. ASSUME NEW h \in Handlers, P!NoReference(h)
      PROVE  P!Inv'
  BY <1>2, PurchaseEnding DEF P!NoReference, P!Goto, P!Inv, P!TypeOK
<1>3. ASSUME NEW h \in Handlers, P!Allocate(h)
      PROVE  P!Inv'
  <2> PICK t : t = x2[h].tx
    OBVIOUS
  <2>1. /\ t \in Txs /\ x2[h].want = "ALLOCATED" /\ x2[h].pc = "allocate"
        /\ UNCHANGED <<x3, x4>> /\ x1[t] = "VERIFIED"
    BY <1>3 DEF P!Allocate, P!Inv, P!Walks
  <2>2. /\ x1' = [x1 EXCEPT ![t] = "ALLOCATED"]
        /\ x2' = [x2 EXCEPT ![h] = P!Idle]
    BY <1>3, <2>1 DEF P!Allocate, P!Advance, P!Goto
  <2>3. /\ x1' \in [Txs -> P!Stages \cup {"none"}] /\ x1'[t] = "ALLOCATED"
        /\ \A u \in Txs : u # t => x1'[u] = x1[u]
    BY <2>1, <2>2 DEF P!Inv, P!TypeOK, P!Stages
  <2> QED
    <3>1. P!Rank(x1'[t]) <= P!Rank(x2[h].want) /\ x1'[t] = x2[h].want
      BY <2>1, <2>3, PurchaseRanks
    <3>2. /\ \A u \in Txs : /\ x1'[u] = "none" <=> x1[u] = "none"
                            /\ x1'[u] = x1[u] \/ t = u
          /\ x4' \subseteq Txs
      BY <2>1, <2>3 DEF P!Inv, P!TypeOK
    <3> QED
      BY <2>1, <2>2, <2>3, <3>1, <3>2, PurchaseEnding
<1>4. ASSUME NEW h \in Handlers, P!Stop(h)
      PROVE  P!Inv'
  <2> PICK t : t = x2[h].tx
    OBVIOUS
  <2>1. /\ x2[h].pc # "idle" /\ t \in Txs /\ UNCHANGED <<x1, x3>>
        /\ x2' = [x2 EXCEPT ![h] = P!Idle]
        /\ x4' = IF x2[h].pc = "insert" THEN x4 ELSE x4 \cup {t}
    BY <1>4 DEF P!Stop, P!Goto, P!Inv, P!Walks
  <2>2. x4 \subseteq x4' /\ x4' \subseteq Txs
    BY <2>1 DEF P!Inv, P!TypeOK
  <2>3. x2[h].pc \in {"verify", "allocate"} =>
            /\ P!Rank(x1'[t]) <= P!Rank(x2[h].want) /\ t \in x4'
    BY <2>1 DEF P!Inv, P!Walks, P!StandsWhereReported
  <2> QED
    BY <2>1, <2>2, <2>3, PurchaseEnding DEF P!Inv, P!TypeOK
<1> QED
  BY <1>1, <1>2, <1>3, <1>4, PurchaseReceiveStep, PurchaseInsertStep,
     PurchaseVerifyStep
  DEF P!Next

-----------------------------------------------------------------------------
(* Rewards.                                                                *)

\* Calls that have been let through the count and have not logged.
Racing == {h \in Handlers : x5[h].pc \in {"credit", "log"}}

\* With nothing reported the invariant holds.
LEMMA RewardInitInv ==
  ASSUME R!Init PROVE R!Inv
<1>1. R!TypeOK /\ R!Reporting /\ R!LogAgreesWithLedger
  BY ConstantsAreSound
  DEF R!Init, R!TypeOK, R!Reporting, R!LogAgreesWithLedger, R!Job, R!Idle,
      R!NoneIsNoEvent
<1>2. R!Counted = {} /\ Racing = {}
  BY DEF R!Init, R!Counted, Racing, R!Idle
<1>3. IsFiniteSet(R!Counted) /\ Cardinality(R!Counted) = 0 /\ Cardinality(Racing) = 0
  BY <1>2, FS_EmptySet
<1>4. Cardinality(Handlers) \in Nat
  BY FS_CardinalityType, ConstantsAreSound, SameSets DEF R!HandlersAreFinite
<1>5. R!CapHoldsButForTheRace
  BY <1>3, <1>4, ConstantsAreSound, SameSets
  DEF R!CapHoldsButForTheRace, R!CapIsPositive, Racing
<1> QED
  BY <1>1, <1>3, <1>5, SameSets DEF R!Inv

\* How many are counted and racing, in numbers.
LEMMA RewardNumbers ==
  ASSUME R!Inv
  PROVE  /\ Cap \in Nat /\ Cap > 0
         /\ Cardinality(Handlers) \in Nat
         /\ IsFiniteSet(Racing) /\ Cardinality(Racing) \in Nat
         /\ IsFiniteSet(R!Counted) /\ Cardinality(R!Counted) \in Nat
         /\ Cardinality(R!Counted) + Cardinality(Racing) <= Cap + Cardinality(Handlers) - 1
<1>1. IsFiniteSet(Racing)
  BY FS_Subset, ConstantsAreSound, SameSets DEF R!HandlersAreFinite, Racing
<1> QED
  BY <1>1, FS_CardinalityType, ConstantsAreSound, SameSets
  DEF R!CapIsPositive, R!HandlersAreFinite, R!Inv, R!CapHoldsButForTheRace,
      Racing

(* The race goes on with one handler less and one event counted more, or   *)
(* with less than that.                                                    *)
LEMMA RewardRaceGoesOn ==
  ASSUME R!Inv,
         R!Counted' \subseteq R!Counted, Racing' \subseteq Racing
  PROVE  IsFiniteSet(R!Counted)' /\ R!CapHoldsButForTheRace'
<1>1. IsFiniteSet(R!Counted') /\ Cardinality(R!Counted') <= Cardinality(R!Counted)
  BY RewardNumbers, FS_Subset
<1>2. IsFiniteSet(Racing') /\ Cardinality(Racing') <= Cardinality(Racing)
  BY RewardNumbers, FS_Subset
<1>3. Cardinality(R!Counted') \in Nat /\ Cardinality(Racing') \in Nat
  BY <1>1, <1>2, FS_CardinalityType
<1> QED
  BY <1>1, <1>2, <1>3, RewardNumbers, SameSets
  DEF R!CapHoldsButForTheRace, Racing

\* A handler goes on to n, about the event it is about.
LEMMA RewardGoingOn ==
  ASSUME R!Inv, NEW h \in Handlers, NEW pc, R!Goto(h, pc),
         x5[h].pc # "idle", pc \in {"rule", "count", "credit", "log", "deny"},
         UNCHANGED <<x1, x2, x3, R!history>>,
         x4' = x4 \/ /\ x4' = x4 \cup {x5[h].event}
                     /\ pc = "log",
         pc = "log" => x5[h].event \in x4',
         x5[h].pc # "log"
  PROVE  R!TypeOK' /\ R!Reporting' /\ R!LogAgreesWithLedger' /\ R!Counted' = R!Counted
<1> PICK e, n : e = x5[h].event /\ n = [x5[h] EXCEPT !.pc = pc]
  OBVIOUS
<1>1. e \in Signatures /\ x5[h] \in R!Job
  BY SameSets DEF R!Inv, R!TypeOK, R!Reporting
<1>2. n \in R!Job /\ n.pc = pc /\ n.event = e /\ n = [pc |-> pc, event |-> e]
  BY <1>1 DEF R!Job
<1>3. /\ x5' \in [Handlers -> R!Job] /\ x5'[h] = n
      /\ \A k \in Handlers : k # h => x5'[k] = x5[k]
  BY <1>2, SameSets DEF R!Goto, R!Inv, R!TypeOK
<1>4. /\ UNCHANGED <<x1, x2, x3, x6, x7>> /\ x4 \subseteq x4'
      /\ x4' \subseteq x4 \cup {e}
  BY DEF R!history
<1>5. R!TypeOK' /\ R!Reporting'
  <2>1. R!TypeOK'
    BY <1>1, <1>3, <1>4, SameSets DEF R!Inv, R!TypeOK
  <2>2. \A k \in Handlers :
           /\ x5'[k].pc = "idle" => x5'[k] = R!Idle
           /\ x5'[k].pc # "idle" => x5'[k].event \in Signatures
           /\ x5'[k].pc = "log" => x5'[k].event \in x4'
    BY <1>1, <1>2, <1>3, <1>4, SameSets DEF R!Inv, R!Reporting
  <2>3. \A k \in Handlers : x5'[k].event = x5[k].event
    BY <1>2, <1>3
  <2>4. R!Reporting'
    BY <1>4, <2>2, <2>3, SameSets DEF R!Inv, R!Reporting, R!Idle
  <2> QED
    BY <2>1, <2>4
<1>6. ASSUME NEW f \in Signatures
      PROVE  /\ x2'[f] = "credited" => f \in x4'
             /\ f \in x4' /\ f \notin x7' \cup x6' =>
                   \/ x2'[f] = "credited"
                   \/ \E k \in Handlers : x5'[k] = [pc |-> "log", event |-> f]
  <2>1. x2'[f] = "credited" => f \in x4'
    BY <1>4, SameSets DEF R!Inv, R!LogAgreesWithLedger
  <2>2. CASE f \in x4
    <3>1. \A k \in Handlers : x5[k] = [pc |-> "log", event |-> f] => x5'[k] = x5[k]
      BY <1>3
    <3> QED
      BY <1>4, <2>1, <2>2, <3>1, SameSets DEF R!Inv, R!LogAgreesWithLedger
  <2>3. CASE f \notin x4
    BY <1>2, <1>3, <1>4, <2>1, <2>3
  <2> QED
    BY <2>2, <2>3
<1>7. R!LogAgreesWithLedger'
  BY <1>6 DEF R!LogAgreesWithLedger
<1>8. R!Counted' = R!Counted
  BY <1>4 DEF R!Counted
<1> QED
  BY <1>5, <1>7, <1>8

\* Who is let through the count found less than the cap.
LEMMA RewardCountStep ==
  ASSUME R!Inv, NEW h \in Handlers, R!Count(h)
  PROVE  R!Inv'
<1> PICK pc : pc = IF R!UnderCap THEN "credit" ELSE "deny"
  OBVIOUS
<1>1. R!Goto(h, pc) /\ x5[h].pc = "count" /\ UNCHANGED <<x1, x2, x3, x4, R!history>>
  BY DEF R!Count
<1>2. R!TypeOK' /\ R!Reporting' /\ R!LogAgreesWithLedger' /\ R!Counted' = R!Counted
  BY <1>1, RewardGoingOn
<1>3. \A k \in Handlers : k # h => x5'[k] = x5[k]
  BY <1>1, SameSets DEF R!Goto, R!Inv, R!TypeOK
<1>4. CASE R!UnderCap
  <2>1. Cardinality(R!Counted) < Cap
    BY <1>4, SameSets DEF R!UnderCap
  <2>2. IsFiniteSet(Racing') /\ Cardinality(Racing') <= Cardinality(Handlers)
    BY FS_Subset, ConstantsAreSound, SameSets DEF R!HandlersAreFinite, Racing
  <2>3. Cardinality(Racing') \in Nat
    BY <2>2, FS_CardinalityType
  <2>4. R!CapHoldsButForTheRace'
    BY <1>2, <2>1, <2>2, <2>3, RewardNumbers, SameSets
    DEF R!CapHoldsButForTheRace, Racing
  <2> QED
    BY <1>2, <2>4, SameSets DEF R!Inv
<1>5. CASE ~R!UnderCap
  <2>1. x5'[h].pc = "deny"
    BY <1>1, <1>5, SameSets DEF R!Goto, R!Inv, R!TypeOK, R!Job
  <2>2. Racing' \subseteq Racing
    BY <1>3, <2>1 DEF Racing
  <2> QED
    BY <1>2, <2>2, RewardRaceGoesOn, SameSets DEF R!Inv
<1> QED
  BY <1>4, <1>5

\* When handler h ends, the others are where they were.
LEMMA RewardEnding ==
  ASSUME R!Inv, NEW h \in Handlers, R!End(h)
  PROVE  /\ x5' \in [Handlers -> R!Job] /\ x5'[h] = R!Idle
         /\ R!Idle.pc = "idle" /\ R!Idle.event = None
         /\ \A k \in Handlers : k # h => x5'[k] = x5[k]
         /\ Racing' = Racing \ {h}
<1>1. R!Idle \in R!Job /\ R!Idle.pc = "idle" /\ R!Idle.event = None
  BY DEF R!Idle, R!Job
<1>2. /\ x5' \in [Handlers -> R!Job] /\ x5'[h] = R!Idle
      /\ \A k \in Handlers : k # h => x5'[k] = x5[k]
  BY <1>1, SameSets DEF R!End, R!Inv, R!TypeOK
<1> QED
  BY <1>1, <1>2 DEF Racing

\* What is logged was credited, or neither credited nor logged before.
LEMMA RewardLogStep ==
  ASSUME R!Inv, NEW h \in Handlers,
         R!LogCredit(h) \/ R!LogDenial(h)
  PROVE  R!Inv'
<1> PICK e, outcome : /\ e = x5[h].event
                      /\ outcome = IF x5[h].pc = "log" THEN "credited" ELSE "denied"
  OBVIOUS
<1>1. /\ UNCHANGED <<x1, x3, x4, x6, x7>> /\ R!End(h)
      /\ x5[h].pc \in {"log", "deny"} /\ x2' = R!Logged(e, outcome)
  BY DEF R!LogCredit, R!LogDenial, R!history
<1>2. e \in Signatures /\ (x5[h].pc = "log" => e \in x4)
  BY <1>1, SameSets DEF R!Inv, R!Reporting
<1>3. /\ x2' \in [Signatures -> {"none", "credited", "denied"}]
      /\ \A f \in Signatures : f # e => x2'[f] = x2[f]
      /\ x2'[e] = IF x2[e] = "none" THEN outcome ELSE x2[e]
  BY <1>1, <1>2, SameSets DEF R!Logged, R!Inv, R!TypeOK
<1>4. /\ x5' \in [Handlers -> R!Job] /\ x5'[h] = R!Idle
      /\ R!Idle.pc = "idle" /\ R!Idle.event = None
      /\ \A k \in Handlers : k # h => x5'[k] = x5[k]
      /\ Racing' = Racing \ {h}
  BY <1>1, RewardEnding
<1>5. e \notin x6 => /\ x2[e] = "none"
                     /\ \A k \in Handlers : x5[k].event = e => k = h
  BY <1>2, SameSets DEF R!Inv, R!Reporting
<1>6. R!TypeOK'
  BY <1>1, <1>3, <1>4, SameSets DEF R!Inv, R!TypeOK
<1>7. R!Reporting'
  <2>1. ASSUME NEW f \in Signatures \ x6', NEW k \in Handlers, x5'[k].event = f
        PROVE  x2'[f] = "none" /\ \A i \in Handlers : x5'[i].event = f => i = k
    <3>1. k # h /\ x5'[k] = x5[k]
      BY <1>4, <2>1, ConstantsAreSound DEF R!NoneIsNoEvent
    <3>2. f # e
      BY <1>1, <1>5, <2>1, <3>1
    <3>3. \A i \in Handlers : x5'[i].event = f => x5[i].event = f
      BY <1>4, <2>1, ConstantsAreSound DEF R!NoneIsNoEvent
    <3> QED
      BY <1>1, <1>3, <2>1, <3>1, <3>2, <3>3, SameSets DEF R!Inv, R!Reporting
  <2>2. \A k \in Handlers :
           /\ x5'[k].pc = "idle" => x5'[k] = R!Idle
           /\ x5'[k].pc # "idle" => x5'[k].event \in Signatures
           /\ x5'[k].pc = "log" => x5'[k].event \in x4'
    BY <1>1, <1>4, SameSets DEF R!Inv, R!Reporting
  <2> QED
    BY <2>1, <2>2 DEF R!Reporting, R!Idle
<1>8. ASSUME NEW f \in Signatures
      PROVE  /\ x2'[f] = "credited" => f \in x4'
             /\ f \in x4' /\ f \notin x7' \cup x6' =>
                   \/ x2'[f] = "credited"
                   \/ \E k \in Handlers : x5'[k] = [pc |-> "log", event |-> f]
  <2>1. x2'[f] = "credited" => f \in x4'
    BY <1>1, <1>2, <1>3, SameSets DEF R!Inv, R!LogAgreesWithLedger
  <2>2. CASE f # e
    <3>1. \A k \in Handlers : x5[k] = [pc |-> "log", event |-> f] => x5'[k] = x5[k]
      BY <1>4, <2>2
    <3> QED
      BY <1>1, <1>3, <2>1, <2>2, <3>1, SameSets
      DEF R!Inv, R!LogAgreesWithLedger
  <2>3. CASE f = e
    <3>1. CASE x5[h].pc = "log"
      BY <1>1, <1>3, <1>5, <2>1, <2>3, <3>1
    <3>2. CASE x5[h].pc = "deny"
      <4>1. e \in x4 /\ e \notin x7 \cup x6 => FALSE
        <5>1. \A k \in Handlers : x5[k] = [pc |-> "log", event |-> e] =>
                 x5[k].pc = "log" /\ x5[k].event = e
          OBVIOUS
        <5> QED
          BY <1>2, <1>5, <3>2, <5>1, SameSets DEF R!Inv, R!LogAgreesWithLedger
      <4> QED
        BY <1>1, <2>1, <2>3, <4>1
    <3> QED
      BY <1>1, <3>1, <3>2
  <2> QED
    BY <2>2, <2>3
<1>9. R!LogAgreesWithLedger'
  BY <1>8 DEF R!LogAgreesWithLedger
<1>10. CASE x5[h].pc = "log"
  <2>1. h \in Racing
    BY <1>10 DEF Racing
  <2>2. R!Counted' \subseteq R!Counted \cup {e}
    BY <1>1, <1>3 DEF R!Counted
  <2>3. /\ IsFiniteSet(R!Counted \cup {e})
        /\ Cardinality(R!Counted \cup {e}) <= Cardinality(R!Counted) + 1
    <3>1. IsFiniteSet(R!Counted) /\ Cardinality(R!Counted) \in Nat
      BY RewardNumbers
    <3>2. /\ IsFiniteSet(R!Counted \cup {e})
          /\ Cardinality(R!Counted \cup {e})
                = IF e \in R!Counted THEN Cardinality(R!Counted) ELSE Cardinality(R!Counted) + 1
      BY <3>1, FS_AddElement
    <3> QED
      BY <3>1, <3>2
  <2>4. /\ IsFiniteSet(R!Counted') /\ Cardinality(R!Counted') <= Cardinality(R!Counted \cup {e})
    BY <2>2, <2>3, FS_Subset
  <2>5. IsFiniteSet(Racing') /\ Cardinality(Racing') = Cardinality(Racing) - 1
    BY <1>4, <2>1, RewardNumbers, FS_RemoveElement
  <2>6. /\ Cardinality(R!Counted') \in Nat /\ Cardinality(Racing') \in Nat
        /\ Cardinality(R!Counted \cup {e}) \in Nat
    BY <2>3, <2>4, <2>5, FS_CardinalityType
  <2>7. Cardinality(R!Counted') + Cardinality(Racing') <= Cap + Cardinality(Handlers) - 1
    BY <2>3, <2>4, <2>5, <2>6, RewardNumbers
  <2> QED
    BY <1>6, <1>7, <1>9, <2>4, <2>7, SameSets
    DEF R!Inv, R!CapHoldsButForTheRace, Racing
<1>11. CASE x5[h].pc = "deny"
  <2>1. R!Counted' \subseteq R!Counted
    BY <1>1, <1>3, <1>11 DEF R!Counted
  <2> QED
    BY <1>4, <1>6, <1>7, <1>9, <2>1, RewardRaceGoesOn, SameSets DEF R!Inv
<1> QED
  BY <1>1, <1>10, <1>11

\* Every step keeps the invariant.
LEMMA RewardNextInv ==
  ASSUME R!Inv, [R!Next]_(R!vars) PROVE R!Inv'
<1>1. CASE UNCHANGED <<x2, x3, x4, x5, x6, x7>> /\ x1' \in BOOLEAN
  <2>1. R!Counted' = R!Counted /\ Racing' = Racing
    BY <1>1 DEF R!Counted, Racing
  <2>2. IsFiniteSet(R!Counted)' /\ R!CapHoldsButForTheRace'
    BY <2>1, RewardRaceGoesOn
  <2> QED
    BY <1>1, <2>2, SameSets
    DEF R!Inv, R!TypeOK, R!Reporting, R!LogAgreesWithLedger
<1>2. ASSUME NEW e \in Signatures, R!Age(e)
      PROVE  R!Inv'
  <2>1. UNCHANGED <<x1, x2, x4, x5, x6, x7>> /\ x3' = x3 \cup {e}
    BY <1>2 DEF R!Age, R!history
  <2>2. R!Counted' \subseteq R!Counted /\ Racing' = Racing
    BY <2>1 DEF R!Counted, Racing
  <2>3. IsFiniteSet(R!Counted)' /\ R!CapHoldsButForTheRace'
    BY <2>2, RewardRaceGoesOn
  <2> QED
    BY <2>1, <2>3, SameSets
    DEF R!Inv, R!TypeOK, R!Reporting, R!LogAgreesWithLedger
<1>3. ASSUME NEW e \in Signatures, NEW h \in Handlers, R!Report(h, e)
      PROVE  R!Inv'
  <2> PICK n : n = [pc |-> "rule", event |-> e]
    OBVIOUS
  <2>1. n \in R!Job /\ n.pc = "rule" /\ n.event = e
    BY DEF R!Job
  <2>2. /\ UNCHANGED <<x1, x2, x3, x4, x7>>
        /\ x5[h].pc = "idle" /\ x2[e] = "none"
        /\ x5' \in [Handlers -> R!Job] /\ x5'[h] = n
        /\ \A k \in Handlers : k # h => x5'[k] = x5[k]
        /\ x6' = IF \E k \in Handlers : x5[k].event = e THEN x6 \cup {e} ELSE x6
    BY <1>3, <2>1, SameSets DEF R!Report, R!Inv, R!TypeOK
  <2>3. R!TypeOK'
    BY <2>2, SameSets DEF R!Inv, R!TypeOK
  <2>4. R!Reporting'
    <3>1. ASSUME NEW f \in Signatures \ x6', NEW k \in Handlers, x5'[k].event = f
          PROVE  x2'[f] = "none" /\ \A i \in Handlers : x5'[i].event = f => i = k
      <4>1. f \in Signatures \ x6
        BY <2>2
      <4>2. CASE f = e
        <5>1. \A i \in Handlers : x5[i].event # e
          BY <2>2, <4>2
        <5> QED
          BY <2>1, <2>2, <3>1, <4>2, <5>1
      <4>3. CASE f # e
        <5>1. \A i \in Handlers : x5'[i].event = f => x5[i].event = f
          BY <2>1, <2>2, <4>3
        <5> QED
          BY <2>2, <3>1, <4>1, <5>1, SameSets DEF R!Inv, R!Reporting
      <4> QED
        BY <4>2, <4>3
    <3>2. \A k \in Handlers :
             /\ x5'[k].pc = "idle" => x5'[k] = R!Idle
             /\ x5'[k].pc # "idle" => x5'[k].event \in Signatures
             /\ x5'[k].pc = "log" => x5'[k].event \in x4'
      BY <2>1, <2>2, SameSets DEF R!Inv, R!Reporting
    <3> QED
      BY <3>1, <3>2 DEF R!Reporting, R!Idle
  <2>5. R!LogAgreesWithLedger'
    <3>1. \A f \in Signatures, k \in Handlers :
             x5[k] = [pc |-> "log", event |-> f] => x5'[k] = x5[k]
      BY <2>2
    <3>2. x6 \subseteq x6'
      BY <2>2
    <3> QED
      BY <2>2, <3>1, <3>2, SameSets DEF R!Inv, R!LogAgreesWithLedger
  <2>6. R!Counted' = R!Counted /\ Racing' \subseteq Racing
    BY <2>1, <2>2 DEF R!Counted, Racing
  <2> QED
    BY <2>3, <2>4, <2>5, <2>6, RewardRaceGoesOn, SameSets DEF R!Inv
<1>4. ASSUME NEW h \in Handlers, R!ReadRule(h)
      PROVE  R!Inv'
  <2> PICK pc : pc = IF x1 THEN "count" ELSE "deny"
    OBVIOUS
  <2>1. R!Goto(h, pc) /\ x5[h].pc = "rule" /\ UNCHANGED <<x1, x2, x3, x4, R!history>>
    BY <1>4 DEF R!ReadRule
  <2>2. R!TypeOK' /\ R!Reporting' /\ R!LogAgreesWithLedger' /\ R!Counted' = R!Counted
    BY <2>1, RewardGoingOn
  <2>3. Racing' \subseteq Racing
    <3>1. x5'[h].pc = pc /\ \A k \in Handlers : k # h => x5'[k] = x5[k]
      BY <2>1, SameSets DEF R!Goto, R!Inv, R!TypeOK, R!Job
    <3> QED
      BY <3>1 DEF Racing
  <2> QED
    BY <2>2, <2>3, RewardRaceGoesOn, SameSets DEF R!Inv
<1>5. ASSUME NEW h \in Handlers, R!Credit(h)
      PROVE  R!Inv'
  <2>1. /\ R!Goto(h, "log") /\ x5[h].pc = "credit" /\ UNCHANGED <<x1, x2, x3, R!history>>
        /\ x4' = x4 \cup {x5[h].event}
    BY <1>5 DEF R!Credit
  <2>2. R!TypeOK' /\ R!Reporting' /\ R!LogAgreesWithLedger' /\ R!Counted' = R!Counted
    BY <2>1, RewardGoingOn
  <2>3. Racing' \subseteq Racing
    <3>1. \A k \in Handlers : k # h => x5'[k] = x5[k]
      BY <2>1, SameSets DEF R!Goto, R!Inv, R!TypeOK, R!Job
    <3> QED
      BY <2>1, <3>1 DEF Racing
  <2> QED
    BY <2>2, <2>3, RewardRaceGoesOn, SameSets DEF R!Inv
<1>6. ASSUME NEW h \in Handlers, R!Stop(h)
      PROVE  R!Inv'
  <2> PICK e : e = x5[h].event
    OBVIOUS
  <2>1. /\ UNCHANGED <<x1, x2, x3, x4, x6>> /\ R!End(h) /\ e \in Signatures
        /\ x7' = IF x5[h].pc = "log" THEN x7 \cup {e} ELSE x7
    BY <1>6, SameSets DEF R!Stop, R!Inv, R!Reporting
  <2>2. /\ x5' \in [Handlers -> R!Job] /\ x5'[h] = R!Idle
        /\ R!Idle.pc = "idle" /\ R!Idle.event = None
        /\ \A k \in Handlers : k # h => x5'[k] = x5[k]
        /\ Racing' = Racing \ {h}
    BY <2>1, RewardEnding
  <2>3. R!TypeOK' /\ R!Counted' = R!Counted
    BY <2>1, <2>2, SameSets DEF R!Inv, R!TypeOK, R!Counted
  <2>4. R!Reporting'
    <3>1. \A k \in Handlers : x5'[k].event \in Signatures => k # h /\ x5'[k] = x5[k]
      BY <2>2, ConstantsAreSound DEF R!NoneIsNoEvent
    <3> QED
      BY <2>1, <2>2, <3>1, SameSets DEF R!Inv, R!Reporting
  <2>5. R!LogAgreesWithLedger'
    <3>1. \A f \in Signatures, k \in Handlers :
             x5[k] = [pc |-> "log", event |-> f] =>
                x5'[k] = x5[k] \/ f \in x7'
      BY <2>1, <2>2
    <3>2. x7 \subseteq x7'
      BY <2>1
    <3> QED
      BY <2>1, <3>1, <3>2, SameSets DEF R!Inv, R!LogAgreesWithLedger
  <2> QED
    BY <2>2, <2>3, <2>4, <2>5, RewardRaceGoesOn, SameSets DEF R!Inv
<1>7. CASE UNCHANGED R!vars
  BY <1>1, <1>7, SameSets DEF R!vars, R!history, R!Inv, R!TypeOK
<1>8. CASE R!SwitchRule
  BY <1>1, <1>8, SameSets DEF R!SwitchRule, R!history, R!Inv, R!TypeOK
<1> QED
  BY <1>2, <1>3, <1>4, <1>5, <1>6, <1>7, <1>8, RewardCountStep, RewardLogStep
  DEF R!Next

-----------------------------------------------------------------------------
(* The event log.                                                          *)

\* With nothing reported the invariant holds.
LEMMA EventInitInv == ASSUME E!Init PROVE E!Inv
<1>1. E!TypeOK
  BY ConstantsAreSound
  DEF E!Init, E!TypeOK, E!Row, E!NoRow, E!Job, E!Idle, E!Times,
      E!IdsAreOrdered
<1>2. E!Visible = {}
  BY DEF E!Init, E!Visible, E!NoRow
<1>3. E!Reporting
  BY <1>2 DEF E!Init, E!Reporting, E!Idle
<1>4. E!Consuming
  BY <1>2 DEF E!Init, E!Consuming
<1>5. IsFiniteSet(E!Visible)
  BY <1>2, FS_EmptySet
<1>6. E!GapsComeOfOverlap /\ E!LoggedOnceAndForwarded
  BY <1>2 DEF E!Init, E!GapsComeOfOverlap, E!Skipped, E!LoggedOnceAndForwarded
<1> QED
  BY <1>1, <1>3, <1>4, <1>5, <1>6, SameSets DEF E!Inv

\* Rows are in one order, and their times are numbers.
LEMMA EventOrder ==
  ASSUME E!TypeOK
  PROVE  /\ x1 \in Nat /\ \A e \in Events : x2[e].at \in Nat /\ x2[e].seen \in Nat
         /\ \A e \in Events : e \in Nat /\ ~E!Before(e, e)
         /\ \A e, f \in Events : e # f /\ ~E!Before(e, f) => E!Before(f, e)
         /\ \A e, f, g \in Events : E!Before(e, f) /\ E!Before(f, g) => E!Before(e, g)
<1>1. /\ x1 \in Nat /\ \A e \in Events : x2[e].at \in Nat /\ x2[e].seen \in Nat
      /\ \A e \in Events : e \in Nat
  BY ConstantsAreSound DEF E!TypeOK, E!Row, E!Times, E!IdsAreOrdered
<1> QED
  BY <1>1 DEF E!Before

\* A page that is not empty has a last row, and the cursor is put there.
LEMMA EventLastOfPage ==
  ASSUME E!Inv, E!Page # {},
         NEW c, c = CHOOSE e \in E!Page : \A f \in E!Page \ {e} : E!Before(f, e)
  PROVE  c \in E!Page /\ \A f \in E!Page \ {c} : E!Before(f, c)
<1>1. E!Page \subseteq E!Visible /\ E!Visible \subseteq Events
  BY SameSets DEF E!Page, E!After, E!Visible
<1>2. IsFiniteSet(E!Page)
  BY <1>1, FS_Subset, SameSets DEF E!Inv
<1> DEFINE From(e) == {f \in E!Page : f = e \/ E!Before(e, f)}
           All == {From(e) : e \in E!Page}
<1>3. All \subseteq FiniteSubsetsOf(E!Page) /\ All # {}
  <2>1. \A e \in E!Page : From(e) \subseteq E!Page
    OBVIOUS
  <2>2. \A e \in E!Page : IsFiniteSet(From(e))
    BY <1>2, <2>1, FS_Subset
  <2>3. \A e \in E!Page : From(e) \in FiniteSubsetsOf(E!Page)
    BY <2>1, <2>2 DEF FiniteSubsetsOf
  <2> QED
    BY <2>3
<1>4. PICK u \in All : \A v \in All : <<v, u>> \notin StrictSubsetOrdering(E!Page)
  BY <1>3, FS_StrictSubsetOrderingWellFounded, WFMin
<1>5. PICK e \in E!Page : u = From(e)
  OBVIOUS
<1>6. ASSUME NEW f \in E!Page, f # e
      PROVE  E!Before(f, e)
  <2>1. SUFFICES ASSUME E!Before(e, f) PROVE FALSE
    BY <1>1, <1>6, EventOrder, SameSets DEF E!Inv
  <2>2. From(f) \subseteq From(e)
    BY <1>1, <2>1, EventOrder, SameSets DEF E!Inv
  <2>3. e \in From(e) /\ e \notin From(f)
    BY <1>1, <1>6, <2>1, EventOrder, SameSets DEF E!Inv
  <2>4. <<From(f), From(e)>> \in StrictSubsetOrdering(E!Page)
    BY <2>2, <2>3 DEF StrictSubsetOrdering
  <2> QED
    BY <1>4, <1>5, <2>4
<1>7. \E x \in E!Page : \A f \in E!Page \ {x} : E!Before(f, x)
  BY <1>6
<1> QED
  BY <1>7

\* What the consumer holds, while rows and given stay as they are.
LEMMA EventConsumerRests ==
  ASSUME E!Inv, UNCHANGED <<x2, x5, x6>>
  PROVE  /\ E!Visible' = E!Visible /\ \A e, f : E!Before(e, f)' <=> E!Before(e, f)
         /\ IsFiniteSet(E!Visible)' /\ E!Consuming' /\ E!GapsComeOfOverlap'
<1>1. E!Visible' = E!Visible /\ \A e, f : E!Before(e, f)' <=> E!Before(e, f)
  BY DEF E!Visible, E!Before
<1>2. x5' = x5
  OBVIOUS
<1>3. E!Skipped' = E!Skipped
  BY <1>1 DEF E!Skipped, E!Before
<1>4. E!Consuming'
  BY <1>1, SameSets DEF E!Inv, E!Consuming, E!Before
<1>5. E!GapsComeOfOverlap'
  BY <1>3, SameSets DEF E!Inv, E!GapsComeOfOverlap
<1> QED
  BY <1>1, <1>4, <1>5, SameSets DEF E!Inv

\* Time passes.
LEMMA EventTickStep == ASSUME E!Inv, E!Tick PROVE E!Inv'
<1>1. UNCHANGED <<x2, x3, x4, x5, x6, x7>> /\ x1' = x1 + 1
  BY DEF E!Tick
<1>2. x1 \in Nat /\ x1' \in E!Times
  BY ConstantsAreSound, SameSets
  DEF E!Tick, E!Inv, E!TypeOK, E!Times, E!IdsAreOrdered
<1>3. E!TypeOK'
  BY <1>1, <1>2, SameSets DEF E!Inv, E!TypeOK
<1>4. E!Visible' = E!Visible /\ E!Visible \subseteq Events
  BY <1>1 DEF E!Visible
<1>5. E!Reporting'
  <2>1. \A h \in Handlers : x4[h].at \in Nat
    BY ConstantsAreSound, SameSets
    DEF E!Inv, E!TypeOK, E!Job, E!Times, E!IdsAreOrdered
  <2>2. \A e \in Events : x2[e].seen \in Nat
    BY EventOrder, SameSets DEF E!Inv
  <2>3. \A n \in Nat : n <= x1 => n <= x1'
    BY <1>1, <1>2
  <2> QED
    BY <1>1, <1>4, <2>1, <2>2, <2>3, SameSets DEF E!Inv, E!Reporting
<1>6. E!LoggedOnceAndForwarded'
  BY <1>1, <1>4, SameSets DEF E!Inv, E!LoggedOnceAndForwarded
<1> QED
  BY <1>1, <1>3, <1>5, <1>6, EventConsumerRests, SameSets DEF E!Inv

\* A row that was visible when the cursor passed it was given.
LEMMA EventPollStep == ASSUME E!Inv, E!Poll PROVE E!Inv'
<1>1. UNCHANGED <<x1, x2, x3, x4, x7>> /\ E!Page # {}
  BY DEF E!Poll
<1>2. PICK c : c = CHOOSE e \in E!Page : \A f \in E!Page \ {e} : E!Before(f, e)
  OBVIOUS
<1>3. x5' = c /\ c \in E!Page /\ \A f \in E!Page \ {c} : E!Before(f, c)
  BY <1>1, <1>2, EventLastOfPage DEF E!Poll
<1>4. /\ E!Page \subseteq E!After /\ E!After \subseteq E!Visible /\ E!Visible \subseteq Events
      /\ \A e \in E!After : x5 = None \/ E!Before(x5, e)
  BY SameSets DEF E!Page, E!After, E!Visible
<1>5. E!Visible' = E!Visible /\ \A e, f : E!Before(e, f)' <=> E!Before(e, f)
  BY <1>1 DEF E!Visible, E!Before
<1>6. \A e \in E!Page : x6[e] = 0
  <2>1. \A e \in E!Page : x6[e] # 0 => FALSE
    <3>1. x5 \in Events \cup {None}
      BY SameSets DEF E!Inv, E!TypeOK
    <3> QED
      BY <1>4, <3>1, EventOrder, SameSets DEF E!Inv, E!Consuming
  <2> QED
    BY <2>1
<1>7. \A e \in Events : /\ e \in E!Page => x6'[e] = 1
                        /\ e \notin E!Page => x6'[e] = x6[e]
  BY <1>6 DEF E!Poll
<1>8. E!TypeOK'
  <2>1. c \in Events /\ x5' \in Events \cup {None}
    BY <1>3, <1>4
  <2>2. x6' \in [Events -> 0..2]
    <3>1. x6' = [e \in Events |->
                      IF e \in E!Page /\ x6[e] < 2 THEN x6[e] + 1 ELSE x6[e]]
      BY DEF E!Poll
    <3>2. \A e \in Events : x6'[e] \in 0..2
      BY <1>7, SameSets DEF E!Inv, E!TypeOK
    <3> QED
      BY <3>1, <3>2
  <2> QED
    BY <1>1, <2>1, <2>2, SameSets DEF E!Inv, E!TypeOK
<1>9. E!Reporting' /\ E!LoggedOnceAndForwarded'
  BY <1>1, <1>5, SameSets DEF E!Inv, E!Reporting, E!LoggedOnceAndForwarded
<1>10. c \in Events /\ c # None /\ (x5 = None \/ E!Before(x5, c))
  BY <1>3, <1>4, ConstantsAreSound DEF E!NoneIsNoEvent
<1>11. E!Consuming'
  <2>1. ASSUME NEW e \in Events, x6'[e] # 0
        PROVE  e \in E!Visible /\ (e = c \/ E!Before(e, c))
    <3>1. CASE e \in E!Page
      BY <1>3, <1>4, <3>1
    <3>2. CASE e \notin E!Page
      <4>1. e \in E!Visible /\ x5 # None /\ (e = x5 \/ E!Before(e, x5))
        BY <1>7, <2>1, <3>2, SameSets DEF E!Inv, E!Consuming
      <4>2. x5 \in Events
        BY <4>1, SameSets DEF E!Inv, E!TypeOK
      <4> QED
        BY <1>10, <4>1, <4>2, EventOrder, SameSets DEF E!Inv
    <3> QED
      BY <3>1, <3>2
  <2>2. x6'[c] = 1
    BY <1>3, <1>7, <1>10
  <2>3. \A e \in Events : x6'[e] # 0 =>
           e \in E!Visible' /\ x5' # None /\ (e = x5' \/ (E!Before(e, c))')
    BY <1>3, <1>5, <1>10, <2>1
  <2> QED
    BY <1>3, <2>2, <2>3 DEF E!Consuming, E!Before
<1>12. ASSUME NEW e \in E!Visible, E!Before(e, c), x6'[e] = 0
       PROVE  \E f \in Events :
                 x6'[f] = 1 /\ x2[e].at <= x2[f].seen /\ x2[f].seen <= x2[e].seen
  <2>1. e \notin E!Page /\ x6[e] = 0
    BY <1>4, <1>7, <1>12
  <2>2. e \notin E!After
    <3> SUFFICES ASSUME e \in E!After PROVE FALSE
      OBVIOUS
    <3> DEFINE L(x) == {f \in E!After : E!Before(f, x)}
    <3>1. L(e) \subseteq L(c) /\ L(c) \subseteq E!Visible
      BY <1>4, <1>10, <1>12, EventOrder, SameSets DEF E!Inv
    <3>2. IsFiniteSet(L(c)) /\ IsFiniteSet(L(e)) /\ Cardinality(L(e)) <= Cardinality(L(c))
      BY <3>1, FS_Subset, SameSets DEF E!Inv
    <3>3. Cardinality(L(c)) \in Nat /\ Cardinality(L(e)) \in Nat
      BY <3>2, FS_CardinalityType
    <3>4. Cardinality(L(c)) < Take
      BY <1>3, SameSets DEF E!Page
    <3>5. Cardinality(L(e)) < Take
      BY <3>2, <3>3, <3>4, ConstantsAreSound DEF E!IdsAreOrdered
    <3>6. e \in E!Page
      BY <3>5, SameSets DEF E!Page
    <3> QED
      BY <2>1, <3>6
  <2>3. x5 # None /\ ~E!Before(x5, e)
    BY <2>2 DEF E!After
  <2>4. x5 \in Events /\ x5 # e /\ E!Before(e, x5)
    <3>1. x5 \in Events
      BY <2>3, SameSets DEF E!Inv, E!TypeOK
    <3>2. x5 # e
      BY <2>1, <2>3, SameSets DEF E!Inv, E!Consuming
    <3> QED
      BY <1>4, <2>3, <3>1, <3>2, EventOrder, SameSets DEF E!Inv
  <2>5. e \in E!Skipped
    BY <2>1, <2>3, <2>4 DEF E!Skipped
  <2>6. PICK f \in Events : x6[f] = 1 /\ x2[e].at <= x2[f].seen /\ x2[f].seen <= x2[e].seen
    BY <2>5, SameSets DEF E!Inv, E!GapsComeOfOverlap
  <2>7. x6'[f] = 1
    BY <1>7, <2>6
  <2> QED
    BY <2>6, <2>7
<1>13. E!GapsComeOfOverlap'
  <2>1. \A e \in Events : x6'[e] <= 1
    BY <1>7, SameSets DEF E!Inv, E!GapsComeOfOverlap
  <2>2. \A e \in E!Skipped' : e \in E!Visible /\ E!Before(e, c) /\ x6'[e] = 0
    BY <1>1, <1>3 DEF E!Skipped, E!Visible, E!Before
  <2> QED
    BY <1>1, <1>12, <2>1, <2>2 DEF E!GapsComeOfOverlap
<1> QED
  BY <1>5, <1>8, <1>9, <1>11, <1>13, SameSets DEF E!Inv

\* A row is built, stamped and sent.
LEMMA EventStartStep ==
  ASSUME E!Inv, NEW h \in Handlers, NEW s \in Signatures,
         E!StartReport(h, s)
  PROVE  E!Inv'
<1>1. UNCHANGED <<x1, x2, x3, x5, x6, x7>> /\ x4[h].pc = "idle"
  BY DEF E!StartReport
<1>2. PICK e \in Events \ E!Visible :
         /\ \A k \in Handlers : x4[k].event # e
         /\ x4' = [x4 EXCEPT ![h] =
                       [pc |-> "insert", event |-> e, source |-> s, at |-> x1]]
  BY DEF E!StartReport
<1> PICK n : n = [pc |-> "insert", event |-> e, source |-> s, at |-> x1]
  OBVIOUS
<1>3. n \in E!Job /\ n.pc = "insert" /\ n.event = e /\ n.source = s /\ n.at = x1
  BY SameSets DEF E!Job, E!Inv, E!TypeOK
<1>4. /\ x4' \in [Handlers -> E!Job] /\ x4'[h] = n
      /\ \A k \in Handlers : k # h => x4'[k] = x4[k]
  BY <1>2, <1>3, SameSets DEF E!Inv, E!TypeOK
<1>5. E!TypeOK'
  BY <1>1, <1>4, SameSets DEF E!Inv, E!TypeOK
<1>6. E!Visible' = E!Visible /\ x1 \in Nat /\ x1 <= x1
  BY <1>1, EventOrder, SameSets DEF E!Visible, E!Inv
<1>7. E!Reporting'
  <2>1. \A k \in Handlers :
          /\ x4'[k].pc = "idle" => x4'[k] = E!Idle
          /\ x4'[k].pc = "insert" => /\ x4'[k].event \in Events \ E!Visible'
                                     /\ x4'[k].source \in Signatures
                                     /\ x4'[k].at <= x1'
          /\ x4'[k].pc = "forward" => /\ x4'[k].event \in E!Visible'
                                      /\ x2'[x4'[k].event].source = x4'[k].source
    BY <1>1, <1>3, <1>4, <1>6, SameSets DEF E!Inv, E!Reporting
  <2>2. \A i, k \in Handlers : x4'[i].event = x4'[k].event /\ x4'[i].pc # "idle" => i = k
    BY <1>2, <1>3, <1>4, SameSets DEF E!Inv, E!Reporting
  <2>3. \A f \in E!Visible' : x2'[f].at <= x2'[f].seen /\ x2'[f].seen <= x1'
    BY <1>1, <1>6, SameSets DEF E!Inv, E!Reporting
  <2> QED
    BY <2>1, <2>2, <2>3 DEF E!Reporting, E!Idle
<1>8. E!LoggedOnceAndForwarded'
  <2>1. \A k \in Handlers : x4[k].pc = "forward" => x4'[k] = x4[k]
    BY <1>1, <1>4
  <2> QED
    BY <1>1, <1>6, <2>1, SameSets DEF E!Inv, E!LoggedOnceAndForwarded
<1> QED
  BY <1>1, <1>5, <1>7, <1>8, EventConsumerRests, SameSets DEF E!Inv

\* When handler h ends and what it was to forward is rewarded or cut.
LEMMA EventEnding ==
  ASSUME E!Inv, NEW h \in Handlers,
         UNCHANGED <<x1, x2, x5, x6>>,
         x4' = [x4 EXCEPT ![h] = E!Idle],
         x3 \subseteq x3', x3' \subseteq Signatures,
         x7 \subseteq x7', x7' \subseteq Signatures,
         x4[h].pc = "forward" => x4[h].source \in x3' \cup x7'
  PROVE  E!Inv'
<1>1. E!Idle \in E!Job /\ E!Idle.pc = "idle" /\ E!Idle.event = None
  BY ConstantsAreSound DEF E!Idle, E!Job, E!Times, E!IdsAreOrdered
<1>2. /\ x4' \in [Handlers -> E!Job] /\ x4'[h] = E!Idle
      /\ \A k \in Handlers : k # h => x4'[k] = x4[k]
  BY <1>1, SameSets DEF E!Inv, E!TypeOK
<1>3. E!TypeOK'
  BY <1>2, SameSets DEF E!Inv, E!TypeOK
<1>4. E!Visible' = E!Visible /\ E!Visible \subseteq Events
  BY DEF E!Visible
<1>5. E!Reporting'
  <2>1. \A k \in Handlers :
          /\ x4'[k].pc = "idle" => x4'[k] = E!Idle
          /\ x4'[k].pc = "insert" => /\ x4'[k].event \in Events \ E!Visible'
                                     /\ x4'[k].source \in Signatures
                                     /\ x4'[k].at <= x1'
          /\ x4'[k].pc = "forward" => /\ x4'[k].event \in E!Visible'
                                      /\ x2'[x4'[k].event].source = x4'[k].source
    BY <1>1, <1>2, <1>4, SameSets DEF E!Inv, E!Reporting
  <2>2. \A i, k \in Handlers : x4'[i].event = x4'[k].event /\ x4'[i].pc # "idle" => i = k
    <3>1. \A i \in Handlers : x4'[i].pc # "idle" => x4'[i] = x4[i] /\ x4[i].event \in Events
      BY <1>1, <1>2, <1>4, SameSets DEF E!Inv, E!Reporting, E!TypeOK, E!Job
    <3> QED
      BY <1>1, <1>2, <3>1, ConstantsAreSound, SameSets
      DEF E!Inv, E!Reporting, E!NoneIsNoEvent
  <2>3. \A f \in E!Visible' : x2'[f].at <= x2'[f].seen /\ x2'[f].seen <= x1'
    BY <1>4, SameSets DEF E!Inv, E!Reporting
  <2> QED
    BY <2>1, <2>2, <2>3 DEF E!Reporting, E!Idle
<1>6. E!LoggedOnceAndForwarded'
  <2>1. ASSUME NEW e \in E!Visible
        PROVE  \/ x2'[e].source \in x3' \cup x7'
               \/ \E k \in Handlers : x4'[k].pc = "forward" /\ x4'[k].event = e
    <3>1. CASE x2[e].source \in x3 \cup x7
      BY <3>1
    <3>2. CASE \E k \in Handlers : x4[k].pc = "forward" /\ x4[k].event = e
      <4>1. PICK k \in Handlers : x4[k].pc = "forward" /\ x4[k].event = e
        BY <3>2
      <4>2. CASE k = h
        BY <4>1, <4>2, SameSets DEF E!Inv, E!Reporting
      <4>3. CASE k # h
        BY <1>2, <4>1, <4>3
      <4> QED
        BY <4>2, <4>3
    <3> QED
      BY <3>1, <3>2, SameSets DEF E!Inv, E!LoggedOnceAndForwarded
  <2>2. \A e, f \in E!Visible : x2'[e].source = x2'[f].source => e = f
    BY SameSets DEF E!Inv, E!LoggedOnceAndForwarded
  <2> QED
    BY <1>4, <2>1, <2>2 DEF E!LoggedOnceAndForwarded
<1> QED
  BY <1>3, <1>5, <1>6, EventConsumerRests, SameSets DEF E!Inv

(* A row that becomes visible behind the cursor was being inserted when    *)
(* the row at the cursor became visible.                                   *)
LEMMA EventInsertStep ==
  ASSUME E!Inv, NEW h \in Handlers, E!Insert(h)
  PROVE  E!Inv'
<1> PICK e, s, t : e = x4[h].event /\ s = x4[h].source /\ t = x4[h].at
  OBVIOUS
<1>1. /\ UNCHANGED <<x1, x3, x5, x6, x7>> /\ x4[h].pc = "insert"
      /\ e \in Events \ E!Visible /\ s \in Signatures /\ t <= x1 /\ t \in E!Times
  BY SameSets DEF E!Insert, E!Inv, E!Reporting, E!TypeOK, E!Job
<1>2. CASE E!Repeated(s)
  <2>1. x4' = [x4 EXCEPT ![h] = E!Idle] /\ UNCHANGED x2
    BY <1>2 DEF E!Insert
  <2> QED
    BY <1>1, <2>1, EventEnding, SameSets DEF E!Inv, E!TypeOK
<1>3. CASE ~E!Repeated(s)
  <2> PICK r, n : /\ r = [source |-> s, at |-> t, seen |-> x1]
                  /\ n = [x4[h] EXCEPT !.pc = "forward"]
    OBVIOUS
  <2>1. r \in E!Row /\ r.source = s /\ r.at = t /\ r.seen = x1
    BY <1>1, SameSets DEF E!Row, E!Inv, E!TypeOK
  <2>2. n \in E!Job /\ n.pc = "forward" /\ n.event = e /\ n.source = s
    <3>1. x4[h] \in E!Job
      BY SameSets DEF E!Inv, E!TypeOK
    <3> QED
      BY <3>1 DEF E!Job
  <2>3. x2' = [x2 EXCEPT ![e] = r] /\ x4' = [x4 EXCEPT ![h] = n]
    BY <1>3 DEF E!Insert
  <2>4. /\ x2' \in [Events -> E!Row] /\ x2'[e] = r
        /\ \A f \in Events : f # e => x2'[f] = x2[f]
    BY <1>1, <2>1, <2>3, SameSets DEF E!Inv, E!TypeOK
  <2>5. /\ x4' \in [Handlers -> E!Job] /\ x4'[h] = n
        /\ \A k \in Handlers : k # h => x4'[k] = x4[k]
    BY <2>2, <2>3, SameSets DEF E!Inv, E!TypeOK
  <2>6. E!Visible' = E!Visible \cup {e} /\ E!Visible \subseteq Events /\ e \notin E!Visible
    BY <1>1, <2>1, <2>4, ConstantsAreSound DEF E!Visible, E!NoneIsNoEvent
  <2>7. \A f \in E!Visible : f # e /\ x2'[f] = x2[f]
    BY <2>4, <2>6
  <2>8. E!TypeOK'
    BY <1>1, <2>4, <2>5, SameSets DEF E!Inv, E!TypeOK
  <2>9. IsFiniteSet(E!Visible')
    BY <2>6, FS_AddElement, SameSets DEF E!Inv
  <2>10. x1 \in Nat /\ x1 <= x1
    BY EventOrder, SameSets DEF E!Inv
  <2>11. E!Reporting'
    <3>1. ASSUME NEW k \in Handlers
          PROVE  /\ x4'[k].pc = "idle" => x4'[k] = E!Idle
                 /\ x4'[k].pc = "insert" => /\ x4'[k].event \in Events \ E!Visible'
                                            /\ x4'[k].source \in Signatures
                                            /\ x4'[k].at <= x1'
                 /\ x4'[k].pc = "forward" => /\ x4'[k].event \in E!Visible'
                                             /\ x2'[x4'[k].event].source = x4'[k].source
      <4>1. CASE k = h
        <5>1. x4'[k] = n /\ x2'[e] = r /\ e \in E!Visible'
          BY <2>4, <2>5, <2>6, <4>1
        <5>2. n.pc = "forward" /\ n.event = e /\ n.source = s /\ r.source = s
          BY <2>1, <2>2
        <5> QED
          BY <5>1, <5>2
      <4>2. CASE k # h
        <5>1. x4'[k] = x4[k] /\ (x4[k].pc # "idle" => x4[k].event # e)
          BY <1>1, <2>5, <4>2, SameSets DEF E!Inv, E!Reporting
        <5> QED
          BY <1>1, <2>6, <2>7, <5>1, SameSets DEF E!Inv, E!Reporting
      <4> QED
        BY <4>1, <4>2
    <3>2. \A i, k \in Handlers : x4'[i].event = x4'[k].event /\ x4'[i].pc # "idle" => i = k
      <4>1. \A k \in Handlers : /\ x4'[k].event = x4[k].event
                                /\ x4'[k].pc # "idle" => x4[k].pc # "idle"
        BY <1>1, <2>2, <2>5
      <4> QED
        BY <4>1, SameSets DEF E!Inv, E!Reporting
    <3>3. \A f \in E!Visible' : x2'[f].at <= x2'[f].seen /\ x2'[f].seen <= x1'
      BY <1>1, <2>1, <2>4, <2>6, <2>7, <2>10, SameSets DEF E!Inv, E!Reporting
    <3> QED
      BY <3>1, <3>2, <3>3 DEF E!Reporting, E!Idle
  <2>12. x6[e] = 0
    BY <1>1, SameSets DEF E!Inv, E!Consuming
  <2>13. x5 # None => x5 \in E!Visible
    BY SameSets DEF E!Inv, E!Consuming, E!TypeOK
  <2>14. \A f, g \in E!Visible : E!Before(f, g)' <=> E!Before(f, g)
    BY <2>7 DEF E!Before
  <2>15. E!Consuming'
    <3>1. ASSUME NEW f \in Events, x6'[f] # 0
          PROVE  f \in E!Visible' /\ x5' # None /\ (f = x5' \/ E!Before(f, x5)')
      <4>1. f \in E!Visible /\ x5 # None /\ (f = x5 \/ E!Before(f, x5))
        BY <1>1, <3>1, SameSets DEF E!Inv, E!Consuming
      <4>2. x5 \in E!Visible /\ x5' = x5
        BY <1>1, <2>13, <4>1
      <4> QED
        BY <2>6, <2>7, <4>1, <4>2 DEF E!Before
    <3> QED
      BY <1>1, <3>1, SameSets DEF E!Inv, E!Consuming
  <2>16. E!GapsComeOfOverlap'
    <3>1. ASSUME NEW f \in E!Skipped'
          PROVE  \E g \in Events : /\ x6'[g] = 1 /\ x2'[f].at <= x2'[g].seen
                                   /\ x2'[g].seen <= x2'[f].seen
      <4>1. f \in E!Visible' /\ x5 # None /\ x6[f] = 0 /\ x5' = x5
        BY <1>1, <3>1 DEF E!Skipped
      <4>2. x5 \in E!Visible /\ x6[x5] = 1
        BY <2>13, <4>1, SameSets DEF E!Inv, E!Consuming
      <4>3. CASE f = e
        <5>1. \/ x2'[e].at < x2'[x5].at
              \/ x2'[e].at = x2'[x5].at
          BY <1>1, <3>1, <4>3 DEF E!Skipped, E!Before
        <5>2. /\ x2'[x5] = x2[x5] /\ x2'[e].at = t /\ x2'[e].seen = x1
              /\ x2[x5].at <= x2[x5].seen /\ x2[x5].seen <= x1
          BY <2>1, <2>4, <2>7, <4>2, SameSets DEF E!Inv, E!Reporting
        <5>3. t \in Nat /\ x2[x5].at \in Nat /\ x2[x5].seen \in Nat
          BY <1>1, <2>6, <4>2, EventOrder, ConstantsAreSound, SameSets
          DEF E!Times, E!IdsAreOrdered, E!Inv
        <5>4. x2'[e].at <= x2'[x5].seen /\ x2'[x5].seen <= x2'[e].seen
          BY <5>1, <5>2, <5>3, <2>10
        <5> QED
          BY <1>1, <2>6, <4>2, <4>3, <5>4
      <4>4. CASE f # e
        <5>1. f \in E!Visible
          BY <2>6, <4>1, <4>4
        <5>2. E!Before(f, x5)
          BY <1>1, <2>7, <3>1, <4>2, <5>1 DEF E!Skipped, E!Before
        <5>3. f \in E!Skipped
          BY <4>1, <5>1, <5>2 DEF E!Skipped
        <5>4. PICK g \in Events : /\ x6[g] = 1 /\ x2[f].at <= x2[g].seen
                                  /\ x2[g].seen <= x2[f].seen
          BY <5>3, SameSets DEF E!Inv, E!GapsComeOfOverlap
        <5>5. g \in E!Visible
          BY <5>4, SameSets DEF E!Inv, E!Consuming
        <5> QED
          BY <1>1, <2>7, <5>1, <5>4, <5>5
      <4> QED
        BY <4>3, <4>4
    <3> QED
      BY <1>1, <3>1, SameSets DEF E!Inv, E!GapsComeOfOverlap
  <2>17. E!LoggedOnceAndForwarded'
    <3>1. ASSUME NEW f \in E!Visible', NEW g \in E!Visible', x2'[f].source = x2'[g].source
          PROVE  f = g
      <4>1. \A x \in E!Visible : x2'[x].source = x2[x].source /\ x2[x].source # s
        BY <1>3, <2>7 DEF E!Repeated
      <4>2. x2'[e].source = s
        BY <2>1, <2>4
      <4> QED
        BY <2>6, <3>1, <4>1, <4>2, SameSets DEF E!Inv, E!LoggedOnceAndForwarded
    <3>2. ASSUME NEW f \in E!Visible'
          PROVE  \/ x2'[f].source \in x3' \cup x7'
                 \/ \E k \in Handlers : x4'[k].pc = "forward" /\ x4'[k].event = f
      <4>1. CASE f = e
        BY <2>2, <2>5, <4>1
      <4>2. CASE f # e
        <5>1. f \in E!Visible /\ x2'[f] = x2[f]
          BY <2>6, <2>7, <4>2
        <5>2. \A k \in Handlers : x4[k].pc = "forward" => x4'[k] = x4[k]
          BY <1>1, <2>5
        <5> QED
          BY <1>1, <5>1, <5>2, SameSets DEF E!Inv, E!LoggedOnceAndForwarded
      <4> QED
        BY <4>1, <4>2
    <3> QED
      BY <3>1, <3>2 DEF E!LoggedOnceAndForwarded
  <2> QED
    BY <2>8, <2>9, <2>11, <2>15, <2>16, <2>17, SameSets DEF E!Inv
<1> QED
  BY <1>2, <1>3

\* Every step keeps the invariant.
LEMMA EventNextInv ==
  ASSUME E!Inv, [E!Next]_(E!vars) PROVE E!Inv'
<1>1. CASE UNCHANGED E!vars
  <2>1. UNCHANGED <<x1, x2, x3, x4, x5, x6, x7>>
    BY <1>1 DEF E!vars
  <2>2. E!Visible' = E!Visible
    BY <2>1 DEF E!Visible
  <2> QED
    BY <2>1, <2>2, EventConsumerRests, SameSets
    DEF E!Inv, E!TypeOK, E!Reporting, E!LoggedOnceAndForwarded
<1>2. ASSUME NEW h \in Handlers, E!Forward(h)
      PROVE  E!Inv'
  <2>1. /\ UNCHANGED <<x1, x2, x5, x6, x7>> /\ x4[h].pc = "forward"
        /\ x4' = [x4 EXCEPT ![h] = E!Idle]
        /\ x3' = x3 \cup {x4[h].source}
    BY <1>2 DEF E!Forward
  <2>2. x4[h].source \in Signatures
    <3>1. /\ x4[h].event \in E!Visible /\ x2[x4[h].event].source = x4[h].source
          /\ \A e \in E!Visible : x2[e].source # None /\ x2[e].source \in Signatures \cup {None}
      BY <2>1, SameSets DEF E!Inv, E!Reporting, E!Visible, E!TypeOK, E!Row
    <3> QED
      BY <3>1
  <2> QED
    BY <2>1, <2>2, EventEnding, SameSets DEF E!Inv, E!TypeOK
<1>3. ASSUME NEW h \in Handlers, E!Stop(h)
      PROVE  E!Inv'
  <2>1. /\ UNCHANGED <<x1, x2, x3, x5, x6>>
        /\ x4' = [x4 EXCEPT ![h] = E!Idle]
        /\ x7' = IF x4[h].pc = "forward" THEN x7 \cup {x4[h].source} ELSE x7
    BY <1>3 DEF E!Stop
  <2>2. x4[h].pc = "forward" => x4[h].source \in Signatures
    <3>1. x4[h].pc = "forward" =>
             /\ x4[h].event \in E!Visible /\ x2[x4[h].event].source = x4[h].source
      BY SameSets DEF E!Inv, E!Reporting
    <3>2. \A e \in E!Visible : x2[e].source # None /\ x2[e].source \in Signatures \cup {None}
      BY SameSets DEF E!Inv, E!Visible, E!TypeOK, E!Row
    <3> QED
      BY <3>1, <3>2
  <2> QED
    BY <2>1, <2>2, EventEnding, SameSets DEF E!Inv, E!TypeOK
<1> QED
  BY <1>1, <1>2, <1>3, EventTickStep, EventPollStep, EventStartStep,
     EventInsertStep
  DEF E!Next

-----------------------------------------------------------------------------
(* Notifications.                                                          *)

\* With nothing reported and nobody at work the invariant holds.
LEMMA NotifyInitInv == ASSUME N!Init PROVE N!Inv
BY
DEF N!Init, N!Inv, N!TypeOK, N!Delivering, N!NotifiedOnceUnlessCut, N!Job,
    N!Idle

\* What the alerts say of an id at work.
LEMMA NotifyWorking ==
  ASSUME N!Inv, NEW h \in Handlers, x2[h].pc # "idle"
  PROVE  /\ N!Of(h) \in N!Ids /\ N!Of(h)[1] = x2[h].alert
         /\ x2[h].alert \in Alerts /\ x2[h].admin \in Users
<1>1. x2[h].alert \in Alerts /\ x2[h].admin \in Users
  BY DEF N!Inv, N!Delivering
<1> QED
  BY <1>1 DEF N!Of, N!Ids

\* What becomes of the calls when one goes on to n.
LEMMA NotifyGoing ==
  ASSUME N!Inv, NEW h \in Handlers, NEW n \in N!Job, x2' = [x2 EXCEPT ![h] = n]
  PROVE  /\ x2' \in [Handlers -> N!Job] /\ x2'[h] = n
         /\ \A k \in Handlers : k # h => x2'[k] = x2[k] /\ N!Of(k)' = N!Of(k)
BY DEF N!Inv, N!TypeOK, N!Of

\* Calls that start have done nothing yet.
LEMMA NotifyAlertStep ==
  ASSUME N!Inv, NEW a \in Alerts, N!Alert(a) PROVE N!Inv'
<1> PICK f \in [Users -> Handlers] :
         /\ \A x \in Users : x2[f[x]].pc = "idle"
         /\ x2' = [h \in Handlers |->
                       IF \E x \in Users : f[x] = h
                       THEN [pc |-> "create", alert |-> a,
                             admin |-> CHOOSE x \in Users : f[x] = h]
                       ELSE x2[h]]
  BY DEF N!Alert
<1>1. ASSUME NEW h \in Handlers
      PROVE  \/ x2'[h] = x2[h]
             \/ /\ x2[h].pc = "idle" /\ x2'[h] \in N!Job /\ x2'[h].pc = "create"
                /\ x2'[h].alert \in Alerts /\ x2'[h].admin \in Users
  <2>1. CASE \E x \in Users : f[x] = h
    <3>1. PICK u \in Users : u = CHOOSE x \in Users : f[x] = h
      BY <2>1
    <3>2. x2'[h] = [pc |-> "create", alert |-> a, admin |-> u]
      BY <2>1, <3>1
    <3> QED
      BY <2>1, <3>2 DEF N!Job
  <2>2. CASE ~\E x \in Users : f[x] = h
    BY <2>2
  <2> QED
    BY <2>1, <2>2
<1>2. x2' \in [Handlers -> N!Job]
  <2>1. \A h \in Handlers : x2'[h] \in N!Job
    BY <1>1 DEF N!Inv, N!TypeOK
  <2>2. DOMAIN x2' = Handlers /\ x2' = [h \in Handlers |-> x2'[h]]
    OBVIOUS
  <2> QED
    BY <2>1, <2>2
<1>3. UNCHANGED <<x1, x3, x4>>
  BY DEF N!Alert
<1>4. \A h \in Handlers : (x2'[h].pc = "deliver" <=> x2[h].pc = "deliver")
                          /\ (x2'[h].pc = "deliver" => N!Of(h)' = N!Of(h))
  BY <1>1 DEF N!Of
<1>5. N!TypeOK'
  BY <1>2, <1>3 DEF N!Inv, N!TypeOK
<1>6. N!Delivering'
  <2>1. \A i \in N!Ids : x1'[i] = "none" => x3'[i] = 0
    BY <1>3 DEF N!Inv, N!Delivering
  <2>2. ASSUME NEW h \in Handlers
        PROVE  /\ x2'[h].pc # "idle" => x2'[h].alert \in Alerts /\ x2'[h].admin \in Users
               /\ x2'[h].pc = "deliver" =>
                     /\ x1'[N!Of(h)'] # "none" /\ x3'[N!Of(h)'] = 0
                     /\ \A k \in Handlers :
                           x2'[k].pc = "deliver" /\ N!Of(k)' = N!Of(h)' => k = h
    BY <1>1, <1>3, <1>4 DEF N!Inv, N!Delivering
  <2> QED
    BY <2>1, <2>2 DEF N!Delivering
<1>7. N!NotifiedOnceUnlessCut'
  BY <1>3, <1>4 DEF N!Inv, N!NotifiedOnceUnlessCut
<1> QED
  BY <1>5, <1>6, <1>7 DEF N!Inv

\* Whoever creates the row of an id is the one to deliver it.
LEMMA NotifyCreateStep ==
  ASSUME N!Inv, NEW h \in Handlers, N!Create(h) PROVE N!Inv'
<1>1. /\ x2[h].pc = "create" /\ UNCHANGED <<x3, x4>>
      /\ N!Of(h) \in N!Ids /\ x2[h].alert \in Alerts /\ x2[h].admin \in Users
  BY NotifyWorking DEF N!Create
<1>2. PICK i \in N!Ids : i = N!Of(h)
  BY <1>1
<1>3. CASE x1[i] # "none"
  <2>1. x2' = [x2 EXCEPT ![h] = N!Idle] /\ x1' = x1 /\ N!Idle \in N!Job /\ N!Idle.pc = "idle"
    BY <1>2, <1>3 DEF N!Create, N!Known, N!Idle, N!Job
  <2>2. /\ x2' \in [Handlers -> N!Job] /\ x2'[h].pc = "idle"
        /\ \A k \in Handlers : k # h => x2'[k] = x2[k] /\ N!Of(k)' = N!Of(k)
    BY <2>1, NotifyGoing
  <2>3. N!TypeOK'
    BY <1>1, <2>1, <2>2 DEF N!Inv, N!TypeOK
  <2>4. N!Delivering'
    BY <1>1, <2>1, <2>2 DEF N!Inv, N!Delivering
  <2>5. N!NotifiedOnceUnlessCut'
    BY <1>1, <2>1, <2>2 DEF N!Inv, N!NotifiedOnceUnlessCut
  <2> QED
    BY <2>3, <2>4, <2>5 DEF N!Inv
<1>4. CASE x1[i] = "none"
  <2> PICK n : n = [x2[h] EXCEPT !.pc = "deliver"]
    OBVIOUS
  <2>1. n \in N!Job /\ n.pc = "deliver" /\ n.alert = x2[h].alert /\ n.admin = x2[h].admin
    <3>1. x2[h] \in N!Job
      BY DEF N!Inv, N!TypeOK
    <3> QED
      BY <3>1 DEF N!Job
  <2>2. x2' = [x2 EXCEPT ![h] = n] /\ x1' = [x1 EXCEPT ![i] = "unread"]
    BY <1>2, <1>4 DEF N!Create, N!Known
  <2>3. /\ x2' \in [Handlers -> N!Job] /\ x2'[h] = n
        /\ \A k \in Handlers : k # h => x2'[k] = x2[k] /\ N!Of(k)' = N!Of(k)
    BY <2>1, <2>2, NotifyGoing
  <2>4. /\ x1' \in [N!Ids -> {"none", "unread", "read"}] /\ x1'[i] = "unread"
        /\ \A j \in N!Ids : j # i => x1'[j] = x1[j]
    BY <2>2 DEF N!Inv, N!TypeOK
  <2>5. N!Of(h)' = i
    BY <1>2, <2>1, <2>3 DEF N!Of
  <2>6. x3[i] = 0
    BY <1>4 DEF N!Inv, N!Delivering
  <2>7. \A k \in Handlers : x2[k].pc = "deliver" => k # h /\ N!Of(k) \in N!Ids /\ N!Of(k) # i
    <3>1. \A k \in Handlers : x2[k].pc = "deliver" => N!Of(k) \in N!Ids
      BY NotifyWorking
    <3> QED
      BY <1>1, <1>4, <3>1 DEF N!Inv, N!Delivering
  <2>8. N!TypeOK'
    BY <1>1, <2>3, <2>4 DEF N!Inv, N!TypeOK
  <2>9. N!Delivering'
    <3>1. \A j \in N!Ids : x1'[j] = "none" => x3'[j] = 0
      BY <1>1, <2>4 DEF N!Inv, N!Delivering
    <3>2. ASSUME NEW k \in Handlers
          PROVE  /\ x2'[k].pc # "idle" =>
                       x2'[k].alert \in Alerts /\ x2'[k].admin \in Users
                 /\ x2'[k].pc = "deliver" =>
                       /\ x1'[N!Of(k)'] # "none" /\ x3'[N!Of(k)'] = 0
                       /\ \A l \in Handlers :
                             x2'[l].pc = "deliver" /\ N!Of(l)' = N!Of(k)' => l = k
      <4>1. CASE k = h
        <5>1. x2'[k].alert \in Alerts /\ x2'[k].admin \in Users
          BY <1>1, <2>1, <2>3, <4>1
        <5>2. N!Of(k)' = i /\ x1'[i] # "none" /\ x3'[i] = 0
          BY <1>1, <2>4, <2>5, <2>6, <4>1
        <5>3. \A l \in Handlers : l # h /\ x2'[l].pc = "deliver" => N!Of(l)' # i
          BY <2>3, <2>7
        <5> QED
          BY <4>1, <5>1, <5>2, <5>3
      <4>2. CASE k # h
        <5>1. x2'[k] = x2[k] /\ N!Of(k)' = N!Of(k)
          BY <2>3, <4>2
        <5>2. x2[k].pc # "idle" => x2[k].alert \in Alerts /\ x2[k].admin \in Users
          BY DEF N!Inv, N!Delivering
        <5>3. ASSUME x2[k].pc = "deliver"
              PROVE  /\ x1'[N!Of(k)] # "none" /\ x3'[N!Of(k)] = 0
                     /\ \A l \in Handlers :
                           x2'[l].pc = "deliver" /\ N!Of(l)' = N!Of(k) => l = k
          <6>1. N!Of(k) \in N!Ids /\ N!Of(k) # i
            BY <2>7, <5>3
          <6>2. x1'[N!Of(k)] # "none" /\ x3'[N!Of(k)] = 0
            BY <1>1, <2>4, <5>3, <6>1 DEF N!Inv, N!Delivering
          <6>3. ASSUME NEW l \in Handlers, x2'[l].pc = "deliver", N!Of(l)' = N!Of(k)
                PROVE  l = k
            <7>1. l # h
              BY <2>5, <6>1, <6>3
            <7> QED
              BY <2>3, <5>3, <6>3, <7>1 DEF N!Inv, N!Delivering
          <6> QED
            BY <6>2, <6>3
        <5> QED
          BY <5>1, <5>2, <5>3
      <4> QED
        BY <4>1, <4>2
    <3> QED
      BY <3>1, <3>2 DEF N!Delivering
  <2>10. N!NotifiedOnceUnlessCut'
    <3> SUFFICES ASSUME NEW j \in N!Ids
                 PROVE  /\ x3'[j] <= 1
                        /\ j[1] \in Mailed /\ x1'[j] # "none" =>
                              \/ x3'[j] = 1
                              \/ j \in x4'
                              \/ \E k \in Handlers : x2'[k].pc = "deliver" /\ N!Of(k)' = j
      BY DEF N!NotifiedOnceUnlessCut
    <3>1. x3'[j] <= 1
      BY <1>1 DEF N!Inv, N!NotifiedOnceUnlessCut
    <3>2. CASE j = i
      BY <2>1, <2>3, <2>5, <3>1, <3>2
    <3>3. CASE j # i
      <4>1. \A k \in Handlers : x2[k].pc = "deliver" =>
                                  x2'[k].pc = "deliver" /\ N!Of(k)' = N!Of(k)
        BY <2>3, <2>7
      <4> QED
        BY <1>1, <2>4, <3>1, <3>3, <4>1 DEF N!Inv, N!NotifiedOnceUnlessCut
    <3> QED
      BY <3>2, <3>3
  <2> QED
    BY <2>8, <2>9, <2>10 DEF N!Inv
<1> QED
  BY <1>3, <1>4

\* A call that ends at i leaves i mailed, or cut.
LEMMA NotifyEnding ==
  ASSUME N!Inv, NEW h \in Handlers, x2[h].pc # "idle",
         x2' = [x2 EXCEPT ![h] = N!Idle], x1' = x1,
         x4' \in SUBSET N!Ids, x4 \subseteq x4',
         x3' \in [N!Ids -> 0..2],
         \A j \in N!Ids : j # N!Of(h) => x3'[j] = x3[j],
         x3'[N!Of(h)] = x3[N!Of(h)] \/ (x2[h].pc = "deliver" /\ x3'[N!Of(h)] = 1),
         x2[h].pc = "deliver" /\ x2[h].alert \in Mailed =>
             N!Of(h) \in x4' \/ x3'[N!Of(h)] = 1
  PROVE  N!Inv'
<1>1. N!Of(h) \in N!Ids /\ N!Of(h)[1] = x2[h].alert
  BY NotifyWorking
<1>2. PICK i \in N!Ids : i = N!Of(h)
  BY <1>1
<1>3. /\ x2' \in [Handlers -> N!Job] /\ x2'[h].pc = "idle"
      /\ \A k \in Handlers : k # h => x2'[k] = x2[k] /\ N!Of(k)' = N!Of(k)
  <2>1. N!Idle \in N!Job /\ N!Idle.pc = "idle"
    BY DEF N!Idle, N!Job
  <2> QED
    BY <2>1, NotifyGoing
<1>4. N!TypeOK'
  BY <1>3 DEF N!Inv, N!TypeOK
<1>5. \A j \in N!Ids : x3'[j] = x3[j] \/ (j = i /\ x2[h].pc = "deliver" /\ x3'[j] = 1)
  BY <1>2
<1>6. N!Delivering'
  <2>1. \A j \in N!Ids : x1'[j] = "none" => x3'[j] = 0
    BY <1>2, <1>5 DEF N!Inv, N!Delivering
  <2>2. ASSUME NEW k \in Handlers
        PROVE  /\ x2'[k].pc # "idle" =>
                     x2'[k].alert \in Alerts /\ x2'[k].admin \in Users
               /\ x2'[k].pc = "deliver" =>
                     /\ x1'[N!Of(k)'] # "none" /\ x3'[N!Of(k)'] = 0
                     /\ \A l \in Handlers :
                           x2'[l].pc = "deliver" /\ N!Of(l)' = N!Of(k)' => l = k
    <3>1. CASE k = h
      BY <1>3, <3>1
    <3>2. CASE k # h
      <4>1. x2'[k] = x2[k] /\ N!Of(k)' = N!Of(k)
        BY <1>3, <3>2
      <4>2. x2[k].pc # "idle" => x2[k].alert \in Alerts /\ x2[k].admin \in Users
        BY DEF N!Inv, N!Delivering
      <4>3. ASSUME x2[k].pc = "deliver"
            PROVE  x1[N!Of(k)] # "none" /\ x3'[N!Of(k)] = 0
        <5>1. x1[N!Of(k)] # "none" /\ x3[N!Of(k)] = 0
              /\ ~(x2[h].pc = "deliver" /\ N!Of(h) = N!Of(k))
          BY <3>2, <4>3 DEF N!Inv, N!Delivering
        <5>2. N!Of(k) \in N!Ids
          BY <4>3, NotifyWorking
        <5> QED
          BY <1>2, <1>5, <5>1, <5>2
      <4>4. ASSUME x2[k].pc = "deliver", NEW l \in Handlers, x2'[l].pc = "deliver",
                   N!Of(l)' = N!Of(k)
            PROVE  l = k
        BY <1>3, <4>4 DEF N!Inv, N!Delivering
      <4> QED
        BY <4>1, <4>2, <4>3, <4>4
    <3> QED
      BY <3>1, <3>2
  <2> QED
    BY <2>1, <2>2 DEF N!Delivering
<1>7. N!NotifiedOnceUnlessCut'
  <2> SUFFICES ASSUME NEW j \in N!Ids
               PROVE  /\ x3'[j] <= 1
                      /\ j[1] \in Mailed /\ x1'[j] # "none" =>
                            \/ x3'[j] = 1
                            \/ j \in x4'
                            \/ \E k \in Handlers : x2'[k].pc = "deliver" /\ N!Of(k)' = j
    BY DEF N!NotifiedOnceUnlessCut
  <2>1. x3'[j] <= 1
    BY <1>5 DEF N!Inv, N!NotifiedOnceUnlessCut
  <2>2. ASSUME j[1] \in Mailed, x1'[j] # "none"
        PROVE  \/ x3'[j] = 1
               \/ j \in x4'
               \/ \E k \in Handlers : x2'[k].pc = "deliver" /\ N!Of(k)' = j
    <3>1. CASE x3[j] = 1 \/ j \in x4
      BY <1>5, <3>1
    <3>2. CASE \E k \in Handlers : x2[k].pc = "deliver" /\ N!Of(k) = j
      <4>1. PICK k \in Handlers : x2[k].pc = "deliver" /\ N!Of(k) = j
        BY <3>2
      <4>2. CASE k = h
        BY <1>1, <2>2, <4>1, <4>2
      <4>3. CASE k # h
        BY <1>3, <4>1, <4>3
      <4> QED
        BY <4>2, <4>3
    <3> QED
      BY <2>2, <3>1, <3>2 DEF N!Inv, N!NotifiedOnceUnlessCut
  <2> QED
    BY <2>1, <2>2
<1> QED
  BY <1>4, <1>6, <1>7 DEF N!Inv

\* The e-mail is sent, and for the first time.
LEMMA NotifyDeliverStep ==
  ASSUME N!Inv, NEW h \in Handlers, N!Deliver(h) PROVE N!Inv'
<1>1. /\ x2[h].pc = "deliver" /\ x2' = [x2 EXCEPT ![h] = N!Idle]
      /\ UNCHANGED <<x1, x4>>
  BY DEF N!Deliver
<1>2. PICK i \in N!Ids : i = N!Of(h)
  BY <1>1, NotifyWorking
<1>3. x3[i] = 0 /\ x3 \in [N!Ids -> 0..2] /\ x4 \subseteq N!Ids
  BY <1>1, <1>2 DEF N!Inv, N!Delivering, N!TypeOK
<1>4. x3' = IF x2[h].alert \in Mailed THEN [x3 EXCEPT ![i] = 1] ELSE x3
  BY <1>2, <1>3 DEF N!Deliver
<1>5. /\ x3' \in [N!Ids -> 0..2]
      /\ \A j \in N!Ids : j # i => x3'[j] = x3[j]
      /\ x3'[i] = x3[i] \/ x3'[i] = 1
      /\ x2[h].alert \in Mailed => x3'[i] = 1
  BY <1>3, <1>4
<1> QED
  BY <1>1, <1>2, <1>3, <1>5, NotifyEnding

\* A call that stops is remembered where the e-mail was due.
LEMMA NotifyStopStep ==
  ASSUME N!Inv, NEW h \in Handlers, N!Stop(h) PROVE N!Inv'
<1>1. /\ x2[h].pc # "idle" /\ x2' = [x2 EXCEPT ![h] = N!Idle]
      /\ UNCHANGED <<x1, x3>>
      /\ x4' = IF x2[h].pc = "deliver" THEN x4 \cup {N!Of(h)} ELSE x4
  BY DEF N!Stop
<1>2. x3 \in [N!Ids -> 0..2] /\ x4 \subseteq N!Ids /\ N!Of(h) \in N!Ids
  BY <1>1, NotifyWorking DEF N!Inv, N!TypeOK
<1> QED
  BY <1>1, <1>2, NotifyEnding

\* Reading takes no row away.
LEMMA NotifyReadStep ==
  ASSUME N!Inv, UNCHANGED <<x2, x3, x4>>,
         x1' \in [N!Ids -> {"none", "unread", "read"}],
         \A i \in N!Ids : x1'[i] = "none" <=> x1[i] = "none"
  PROVE  N!Inv'
<1>1. \A h \in Handlers : N!Of(h)' = N!Of(h) /\ (x2[h].pc # "idle" => N!Of(h) \in N!Ids)
  BY NotifyWorking DEF N!Of
<1>2. N!TypeOK'
  BY DEF N!Inv, N!TypeOK
<1>3. N!Delivering'
  <2>1. \A i \in N!Ids : x1'[i] = "none" => x3'[i] = 0
    BY DEF N!Inv, N!Delivering
  <2>2. ASSUME NEW h \in Handlers
        PROVE  /\ x2'[h].pc # "idle" => x2'[h].alert \in Alerts /\ x2'[h].admin \in Users
               /\ x2'[h].pc = "deliver" =>
                     /\ x1'[N!Of(h)'] # "none" /\ x3'[N!Of(h)'] = 0
                     /\ \A k \in Handlers :
                           x2'[k].pc = "deliver" /\ N!Of(k)' = N!Of(h)' => k = h
    BY <1>1 DEF N!Inv, N!Delivering
  <2> QED
    BY <2>1, <2>2 DEF N!Delivering
<1>4. N!NotifiedOnceUnlessCut'
  BY <1>1 DEF N!Inv, N!NotifiedOnceUnlessCut
<1> QED
  BY <1>2, <1>3, <1>4 DEF N!Inv

\* Every step keeps the invariant.
LEMMA NotifyNextInv == ASSUME N!Inv, N!Next PROVE N!Inv'
<1>1. CASE \E a \in Alerts : N!Alert(a)
  BY <1>1, NotifyAlertStep
<1>2. CASE \E h \in Handlers : N!Create(h)
  BY <1>2, NotifyCreateStep
<1>3. CASE \E h \in Handlers : N!Deliver(h)
  BY <1>3, NotifyDeliverStep
<1>4. CASE \E h \in Handlers : N!Stop(h)
  BY <1>4, NotifyStopStep
<1>5. ASSUME NEW i \in N!Ids, N!MarkRead(i) PROVE N!Inv'
  <2>1. /\ x1' \in [N!Ids -> {"none", "unread", "read"}]
        /\ \A j \in N!Ids : x1'[j] = "none" <=> x1[j] = "none"
    BY <1>5 DEF N!MarkRead, N!Inv, N!TypeOK
  <2> QED
    BY <1>5, <2>1, NotifyReadStep DEF N!MarkRead
<1>6. ASSUME NEW u \in Users, N!MarkAllRead(u) PROVE N!Inv'
  <2>1. /\ x1' \in [N!Ids -> {"none", "unread", "read"}]
        /\ \A j \in N!Ids : x1'[j] = "none" <=> x1[j] = "none"
    BY <1>6 DEF N!MarkAllRead, N!Inv, N!TypeOK
  <2> QED
    BY <1>6, <2>1, NotifyReadStep DEF N!MarkAllRead
<1> QED
  BY <1>1, <1>2, <1>3, <1>4, <1>5, <1>6 DEF N!Next

LEMMA NotifyStutterInv == ASSUME N!Inv, UNCHANGED N!vars PROVE N!Inv'
BY DEF N!Inv, N!vars, N!TypeOK, N!Delivering, N!NotifiedOnceUnlessCut, N!Of

-----------------------------------------------------------------------------
(* Mail.                                                                   *)

\* An empty mailbox.
LEMMA MailInitInv == ASSUME M!Init PROVE M!Inv
<1>1. M!TypeOK
  BY DEF M!Init, M!TypeOK, M!Job, M!Idle
<1>2. M!Placed
  BY DEF M!Init, M!Placed
<1>3. M!Sent
  BY DEF M!Init, M!Sent, M!Idle
<1> QED
  BY <1>1, <1>2, <1>3 DEF M!Inv

\* What the invariant says.
LEMMA MailInvImplies ==
  ASSUME M!Inv PROVE M!TypeOK /\ M!DeliveredStays /\ M!DraftsAreSentOnce
<1>1. M!DeliveredStays
  BY DEF M!Inv, M!Placed, M!DeliveredStays
<1>2. M!DraftsAreSentOnce
  <2> SUFFICES ASSUME NEW d \in x4
               PROVE  /\ Cardinality({e \in Signatures : x7[e] = d}) <= 1
                      /\ d \notin x1 =>
                            \/ d \in x8
                            \/ \E e \in Signatures : x7[e] = d
                            \/ \E h \in Handlers : x3[h].pc = "deliver" /\ x3[h].on = d
    BY SameSets DEF M!DraftsAreSentOnce
  <2>1. d \in Signatures /\ d # None
    BY ConstantsAreSound, SameSets DEF M!Inv, M!TypeOK, M!NoneIsNoValue
  <2>2. Cardinality({e \in Signatures : x7[e] = d}) <= 1
    <3>1. CASE \E e \in Signatures : x7[e] = d
      <4>1. PICK e \in Signatures : x7[e] = d
        BY <3>1
      <4>2. {g \in Signatures : x7[g] = d} = {e}
        BY <2>1, <4>1 DEF M!Inv, M!Sent
      <4>3. Cardinality({e}) = 1
        BY FS_Singleton
      <4> QED
        BY <4>2, <4>3
    <3>2. CASE ~\E e \in Signatures : x7[e] = d
      <4>1. {g \in Signatures : x7[g] = d} = {}
        BY <3>2
      <4>2. Cardinality({}) = 0
        BY FS_EmptySet
      <4> QED
        BY <4>1, <4>2
    <3> QED
      BY <3>1, <3>2
  <2> QED
    BY <2>2 DEF M!Inv, M!Sent
<1> QED
  BY <1>1, <1>2 DEF M!Inv

\* What becomes of the calls when one goes on to n.
LEMMA MailGoing ==
  ASSUME M!Inv, NEW h \in Handlers, NEW n \in M!Job, x3' = [x3 EXCEPT ![h] = n]
  PROVE  /\ x3' \in [Handlers -> M!Job] /\ x3'[h] = n
         /\ \A k \in Handlers : k # h => x3'[k] = x3[k]
BY DEF M!Inv, M!TypeOK

LEMMA MailEnded == M!Idle \in M!Job /\ M!Idle.pc = "idle" /\ M!Idle.on = None
BY DEF M!Idle, M!Job

\* The mailboxes change and nothing is written: what a call knew of a message
\* stays so.
LEMMA MailMailboxStep ==
  ASSUME M!Inv, UNCHANGED <<x1, x3, x4, x7, x8>>,
         x2' \in [Signatures \X Users -> M!Folders \cup {None}],
         x5' \in [Signatures -> SUBSET Users], x6' \in SUBSET x4,
         \A e \in Signatures : x5'[e] \subseteq x5[e],
         M!Placed'
  PROVE  M!Inv'
<1>1. M!TypeOK'
  BY DEF M!Inv, M!TypeOK
<1>2. M!Sent'
  <2>1. ASSUME NEW h \in Handlers, x3[h].pc = "erase"
        PROVE  x5'[x3[h].on] = {}
    <3>1. x3[h].on \in Signatures /\ x5[x3[h].on] = {}
      BY <2>1 DEF M!Inv, M!Sent, M!TypeOK
    <3> QED
      BY <3>1
  <2> QED
    BY <2>1 DEF M!Inv, M!Sent
<1> QED
  BY <1>1, <1>2 DEF M!Inv

\* A row goes to another folder.
LEMMA MailMoveStep ==
  ASSUME M!Inv, NEW u \in Users, NEW e \in Signatures, NEW f \in M!Folders,
         M!Move(u, e, f)
  PROVE  M!Inv'
<1>1. /\ x2[<<e, u>>] # None /\ x2' = [x2 EXCEPT ![<<e, u>>] = f]
      /\ x5' = IF f = "DRAFTS" THEN [x5 EXCEPT ![e] = {}] ELSE x5
      /\ UNCHANGED <<x1, x3, x4, x6, x7, x8>>
  BY DEF M!Move
<1>2. /\ x2 \in [Signatures \X Users -> M!Folders \cup {None}]
      /\ x5 \in [Signatures -> SUBSET Users] /\ x6 \subseteq x4
  BY DEF M!Inv, M!TypeOK
<1>3. /\ x2' \in [Signatures \X Users -> M!Folders \cup {None}]
      /\ x2'[<<e, u>>] = f
      /\ \A g \in Signatures, w \in Users : g # e \/ w # u => x2'[<<g, w>>] = x2[<<g, w>>]
  BY <1>1, <1>2
<1>4. x5' \in [Signatures -> SUBSET Users]
  BY <1>1, <1>2
<1>5. /\ \A g \in Signatures : x5'[g] \subseteq x5[g] /\ (x5'[g] # {} => x5'[g] = x5[g])
      /\ f = "DRAFTS" => x5'[e] = {}
  BY <1>1, <1>2
<1>6. e \in x1
  BY <1>1 DEF M!Inv, M!Placed
<1>7. M!Placed'
  <2>1. \A g \in Signatures, w \in Users : x2'[<<g, w>>] # None => g \in x1'
    BY <1>1, <1>3, <1>6 DEF M!Inv, M!Placed
  <2>2. ASSUME NEW g \in Signatures, x5'[g] # {}
        PROVE  /\ g \in x1' \ x6'
               /\ \A w \in Users : x2'[<<g, w>>] # "DRAFTS"
               /\ \A w \in x5'[g] : x2'[<<g, w>>] # None
    <3>1. x5'[g] = x5[g] /\ x5[g] # {} /\ x5[g] \subseteq Users
      BY <1>2, <1>5, <2>2
    <3>2. /\ g \in x1 \ x6
          /\ \A w \in Users : x2[<<g, w>>] # "DRAFTS"
          /\ \A w \in x5[g] : x2[<<g, w>>] # None
      BY <3>1 DEF M!Inv, M!Placed
    <3>3. g = e => f # "DRAFTS" /\ f # None
      BY <1>1, <1>5, <2>2, <3>2, ConstantsAreSound, SameSets
      DEF M!Folders, M!NoneIsNoValue
    <3>4. /\ \A w \in Users : x2'[<<g, w>>] # "DRAFTS"
          /\ \A w \in Users : x2[<<g, w>>] # None => x2'[<<g, w>>] # None
      <4>1. ASSUME NEW w \in Users
            PROVE  /\ x2'[<<g, w>>] # "DRAFTS"
                   /\ x2[<<g, w>>] # None => x2'[<<g, w>>] # None
        <5>1. CASE g = e /\ w = u
          BY <1>3, <3>3, <5>1
        <5>2. CASE g # e \/ w # u
          BY <1>3, <3>2, <5>2
        <5> QED
          BY <5>1, <5>2
      <4> QED
        BY <4>1
    <3> QED
      BY <1>1, <3>1, <3>2, <3>4
  <2> QED
    BY <2>1, <2>2 DEF M!Placed
<1> QED
  BY <1>1, <1>2, <1>3, <1>4, <1>5, <1>7, MailMailboxStep

\* A user deletes copies.
LEMMA MailDeleteStep ==
  ASSUME M!Inv, NEW u \in Users, NEW es \in SUBSET Signatures, M!Delete(u, es)
  PROVE  M!Inv'
<1>1. /\ x2' = [x \in Signatures \X Users |->
                       IF \E e \in es : x \in M!CopyOf(u, e) THEN None ELSE x2[x]]
      /\ x5' = [e \in Signatures |-> IF e \in es THEN x5[e] \ {u} ELSE x5[e]]
      /\ UNCHANGED <<x1, x3, x4, x6, x7, x8>>
  BY DEF M!Delete
<1>2. /\ x2 \in [Signatures \X Users -> M!Folders \cup {None}]
      /\ x5 \in [Signatures -> SUBSET Users] /\ x6 \subseteq x4
  BY DEF M!Inv, M!TypeOK
<1>3. ASSUME NEW g \in Signatures, NEW w \in Users
      PROVE  x2'[<<g, w>>] = IF g \in es /\ w = u THEN None ELSE x2[<<g, w>>]
  <2>1. (\E e \in es : <<g, w>> \in M!CopyOf(u, e)) <=> g \in es /\ w = u
    BY DEF M!CopyOf
  <2>2. <<g, w>> \in Signatures \X Users
    OBVIOUS
  <2>3. x2'[<<g, w>>] = IF \E e \in es : <<g, w>> \in M!CopyOf(u, e)
                            THEN None ELSE x2[<<g, w>>]
    BY <1>1, <2>2
  <2> QED
    BY <2>1, <2>3
<1>4. x2' \in [Signatures \X Users -> M!Folders \cup {None}]
  BY <1>1, <1>2
<1>5. /\ x5' \in [Signatures -> SUBSET Users]
      /\ \A g \in Signatures : x5'[g] = IF g \in es THEN x5[g] \ {u} ELSE x5[g]
  BY <1>1, <1>2
<1>6. M!Placed'
  <2>1. \A g \in Signatures, w \in Users : x2'[<<g, w>>] # None => g \in x1'
    BY <1>1, <1>3 DEF M!Inv, M!Placed
  <2>2. ASSUME NEW g \in Signatures, x5'[g] # {}
        PROVE  /\ g \in x1' \ x6'
               /\ \A w \in Users : x2'[<<g, w>>] # "DRAFTS"
               /\ \A w \in x5'[g] : x2'[<<g, w>>] # None
    <3>1. x5'[g] \subseteq x5[g] /\ x5[g] # {} /\ x5[g] \subseteq Users
      BY <1>2, <1>5, <2>2
    <3>2. /\ g \in x1 \ x6
          /\ \A w \in Users : x2[<<g, w>>] # "DRAFTS"
          /\ \A w \in x5[g] : x2[<<g, w>>] # None
      BY <3>1 DEF M!Inv, M!Placed
    <3>3. g \in es => u \notin x5'[g]
      BY <1>5
    <3>4. \A w \in x5'[g] : x2'[<<g, w>>] # None
      BY <1>3, <3>1, <3>2, <3>3
    <3>5. None # "DRAFTS"
      BY ConstantsAreSound, SameSets DEF M!NoneIsNoValue
    <3>6. \A w \in Users : x2'[<<g, w>>] # "DRAFTS"
      BY <1>3, <3>2, <3>5
    <3> QED
      BY <1>1, <3>2, <3>4, <3>6
  <2> QED
    BY <2>1, <2>2 DEF M!Placed
<1> QED
  BY <1>1, <1>2, <1>4, <1>5, <1>6, MailMailboxStep

\* A draft is edited: a message that anyone keeps as delivered is none.
LEMMA MailSaveDraftStep ==
  ASSUME M!Inv, NEW u \in Users, NEW e \in Signatures, M!SaveDraft(u, e) PROVE M!Inv'
<1>1. /\ x2[<<e, u>>] = "DRAFTS" /\ UNCHANGED <<x1, x2, x3, x4, x5, x7, x8>>
      /\ x6' = IF x5[e] # {} THEN x6 \cup {e} ELSE x6
  BY DEF M!SaveDraft
<1>2. x5[e] = {}
  BY <1>1 DEF M!Inv, M!Placed
<1>3. x6' = x6
  BY <1>1, <1>2
<1> QED
  BY <1>1, <1>3 DEF M!Inv, M!TypeOK, M!Placed, M!Sent

\* A call begins.
LEMMA MailBeginStep ==
  ASSUME M!Inv, NEW h \in Handlers, NEW n \in M!Job, x3[h].pc = "idle",
         x3' = [x3 EXCEPT ![h] = n], UNCHANGED <<x1, x2, M!history>>,
         n.user \in Users,
         n.pc = "erase" => n.on \in x4 /\ x5[n.on] = {},
         n.pc = "deliver" => n.on = None
  PROVE  M!Inv'
<1>1. /\ x3' \in [Handlers -> M!Job] /\ x3'[h] = n
      /\ \A k \in Handlers : k # h => x3'[k] = x3[k]
  BY MailGoing
<1>2. UNCHANGED <<x4, x5, x6, x7, x8>>
  BY DEF M!history
<1>3. M!TypeOK' /\ M!Placed'
  BY <1>1, <1>2 DEF M!Inv, M!TypeOK, M!Placed
<1>4. M!Sent'
  <2>1. ASSUME NEW k \in Handlers
        PROVE  /\ x3'[k].pc # "idle" => x3'[k].user \in Users
               /\ x3'[k].pc = "erase" => x3'[k].on \in x4' /\ x5'[x3'[k].on] = {}
               /\ x3'[k].pc = "deliver" /\ x3'[k].on # None =>
                     /\ x3'[k].on \in x4' \ x1'
                     /\ \A e \in Signatures : x7'[e] # x3'[k].on
                     /\ \A l \in Handlers :
                           x3'[l].pc = "deliver" /\ x3'[l].on = x3'[k].on => l = k
    <3>1. CASE k = h
      BY <1>1, <1>2, <3>1
    <3>2. CASE k # h
      <4>1. x3'[k] = x3[k]
        BY <1>1, <3>2
      <4>2. \A l \in Handlers : x3'[l].pc = "deliver" /\ x3'[l].on # None =>
                                   x3'[l] = x3[l]
        BY <1>1
      <4> QED
        BY <1>2, <4>1, <4>2 DEF M!Inv, M!Sent
    <3> QED
      BY <3>1, <3>2
  <2>2. \A e \in Signatures :
           x7'[e] # None => /\ e \in x4' /\ x7'[e] \in x4' \ x1'
                            /\ \A g \in Signatures : x7'[g] = x7'[e] => g = e
    BY <1>2 DEF M!Inv, M!Sent
  <2>3. ASSUME NEW d \in x4' \ x1'
        PROVE  \/ d \in x8'
               \/ \E e \in Signatures : x7'[e] = d
               \/ \E k \in Handlers : x3'[k].pc = "deliver" /\ x3'[k].on = d
    <3>1. \A k \in Handlers : x3[k].pc = "deliver" => x3'[k] = x3[k]
      BY <1>1
    <3>2. \/ d \in x8
          \/ \E e \in Signatures : x7[e] = d
          \/ \E k \in Handlers : x3[k].pc = "deliver" /\ x3[k].on = d
      BY <1>2, <2>3 DEF M!Inv, M!Sent
    <3> QED
      BY <1>2, <3>1, <3>2
  <2> QED
    BY <2>1, <2>2, <2>3 DEF M!Sent
<1> QED
  BY <1>3, <1>4 DEF M!Inv

LEMMA MailSendStep ==
  ASSUME M!Inv, NEW h \in Handlers, NEW u \in Users, NEW rs \in ((SUBSET Users) \ {{}}),
         M!Send(h, u, rs)
  PROVE  M!Inv'
<1>1. PICK n : n = [pc |-> "deliver", user |-> u, on |-> None, to |-> rs]
  OBVIOUS
<1>2. u \in Users /\ rs \in SUBSET Users
  BY ConstantsAreSound, SameSets DEF M!WritersAreUsers
<1>3. n \in M!Job /\ n.pc = "deliver" /\ n.user = u /\ n.on = None
  BY <1>1, <1>2 DEF M!Job
<1>4. x3[h].pc = "idle" /\ x3' = [x3 EXCEPT ![h] = n] /\ UNCHANGED <<x1, x2, M!history>>
  BY <1>1 DEF M!Send, M!Begin
<1> QED
  BY <1>2, <1>3, <1>4, MailBeginStep

LEMMA MailReadToSendStep ==
  ASSUME M!Inv, NEW h \in Handlers, NEW u \in Users, NEW e \in Signatures,
         NEW rs \in ((SUBSET Users) \ {{}}), M!ReadToSend(h, u, e, rs)
  PROVE  M!Inv'
<1>1. PICK n : n = [pc |-> "erase", user |-> u, on |-> e, to |-> rs]
  OBVIOUS
<1>2. rs \in SUBSET Users
  BY ConstantsAreSound, SameSets DEF M!WritersAreUsers
<1>3. n \in M!Job /\ n.pc = "erase" /\ n.user = u /\ n.on = e
  BY <1>1, <1>2 DEF M!Job
<1>4. /\ x2[<<e, u>>] = "DRAFTS" /\ x3[h].pc = "idle"
      /\ x3' = [x3 EXCEPT ![h] = n] /\ UNCHANGED <<x1, x2, M!history>>
  BY <1>1 DEF M!ReadToSend, M!Begin
<1>5. x2[<<e, u>>] # None
  BY <1>4, ConstantsAreSound, SameSets DEF M!NoneIsNoValue
<1>6. e \in x4 /\ x5[e] = {}
  BY <1>4, <1>5 DEF M!Inv, M!Placed, M!TypeOK
<1> QED
  BY <1>3, <1>4, <1>6, MailBeginStep

\* A new Email takes an id that no call, message or mailbox has.
LEMMA MailFresh ==
  ASSUME M!Inv, NEW e \in Signatures, e \notin x4
  PROVE  /\ e \notin x1 /\ x5[e] = {} /\ x7[e] = None /\ e # None /\ e \notin x6
         /\ \A u \in Users : x2[<<e, u>>] = None
         /\ \A g \in Signatures : x7[g] # e
         /\ \A h \in Handlers : x3[h].pc \in {"erase", "deliver"} => x3[h].on # e
<1>1. x1 \subseteq x4 /\ x6 \subseteq x4
  BY DEF M!Inv, M!TypeOK
<1>2. e # None
  BY ConstantsAreSound, SameSets DEF M!NoneIsNoValue
<1>3. x5[e] = {} /\ \A u \in Users : x2[<<e, u>>] = None
  BY <1>1 DEF M!Inv, M!Placed
<1>4. x7[e] = None /\ \A g \in Signatures : x7[g] # e
  BY <1>2 DEF M!Inv, M!Sent
<1>5. \A h \in Handlers : x3[h].pc \in {"erase", "deliver"} => x3[h].on # e
  BY <1>2 DEF M!Inv, M!Sent
<1> QED
  BY <1>1, <1>2, <1>3, <1>4, <1>5

\* A draft is saved for the first time.
LEMMA MailNewDraftStep ==
  ASSUME M!Inv, NEW u \in Users, NEW e \in Signatures, M!NewDraft(u, e) PROVE M!Inv'
<1>1. /\ e \notin x4 /\ x4' = x4 \cup {e} /\ x1' = x1 \cup {e}
      /\ x2' = [x2 EXCEPT ![<<e, u>>] = "DRAFTS"]
      /\ UNCHANGED <<x3, x5, x6, x7, x8>>
  BY DEF M!NewDraft, M!Make
<1>2. /\ x2 \in [Signatures \X Users -> M!Folders \cup {None}]
  BY DEF M!Inv, M!TypeOK
<1>3. /\ x2' \in [Signatures \X Users -> M!Folders \cup {None}]
      /\ \A g \in Signatures, w \in Users : g # e => x2'[<<g, w>>] = x2[<<g, w>>]
  BY <1>1, <1>2 DEF M!Folders
<1>4. M!TypeOK'
  BY <1>1, <1>3 DEF M!Inv, M!TypeOK
<1>5. M!Placed'
  <2>1. \A g \in Signatures, w \in Users : x2'[<<g, w>>] # None => g \in x1'
    BY <1>1, <1>3 DEF M!Inv, M!Placed
  <2>2. ASSUME NEW g \in Signatures, x5'[g] # {}
        PROVE  /\ g \in x1' \ x6'
               /\ \A w \in Users : x2'[<<g, w>>] # "DRAFTS"
               /\ \A w \in x5'[g] : x2'[<<g, w>>] # None
    <3>1. x5[g] # {} /\ x5[g] \subseteq Users
      BY <1>1, <2>2 DEF M!Inv, M!TypeOK
    <3>2. g # e
      BY <1>1, <3>1, MailFresh
    <3> QED
      BY <1>1, <1>3, <3>1, <3>2 DEF M!Inv, M!Placed
  <2> QED
    BY <2>1, <2>2 DEF M!Placed
<1>6. M!Sent'
  <2>1. ASSUME NEW k \in Handlers
        PROVE  /\ x3'[k].pc # "idle" => x3'[k].user \in Users
               /\ x3'[k].pc = "erase" => x3'[k].on \in x4' /\ x5'[x3'[k].on] = {}
               /\ x3'[k].pc = "deliver" /\ x3'[k].on # None =>
                     /\ x3'[k].on \in x4' \ x1'
                     /\ \A g \in Signatures : x7'[g] # x3'[k].on
                     /\ \A l \in Handlers :
                           x3'[l].pc = "deliver" /\ x3'[l].on = x3'[k].on => l = k
    <3>1. x3[k].pc \in {"erase", "deliver"} => x3[k].on # e
      BY <1>1, MailFresh
    <3> QED
      BY <1>1, <3>1 DEF M!Inv, M!Sent
  <2>2. \A g \in Signatures :
           x7'[g] # None => /\ g \in x4' /\ x7'[g] \in x4' \ x1'
                            /\ \A d \in Signatures : x7'[d] = x7'[g] => d = g
    <3>1. \A g \in Signatures : x7[g] # e
      BY <1>1, MailFresh
    <3> QED
      BY <1>1, <3>1 DEF M!Inv, M!Sent
  <2>3. \A d \in x4' \ x1' :
           \/ d \in x8'
           \/ \E g \in Signatures : x7'[g] = d
           \/ \E k \in Handlers : x3'[k].pc = "deliver" /\ x3'[k].on = d
    BY <1>1 DEF M!Inv, M!Sent
  <2> QED
    BY <2>1, <2>2, <2>3 DEF M!Sent
<1> QED
  BY <1>4, <1>5, <1>6 DEF M!Inv

\* A message is delivered under a new id.
LEMMA MailDeliverStep ==
  ASSUME M!Inv, NEW h \in Handlers, M!Deliver(h) PROVE M!Inv'
<1>1. PICK boxes : boxes = x3[h].to \cup {x3[h].user}
  OBVIOUS
<1>2. PICK e \in Signatures :
         /\ e \notin x4 /\ x4' = x4 \cup {e} /\ x1' = x1 \cup {e}
         /\ x2' = [x \in Signatures \X Users |->
                          IF x[1] = e /\ x[2] \in boxes THEN "OTHER" ELSE x2[x]]
         /\ x5' = [x5 EXCEPT ![e] = boxes]
         /\ x7' = [x7 EXCEPT ![e] = x3[h].on]
  BY <1>1 DEF M!Deliver, M!Make
<1>3. x3[h].pc = "deliver" /\ x3' = [x3 EXCEPT ![h] = M!Idle] /\ UNCHANGED <<x6, x8>>
  BY DEF M!Deliver, M!End
<1>4. PICK d \in Signatures \cup {None} : d = x3[h].on
  BY DEF M!Inv, M!TypeOK, M!Job
<1>5. boxes \subseteq Users
  <2>1. x3[h].user \in Users /\ x3[h].to \subseteq Users
    BY <1>3 DEF M!Inv, M!Sent, M!TypeOK, M!Job
  <2> QED
    BY <1>1, <2>1
<1>6. /\ x2 \in [Signatures \X Users -> M!Folders \cup {None}]
      /\ x5 \in [Signatures -> SUBSET Users] /\ x7 \in [Signatures -> Signatures \cup {None}]
  BY DEF M!Inv, M!TypeOK
<1>7. /\ x2' \in [Signatures \X Users -> M!Folders \cup {None}]
      /\ \A g \in Signatures, w \in Users :
            x2'[<<g, w>>] = IF g = e /\ w \in boxes THEN "OTHER" ELSE x2[<<g, w>>]
  <2>1. ASSUME NEW x \in Signatures \X Users
        PROVE  x2'[x] \in M!Folders \cup {None}
    <3>1. x2'[x] = IF x[1] = e /\ x[2] \in boxes THEN "OTHER" ELSE x2[x]
      BY <1>2
    <3> QED
      BY <1>6, <3>1 DEF M!Folders
  <2>2. x2' = [x \in Signatures \X Users |-> x2'[x]]
    BY <1>2
  <2>3. x2' \in [Signatures \X Users -> M!Folders \cup {None}]
    BY <2>1, <2>2
  <2>4. ASSUME NEW g \in Signatures, NEW w \in Users
        PROVE  x2'[<<g, w>>] = IF g = e /\ w \in boxes THEN "OTHER" ELSE x2[<<g, w>>]
    BY <1>2
  <2> QED
    BY <2>3, <2>4
<1>8. /\ x5' \in [Signatures -> SUBSET Users] /\ x5'[e] = boxes
      /\ \A g \in Signatures : g # e => x5'[g] = x5[g]
  BY <1>2, <1>5, <1>6
<1>9. /\ x7' \in [Signatures -> Signatures \cup {None}] /\ x7'[e] = d
      /\ \A g \in Signatures : g # e => x7'[g] = x7[g]
  BY <1>2, <1>4, <1>6
<1>10. /\ x3' \in [Handlers -> M!Job] /\ x3'[h].pc = "idle"
       /\ \A k \in Handlers : k # h => x3'[k] = x3[k]
  <2>1. M!Idle \in M!Job /\ M!Idle.pc = "idle"
    BY MailEnded
  <2> QED
    BY <1>3, <2>1, MailGoing
<1>11. M!TypeOK'
  BY <1>2, <1>3, <1>7, <1>8, <1>9, <1>10 DEF M!Inv, M!TypeOK
<1>12. M!Placed'
  <2>1. \A g \in Signatures, w \in Users : x2'[<<g, w>>] # None => g \in x1'
    BY <1>2, <1>7 DEF M!Inv, M!Placed
  <2>2. ASSUME NEW g \in Signatures, x5'[g] # {}
        PROVE  /\ g \in x1' \ x6'
               /\ \A w \in Users : x2'[<<g, w>>] # "DRAFTS"
               /\ \A w \in x5'[g] : x2'[<<g, w>>] # None
    <3>1. CASE g = e
      <4>1. e \notin x6 /\ \A w \in Users : x2[<<e, w>>] = None
        BY <1>2, MailFresh
      <4>2. None # "DRAFTS" /\ None # "OTHER" /\ "OTHER" # "DRAFTS"
        BY ConstantsAreSound, SameSets DEF M!NoneIsNoValue
      <4> QED
        BY <1>2, <1>3, <1>5, <1>7, <1>8, <3>1, <4>1, <4>2
    <3>2. CASE g # e
      <4>1. x5'[g] = x5[g] /\ x5[g] # {} /\ x5[g] \subseteq Users
        BY <1>6, <1>8, <2>2, <3>2
      <4>2. /\ g \in x1 \ x6
            /\ \A w \in Users : x2[<<g, w>>] # "DRAFTS"
            /\ \A w \in x5[g] : x2[<<g, w>>] # None
        BY <4>1 DEF M!Inv, M!Placed
      <4> QED
        BY <1>2, <1>3, <1>7, <3>2, <4>1, <4>2
    <3> QED
      BY <3>1, <3>2
  <2> QED
    BY <2>1, <2>2 DEF M!Placed
<1>13. d # None => /\ d \in x4 \ x1 /\ \A g \in Signatures : x7[g] # d
                   /\ \A k \in Handlers : x3[k].pc = "deliver" /\ x3[k].on = d => k = h
  BY <1>3, <1>4 DEF M!Inv, M!Sent
<1>14. M!Sent'
  <2>1. ASSUME NEW k \in Handlers
        PROVE  /\ x3'[k].pc # "idle" => x3'[k].user \in Users
               /\ x3'[k].pc = "erase" => x3'[k].on \in x4' /\ x5'[x3'[k].on] = {}
               /\ x3'[k].pc = "deliver" /\ x3'[k].on # None =>
                     /\ x3'[k].on \in x4' \ x1'
                     /\ \A g \in Signatures : x7'[g] # x3'[k].on
                     /\ \A l \in Handlers :
                           x3'[l].pc = "deliver" /\ x3'[l].on = x3'[k].on => l = k
    <3>1. CASE k = h
      BY <1>10, <3>1
    <3>2. CASE k # h
      <4>1. x3'[k] = x3[k] /\ (x3[k].pc \in {"erase", "deliver"} => x3[k].on # e)
        BY <1>2, <1>10, <3>2, MailFresh
      <4>2. x3[k].pc # "idle" => x3[k].user \in Users
        BY DEF M!Inv, M!Sent
      <4>3. ASSUME x3[k].pc = "erase"
            PROVE  x3[k].on \in x4' /\ x5'[x3[k].on] = {}
        <5>1. x3[k].on \in x4 /\ x5[x3[k].on] = {} /\ x4 \subseteq Signatures
          BY <4>3 DEF M!Inv, M!Sent, M!TypeOK
        <5> QED
          BY <1>2, <1>8, <4>1, <4>3, <5>1
      <4>4. ASSUME x3[k].pc = "deliver", x3[k].on # None
            PROVE  /\ x3[k].on \in x4' \ x1'
                   /\ \A g \in Signatures : x7'[g] # x3[k].on
                   /\ \A l \in Handlers :
                         x3'[l].pc = "deliver" /\ x3'[l].on = x3[k].on => l = k
        <5>1. /\ x3[k].on \in x4 \ x1
              /\ \A g \in Signatures : x7[g] # x3[k].on
              /\ \A l \in Handlers : x3[l].pc = "deliver" /\ x3[l].on = x3[k].on => l = k
          BY <4>4 DEF M!Inv, M!Sent
        <5>2. d # x3[k].on
          BY <1>13, <3>2, <4>4
        <5>3. x3[k].on \in x4' \ x1'
          BY <1>2, <4>1, <4>4, <5>1
        <5>4. \A g \in Signatures : x7'[g] # x3[k].on
          BY <1>9, <5>1, <5>2
        <5>5. \A l \in Handlers :
                 x3'[l].pc = "deliver" /\ x3'[l].on = x3[k].on => l = k
          BY <1>10, <5>1
        <5> QED
          BY <5>3, <5>4, <5>5
      <4> QED
        BY <4>1, <4>2, <4>3, <4>4
    <3> QED
      BY <3>1, <3>2
  <2>2. ASSUME NEW g \in Signatures, x7'[g] # None
        PROVE  /\ g \in x4' /\ x7'[g] \in x4' \ x1'
               /\ \A f \in Signatures : x7'[f] = x7'[g] => f = g
    <3>1. CASE g = e
      <4>1. x7'[g] = d /\ d # None
        BY <1>9, <2>2, <3>1
      <4>2. d \in x4' \ x1'
        BY <1>2, <1>13, <4>1
      <4> QED
        BY <1>2, <1>9, <1>13, <3>1, <4>1, <4>2
    <3>2. CASE g # e
      <4>1. x7'[g] = x7[g] /\ x7[g] # None
        BY <1>9, <2>2, <3>2
      <4>2. /\ g \in x4 /\ x7[g] \in x4 \ x1
            /\ \A f \in Signatures : x7[f] = x7[g] => f = g
        BY <4>1 DEF M!Inv, M!Sent
      <4>3. x7[g] # e /\ x7[g] # d
        BY <1>2, <1>13, <4>1, <4>2
      <4> QED
        BY <1>2, <1>9, <4>1, <4>2, <4>3
    <3> QED
      BY <3>1, <3>2
  <2>3. ASSUME NEW x \in x4' \ x1'
        PROVE  \/ x \in x8'
               \/ \E g \in Signatures : x7'[g] = x
               \/ \E k \in Handlers : x3'[k].pc = "deliver" /\ x3'[k].on = x
    <3>1. x \in x4 \ x1
      BY <1>2, <2>3
    <3>2. CASE x \in x8
      BY <1>3, <3>2
    <3>3. CASE \E g \in Signatures : x7[g] = x
      <4>1. PICK g \in Signatures : x7[g] = x
        BY <3>3
      <4>2. x # None /\ x7[e] = None
        <5>1. x4 \subseteq Signatures
          BY DEF M!Inv, M!TypeOK
        <5> QED
          BY <1>2, <3>1, <5>1, MailFresh, ConstantsAreSound, SameSets
          DEF M!NoneIsNoValue
      <4> QED
        BY <1>9, <4>1, <4>2
    <3>4. CASE \E k \in Handlers : x3[k].pc = "deliver" /\ x3[k].on = x
      <4>1. PICK k \in Handlers : x3[k].pc = "deliver" /\ x3[k].on = x
        BY <3>4
      <4>2. CASE k = h
        BY <1>4, <1>9, <4>1, <4>2
      <4>3. CASE k # h
        BY <1>10, <4>1, <4>3
      <4> QED
        BY <4>2, <4>3
    <3> QED
      BY <3>1, <3>2, <3>3, <3>4 DEF M!Inv, M!Sent
  <2> QED
    BY <2>1, <2>2, <2>3 DEF M!Sent
<1> QED
  BY <1>11, <1>12, <1>14 DEF M!Inv

\* A call that ends with nothing deleted, remembered if it held a deleted draft.
LEMMA MailEnding ==
  ASSUME M!Inv, NEW h \in Handlers, x3' = [x3 EXCEPT ![h] = M!Idle],
         UNCHANGED <<x1, x2, x4, x5, x6, x7>>,
         x8' \in SUBSET x4, x8 \subseteq x8',
         x3[h].pc = "deliver" /\ x3[h].on # None => x3[h].on \in x8'
  PROVE  M!Inv'
<1>1. /\ x3' \in [Handlers -> M!Job] /\ x3'[h].pc = "idle"
      /\ \A k \in Handlers : k # h => x3'[k] = x3[k]
  <2>1. M!Idle \in M!Job /\ M!Idle.pc = "idle"
    BY MailEnded
  <2> QED
    BY <2>1, MailGoing
<1>2. M!TypeOK' /\ M!Placed'
  BY <1>1 DEF M!Inv, M!TypeOK, M!Placed
<1>3. M!Sent'
  <2>1. ASSUME NEW k \in Handlers
        PROVE  /\ x3'[k].pc # "idle" => x3'[k].user \in Users
               /\ x3'[k].pc = "erase" => x3'[k].on \in x4' /\ x5'[x3'[k].on] = {}
               /\ x3'[k].pc = "deliver" /\ x3'[k].on # None =>
                     /\ x3'[k].on \in x4' \ x1'
                     /\ \A g \in Signatures : x7'[g] # x3'[k].on
                     /\ \A l \in Handlers :
                           x3'[l].pc = "deliver" /\ x3'[l].on = x3'[k].on => l = k
    <3>1. CASE k = h
      BY <1>1, <3>1
    <3>2. CASE k # h
      <4>1. x3'[k] = x3[k] /\ \A l \in Handlers : x3'[l].pc = "deliver" => x3'[l] = x3[l]
        BY <1>1, <3>2
      <4> QED
        BY <4>1 DEF M!Inv, M!Sent
    <3> QED
      BY <3>1, <3>2
  <2>2. \A g \in Signatures :
           x7'[g] # None => /\ g \in x4' /\ x7'[g] \in x4' \ x1'
                            /\ \A f \in Signatures : x7'[f] = x7'[g] => f = g
    BY DEF M!Inv, M!Sent
  <2>3. ASSUME NEW x \in x4' \ x1'
        PROVE  \/ x \in x8'
               \/ \E g \in Signatures : x7'[g] = x
               \/ \E k \in Handlers : x3'[k].pc = "deliver" /\ x3'[k].on = x
    <3>1. x # None
      BY <2>3, ConstantsAreSound, SameSets DEF M!Inv, M!TypeOK, M!NoneIsNoValue
    <3>2. CASE x \in x8 \/ \E g \in Signatures : x7[g] = x
      BY <3>2
    <3>3. CASE \E k \in Handlers : x3[k].pc = "deliver" /\ x3[k].on = x
      <4>1. PICK k \in Handlers : x3[k].pc = "deliver" /\ x3[k].on = x
        BY <3>3
      <4>2. CASE k = h
        BY <3>1, <4>1, <4>2
      <4>3. CASE k # h
        BY <1>1, <4>1, <4>3
      <4> QED
        BY <4>2, <4>3
    <3> QED
      BY <2>3, <3>2, <3>3 DEF M!Inv, M!Sent
  <2> QED
    BY <2>1, <2>2, <2>3 DEF M!Sent
<1> QED
  BY <1>2, <1>3 DEF M!Inv

LEMMA MailStopStep ==
  ASSUME M!Inv, NEW h \in Handlers, M!Stop(h) PROVE M!Inv'
<1>1. /\ x8' = IF x3[h].pc = "deliver" THEN x8 \cup ({x3[h].on} \ {None}) ELSE x8
      /\ x3' = [x3 EXCEPT ![h] = M!Idle]
      /\ UNCHANGED <<x1, x2, x4, x5, x6, x7>>
  BY DEF M!Stop, M!End
<1>2. x8 \subseteq x4 /\ (x3[h].pc = "deliver" /\ x3[h].on # None => x3[h].on \in x4)
  BY DEF M!Inv, M!TypeOK, M!Sent
<1>3. /\ x8' \in SUBSET x4 /\ x8 \subseteq x8'
      /\ x3[h].pc = "deliver" /\ x3[h].on # None => x3[h].on \in x8'
  BY <1>1, <1>2
<1> QED
  BY <1>1, <1>3, MailEnding

\* The draft goes, once, and its call alone knows of it.
LEMMA MailEraseDraftStep ==
  ASSUME M!Inv, NEW h \in Handlers, M!EraseDraft(h) PROVE M!Inv'
<1>1. PICK e : e = x3[h].on
  OBVIOUS
<1>2. x3[h].pc = "erase" /\ UNCHANGED M!history
  BY DEF M!EraseDraft
<1>3. e \in x4 /\ x5[e] = {} /\ e \in Signatures /\ e # None /\ x3[h].user \in Users
  <2>1. e \in x4 /\ x5[e] = {} /\ x4 \subseteq Signatures /\ x3[h].user \in Users
    BY <1>1, <1>2 DEF M!Inv, M!Sent, M!TypeOK
  <2> QED
    BY <2>1, ConstantsAreSound, SameSets DEF M!NoneIsNoValue
<1>4. UNCHANGED <<x4, x5, x6, x7, x8>>
  BY <1>2 DEF M!history
<1>5. CASE e \notin x1
  <2>1. x3' = [x3 EXCEPT ![h] = M!Idle] /\ UNCHANGED <<x1, x2>>
    BY <1>1, <1>5 DEF M!EraseDraft, M!Erasable, M!End
  <2>2. x8' \in SUBSET x4 /\ x8 \subseteq x8'
    BY <1>4 DEF M!Inv, M!TypeOK
  <2> QED
    BY <1>2, <1>4, <2>1, <2>2, MailEnding
<1>6. CASE e \in x1
  <2>1. PICK n : n = [x3[h] EXCEPT !.pc = "deliver"]
    OBVIOUS
  <2>2. n \in M!Job /\ n.pc = "deliver" /\ n.on = e /\ n.user = x3[h].user
    <3>1. x3[h] \in M!Job
      BY DEF M!Inv, M!TypeOK
    <3> QED
      BY <1>1, <2>1, <3>1 DEF M!Job
  <2>3. /\ x1' = x1 \ {e}
        /\ x2' = [x \in Signatures \X Users |-> IF x[1] = e THEN None ELSE x2[x]]
        /\ x3' = [x3 EXCEPT ![h] = n]
    <3>1. x3 \in [Handlers -> M!Job]
      BY DEF M!Inv, M!TypeOK
    <3>2. x3' = [x3 EXCEPT ![h].pc = "deliver"]
      BY <1>1, <1>6 DEF M!EraseDraft, M!Erasable
    <3>3. x3' = [x3 EXCEPT ![h] = n]
      BY <2>1, <3>1, <3>2
    <3> QED
      BY <1>1, <1>6, <3>3 DEF M!EraseDraft, M!Erasable
  <2>4. /\ x3' \in [Handlers -> M!Job] /\ x3'[h] = n
        /\ \A k \in Handlers : k # h => x3'[k] = x3[k]
    BY <2>2, <2>3, MailGoing
  <2>5. x2 \in [Signatures \X Users -> M!Folders \cup {None}]
    BY DEF M!Inv, M!TypeOK
  <2>6. /\ x2' \in [Signatures \X Users -> M!Folders \cup {None}]
        /\ \A g \in Signatures, w \in Users :
              x2'[<<g, w>>] = IF g = e THEN None ELSE x2[<<g, w>>]
    <3>1. ASSUME NEW x \in Signatures \X Users
          PROVE  x2'[x] \in M!Folders \cup {None}
      <4>1. x2'[x] = IF x[1] = e THEN None ELSE x2[x]
        BY <2>3
      <4> QED
        BY <2>5, <4>1
    <3>2. x2' = [x \in Signatures \X Users |-> x2'[x]]
      BY <2>3
    <3>3. x2' \in [Signatures \X Users -> M!Folders \cup {None}]
      BY <3>1, <3>2
    <3>4. ASSUME NEW g \in Signatures, NEW w \in Users
          PROVE  x2'[<<g, w>>] = IF g = e THEN None ELSE x2[<<g, w>>]
      BY <2>3
    <3> QED
      BY <3>3, <3>4
  <2>7. M!TypeOK'
    BY <1>4, <2>3, <2>4, <2>6 DEF M!Inv, M!TypeOK
  <2>8. M!Placed'
    <3>1. \A g \in Signatures, w \in Users : x2'[<<g, w>>] # None => g \in x1'
      BY <2>3, <2>6 DEF M!Inv, M!Placed
    <3>2. ASSUME NEW g \in Signatures, x5'[g] # {}
          PROVE  /\ g \in x1' \ x6'
                 /\ \A w \in Users : x2'[<<g, w>>] # "DRAFTS"
                 /\ \A w \in x5'[g] : x2'[<<g, w>>] # None
      <4>1. x5[g] # {} /\ x5'[g] = x5[g] /\ g # e /\ x5[g] \subseteq Users
        BY <1>3, <1>4, <3>2 DEF M!Inv, M!TypeOK
      <4>2. /\ g \in x1 \ x6
            /\ \A w \in Users : x2[<<g, w>>] # "DRAFTS"
            /\ \A w \in x5[g] : x2[<<g, w>>] # None
        BY <4>1 DEF M!Inv, M!Placed
      <4> QED
        BY <1>4, <2>3, <2>6, <4>1, <4>2
    <3> QED
      BY <3>1, <3>2 DEF M!Placed
  <2>9. /\ \A k \in Handlers : x3[k].pc = "deliver" => x3[k].on # e
        /\ \A g \in Signatures : x7[g] # e
    BY <1>3, <1>6 DEF M!Inv, M!Sent
  <2>10. M!Sent'
    <3>1. ASSUME NEW k \in Handlers
          PROVE  /\ x3'[k].pc # "idle" => x3'[k].user \in Users
                 /\ x3'[k].pc = "erase" => x3'[k].on \in x4' /\ x5'[x3'[k].on] = {}
                 /\ x3'[k].pc = "deliver" /\ x3'[k].on # None =>
                       /\ x3'[k].on \in x4' \ x1'
                       /\ \A g \in Signatures : x7'[g] # x3'[k].on
                       /\ \A l \in Handlers :
                             x3'[l].pc = "deliver" /\ x3'[l].on = x3'[k].on => l = k
      <4>1. CASE k = h
        <5>1. x3'[k].pc = "deliver" /\ x3'[k].on = e /\ x3'[k].user \in Users
          BY <1>3, <2>2, <2>4, <4>1
        <5>2. \A l \in Handlers : x3'[l].pc = "deliver" /\ x3'[l].on = e => l = k
          BY <2>4, <2>9, <4>1
        <5> QED
          BY <1>3, <1>4, <2>3, <2>9, <5>1, <5>2
      <4>2. CASE k # h
        <5>1. x3'[k] = x3[k]
          BY <2>4, <4>2
        <5>2. x3[k].pc = "deliver" /\ x3[k].on # None =>
                 \A l \in Handlers : x3'[l].pc = "deliver" /\ x3'[l].on = x3[k].on => l = k
          <6>1. x3[k].pc = "deliver" /\ x3[k].on # None => x3[k].on # e
            BY <2>9
          <6> QED
            BY <2>2, <2>4, <6>1 DEF M!Inv, M!Sent
        <5> QED
          BY <1>4, <2>3, <5>1, <5>2 DEF M!Inv, M!Sent
      <4> QED
        BY <4>1, <4>2
    <3>2. \A g \in Signatures :
             x7'[g] # None => /\ g \in x4' /\ x7'[g] \in x4' \ x1'
                              /\ \A f \in Signatures : x7'[f] = x7'[g] => f = g
      BY <1>4, <2>3 DEF M!Inv, M!Sent
    <3>3. ASSUME NEW x \in x4' \ x1'
          PROVE  \/ x \in x8'
                 \/ \E g \in Signatures : x7'[g] = x
                 \/ \E k \in Handlers : x3'[k].pc = "deliver" /\ x3'[k].on = x
      <4>1. CASE x = e
        BY <2>2, <2>4, <4>1
      <4>2. CASE x # e
        <5>1. x \in x4 \ x1
          BY <1>4, <2>3, <3>3, <4>2
        <5>2. \A k \in Handlers : x3[k].pc = "deliver" => x3'[k] = x3[k]
          BY <1>2, <2>4
        <5>3. \/ x \in x8
              \/ \E g \in Signatures : x7[g] = x
              \/ \E k \in Handlers : x3[k].pc = "deliver" /\ x3[k].on = x
          BY <5>1 DEF M!Inv, M!Sent
        <5> QED
          BY <1>4, <5>2, <5>3
      <4> QED
        BY <4>1, <4>2
    <3> QED
      BY <3>1, <3>2, <3>3 DEF M!Sent
  <2> QED
    BY <2>7, <2>8, <2>10 DEF M!Inv
<1> QED
  BY <1>5, <1>6

\* Every step keeps the invariant.
LEMMA MailNextInv == ASSUME M!Inv, M!Next PROVE M!Inv'
<1>1. ASSUME NEW h \in Handlers, NEW u \in Users, NEW e \in Signatures, NEW rs \in ((SUBSET Users) \ {{}}),
             M!ReadToSend(h, u, e, rs)
      PROVE  M!Inv'
  BY <1>1, MailReadToSendStep
<1>2. ASSUME NEW h \in Handlers, NEW u \in Users, NEW rs \in ((SUBSET Users) \ {{}}), M!Send(h, u, rs)
      PROVE  M!Inv'
  BY <1>2, MailSendStep
<1>3. ASSUME NEW h \in Handlers, M!Deliver(h) \/ M!EraseDraft(h) \/ M!Stop(h)
      PROVE  M!Inv'
  BY <1>3, MailDeliverStep, MailEraseDraftStep, MailStopStep
<1>4. ASSUME NEW u \in Users, NEW e \in Signatures, NEW f \in M!Folders, M!Move(u, e, f)
      PROVE  M!Inv'
  BY <1>4, MailMoveStep
<1>5. ASSUME NEW u \in Users, NEW e \in Signatures, M!SaveDraft(u, e)
      PROVE  M!Inv'
  BY <1>5, MailSaveDraftStep
<1>6. ASSUME NEW u \in Users, NEW e \in Signatures, M!Remove(u, e)
      PROVE  M!Inv'
  <2>1. {e} \in SUBSET Signatures /\ M!Delete(u, {e})
    BY <1>6 DEF M!Remove
  <2> QED
    BY <2>1, MailDeleteStep
<1>7. ASSUME NEW u \in Users, NEW e \in Signatures, M!NewDraft(u, e)
      PROVE  M!Inv'
  <2>1. u \in Users
    BY ConstantsAreSound, SameSets DEF M!WritersAreUsers
  <2> QED
    BY <1>7, <2>1, MailNewDraftStep
<1>8. ASSUME NEW u \in Users, NEW es \in SUBSET Signatures, M!EmptyTrash(u, es)
      PROVE  M!Inv'
  <2>1. M!Delete(u, es)
    BY <1>8 DEF M!EmptyTrash
  <2> QED
    BY <2>1, MailDeleteStep
<1> QED
  BY <1>1, <1>2, <1>3, <1>4, <1>5, <1>6, <1>7, <1>8 DEF M!Next

LEMMA MailStutterInv == ASSUME M!Inv, UNCHANGED M!vars PROVE M!Inv'
BY DEF M!Inv, M!vars, M!history, M!TypeOK, M!Placed, M!Sent

-----------------------------------------------------------------------------
(* Files.                                                                  *)

LEMMA DriveBytes == \A n \in Sizes \cup {0} : n \in Nat
BY ConstantsAreSound, SameSets DEF D!SizesArePositive

\* What is stored is a number of bytes.
LEMMA DriveUsed ==
  ASSUME NEW s, s \in [Signatures -> Sizes \cup {0}]
  PROVE  SumFunctionOnSet(s, Signatures) \in Nat
<1>1. \A f \in Signatures : s[f] \in Nat
  BY DriveBytes
<1>2. IsFiniteSet(Signatures)
  BY ConstantsAreSound, SameSets DEF D!FilesAreFinite
<1> QED
  BY <1>1, <1>2, SumIsNat

\* A row of another size changes what is stored by the difference.
LEMMA DriveUsedChanges ==
  ASSUME NEW s, s \in [Signatures -> Sizes \cup {0}],
         NEW f \in Signatures, NEW n \in Sizes \cup {0}
  PROVE  SumFunctionOnSet([s EXCEPT ![f] = n], Signatures) + s[f]
            = SumFunctionOnSet(s, Signatures) + n
<1>1. PICK t : t = [s EXCEPT ![f] = n]
  OBVIOUS
<1>2. /\ t \in [Signatures -> Sizes \cup {0}] /\ t[f] = n
      /\ \A g \in Signatures : g # f => s[g] = t[g]
  BY <1>1
<1>3. \A g \in Signatures : s[g] \in Nat /\ t[g] \in Nat
  BY <1>2, DriveBytes
<1>4. \A g \in Signatures : g # f => s[g] = t[g]
  BY <1>2
<1>5. IsFiniteSet(Signatures)
  BY ConstantsAreSound, SameSets DEF D!FilesAreFinite
<1>6. SumFunctionOnSet(s, Signatures) + t[f] = SumFunctionOnSet(t, Signatures) + s[f]
  BY <1>3, <1>4, <1>5, SumChange
<1> QED
  BY <1>1, <1>2, <1>6

\* An empty drive holds nothing.
LEMMA DriveInitInv == ASSUME D!Init PROVE D!Inv
<1>1. D!TypeOK /\ D!Handling /\ D!UploadFits /\ D!ListedOpens
  BY ConstantsAreSound, SameSums, SameSets
  DEF D!Init, D!NoneIsNoFile, D!TypeOK, D!Handling, D!UploadFits, D!Uploading,
      D!ListedOpens, D!Job, D!Idle
<1>2. D!UsedBytes <= Quota
  <2>1. IsFiniteSet(Signatures) /\ Cardinality(Signatures) \in Nat
    BY FS_CardinalityType, ConstantsAreSound, SameSets DEF D!FilesAreFinite
  <2>2. \A f \in Signatures : x1[f] \in Nat /\ x1[f] <= 0
    BY DEF D!Init
  <2>3. SumFunctionOnSet(x1, Signatures) <= Cardinality(Signatures) * 0
    BY <2>1, <2>2, SumBound
  <2>4. SumFunctionOnSet(x1, Signatures) \in Nat
    BY <1>1, DriveUsed DEF D!TypeOK
  <2>5. Cardinality(Signatures) * 0 = 0 /\ Quota \in Nat
    BY <2>1, ConstantsAreSound, SameSets DEF D!SizesArePositive
  <2> QED
    BY <2>3, <2>4, <2>5, SameSums DEF D!UsedBytes
<1> QED
  BY <1>1, <1>2, SameSums DEF D!Inv, D!QuotaHoldsButForTheRace

\* What becomes of the calls when one goes on to n.
LEMMA DriveGoing ==
  ASSUME D!Inv, NEW h \in Handlers, NEW n \in D!Job, x3' = [x3 EXCEPT ![h] = n]
  PROVE  /\ x3' \in [Handlers -> D!Job] /\ x3'[h] = n
         /\ \A k \in Handlers : k # h => x3'[k] = x3[k]
BY DEF D!Inv, D!TypeOK

\* A call that goes on, and is not at an insertion, with what is stored left
\* alone.
LEMMA DriveSteps ==
  ASSUME D!Inv, NEW h \in Handlers, NEW n \in D!Job, x3' = [x3 EXCEPT ![h] = n],
         UNCHANGED <<x1, x4>>, x2' \in SUBSET Signatures, x5' \in SUBSET Signatures,
         x5 \subseteq x5',
         n.pc # "insert", n.pc \in {"idle", "save"} <=> n.file = None,
         n.pc # "save",
         x2 \ {x3[h].file} \subseteq x2',
         x3[h].file \in x2' \/ x3[h].file \notin x2 \/ (n.pc = "drop" /\ x3[h].pc = "unlink"),
         n.file # None => n.file = x3[h].file \/ (x2' = x2 /\ n.pc = "unlink" /\ n.file \in Signatures
                                                /\ x1[n.file] # 0),
         x3[h].pc = "drop" => x3[h].file \in x5'
  PROVE  D!Inv'
<1>1. /\ x3' \in [Handlers -> D!Job] /\ x3'[h] = n
      /\ \A k \in Handlers : k # h => x3'[k] = x3[k]
  BY DriveGoing
<1>2. D!TypeOK'
  BY <1>1 DEF D!Inv, D!TypeOK
<1>3. D!Handling'
  <2> SUFFICES ASSUME NEW k \in Handlers
               PROVE  /\ x3'[k].pc \in {"idle", "save"} <=> x3'[k].file = None
                      /\ x3'[k].pc \in {"save", "insert"} => x3'[k].size \in Sizes
                      /\ x3'[k].pc = "insert" =>
                            /\ x3'[k].file \in x2' /\ x1'[x3'[k].file] = 0
                            /\ \A l \in Handlers : x3'[l].file = x3'[k].file => l = k
    BY DEF D!Handling
  <2>1. CASE k = h
    BY <1>1, <2>1
  <2>2. CASE k # h
    <3>1. x3'[k] = x3[k]
      BY <1>1, <2>2
    <3>2. /\ x3[k].pc \in {"idle", "save"} <=> x3[k].file = None
          /\ x3[k].pc \in {"save", "insert"} => x3[k].size \in Sizes
      BY DEF D!Inv, D!Handling
    <3>3. ASSUME x3[k].pc = "insert"
          PROVE  /\ x3[k].file \in x2' /\ x1'[x3[k].file] = 0
                 /\ \A l \in Handlers : x3'[l].file = x3[k].file => l = k
      <4>1. /\ x3[k].file \in x2 /\ x1[x3[k].file] = 0
            /\ \A l \in Handlers : x3[l].file = x3[k].file => l = k
            /\ x3[k].file # None
        BY <3>3 DEF D!Inv, D!Handling
      <4>2. x3[h].file # x3[k].file
        BY <2>2, <4>1
      <4>3. n.file # x3[k].file
        BY <4>1, <4>2
      <4> QED
        BY <1>1, <4>1, <4>2, <4>3
    <3> QED
      BY <3>1, <3>2, <3>3
  <2> QED
    BY <2>1, <2>2
<1>4. D!Uploading' \subseteq D!Uploading /\ \A k \in D!Uploading' : x3'[k] = x3[k]
  BY <1>1 DEF D!Uploading
<1>5. D!UsedBytes' = D!UsedBytes
  BY SameSums DEF D!UsedBytes
<1>6. D!UploadFits' /\ D!QuotaHoldsButForTheRace'
  BY <1>4, <1>5, SameSums DEF D!Inv, D!UploadFits, D!QuotaHoldsButForTheRace
<1>7. D!ListedOpens'
  <2> SUFFICES ASSUME NEW f \in Signatures, x1'[f] # 0
               PROVE  \/ f \in x2' \cup x5'
                      \/ \E k \in Handlers : x3'[k].pc = "drop" /\ x3'[k].file = f
    BY DEF D!ListedOpens
  <2>1. CASE f \in x2
    <3>1. CASE f \in x2'
      BY <3>1
    <3>2. CASE f \notin x2'
      <4>1. f = x3[h].file /\ n.pc = "drop"
        BY <2>1, <3>2
      <4>2. n.file = f
        BY <4>1
      <4> QED
        BY <1>1, <4>1, <4>2
    <3> QED
      BY <3>1, <3>2
  <2>2. CASE f \in x5
    BY <2>2
  <2>3. CASE \E k \in Handlers : x3[k].pc = "drop" /\ x3[k].file = f
    <3>1. PICK k \in Handlers : x3[k].pc = "drop" /\ x3[k].file = f
      BY <2>3
    <3>2. CASE k = h
      BY <3>1, <3>2
    <3>3. CASE k # h
      BY <1>1, <3>1, <3>3
    <3> QED
      BY <3>2, <3>3
  <2> QED
    BY <2>1, <2>2, <2>3 DEF D!Inv, D!ListedOpens
<1> QED
  BY <1>2, <1>3, <1>6, <1>7 DEF D!Inv

LEMMA DriveStartDeleteStep ==
  ASSUME D!Inv, NEW h \in Handlers, NEW f \in Signatures, D!StartDelete(h, f) PROVE D!Inv'
<1> PICK n : n = [pc |-> "unlink", size |-> 0, file |-> f]
  OBVIOUS
<1>1. n \in D!Job /\ n.pc = "unlink" /\ n.file = f /\ f # None
  BY ConstantsAreSound, SameSets DEF D!Job, D!NoneIsNoFile
<1>2. /\ x3[h].pc = "idle" /\ x1[f] # 0
      /\ x3' = [x3 EXCEPT ![h] = n] /\ UNCHANGED <<x1, x2, x4, x5>>
  BY DEF D!StartDelete
<1>3. x2 \in SUBSET Signatures /\ x5 \in SUBSET Signatures
  BY DEF D!Inv, D!TypeOK
<1>4. x3[h].file = None
  BY <1>2 DEF D!Inv, D!Handling
<1>5. x3[h].file \notin x2
  BY <1>3, <1>4, ConstantsAreSound, SameSets DEF D!NoneIsNoFile
<1> QED
  BY <1>1, <1>2, <1>3, <1>4, <1>5, DriveSteps

LEMMA DriveUnlinkStep ==
  ASSUME D!Inv, NEW h \in Handlers, D!Unlink(h) PROVE D!Inv'
<1> PICK n : n = [x3[h] EXCEPT !.pc = "drop"]
  OBVIOUS
<1>1. n \in D!Job /\ n.pc = "drop" /\ n.file = x3[h].file
  <2>1. x3[h] \in D!Job
    BY DEF D!Inv, D!TypeOK
  <2> QED
    BY <2>1 DEF D!Job
<1>2. /\ x3[h].pc = "unlink" /\ x2' \in {x2, x2 \ {x3[h].file}}
      /\ x3' = [x3 EXCEPT ![h] = n] /\ UNCHANGED <<x1, x4, x5>>
  BY DEF D!Unlink
<1>3. x2' \in SUBSET Signatures /\ x5' \in SUBSET Signatures /\ x2 \ {x3[h].file} \subseteq x2'
  BY <1>2 DEF D!Inv, D!TypeOK
<1>4. n.file # None
  BY <1>1, <1>2 DEF D!Inv, D!Handling
<1> QED
  BY <1>1, <1>2, <1>3, <1>4, DriveSteps

LEMMA DriveStopStep ==
  ASSUME D!Inv, NEW h \in Handlers, D!Stop(h) PROVE D!Inv'
<1>1. D!Idle \in D!Job /\ D!Idle.pc = "idle" /\ D!Idle.file = None
  BY DEF D!Idle, D!Job
<1>2. /\ x3[h].pc # "idle" /\ x3' = [x3 EXCEPT ![h] = D!Idle]
      /\ x5' = IF x3[h].pc = "drop" THEN x5 \cup {x3[h].file} ELSE x5
      /\ UNCHANGED <<x1, x2, x4>>
  BY DEF D!Stop, D!End
<1>3. x2 \in SUBSET Signatures /\ x5 \in SUBSET Signatures /\ x3[h].file \in Signatures \cup {None}
  BY DEF D!Inv, D!TypeOK, D!Job
<1>4. x3[h].pc = "drop" => x3[h].file \in Signatures
  BY <1>3 DEF D!Inv, D!Handling
<1>5. /\ x5' \in SUBSET Signatures /\ x5 \subseteq x5'
      /\ x3[h].pc = "drop" => x3[h].file \in x5'
  BY <1>2, <1>3, <1>4
<1> QED
  BY <1>1, <1>2, <1>3, <1>5, DriveSteps

LEMMA DriveStartUploadStep ==
  ASSUME D!Inv, NEW h \in Handlers, NEW m \in Sizes, D!StartUpload(h, m) PROVE D!Inv'
<1> PICK n : n = [pc |-> "save", size |-> m, file |-> None]
  OBVIOUS
<1>1. n \in D!Job /\ n.pc = "save" /\ n.file = None /\ n.size = m
  BY DEF D!Job
<1>2. /\ x3[h].pc = "idle" /\ D!UsedBytes + m <= Quota
      /\ x3' = [x3 EXCEPT ![h] = n] /\ UNCHANGED <<x1, x2, x5>>
      /\ x4' = (x4 \/ D!Uploading # {})
  BY DEF D!StartUpload, D!Fits
<1>3. /\ x3' \in [Handlers -> D!Job] /\ x3'[h] = n
      /\ \A k \in Handlers : k # h => x3'[k] = x3[k]
  BY <1>1, <1>2, DriveGoing
<1>4. x4' \in BOOLEAN
  BY <1>2
<1>5. D!TypeOK'
  BY <1>2, <1>3, <1>4 DEF D!Inv, D!TypeOK
<1>6. \A k \in Handlers : x3[k].pc = "insert" => x3[k].file # None
  BY DEF D!Inv, D!Handling
<1>7. D!Handling'
  <2> SUFFICES ASSUME NEW k \in Handlers
               PROVE  /\ x3'[k].pc \in {"idle", "save"} <=> x3'[k].file = None
                      /\ x3'[k].pc \in {"save", "insert"} => x3'[k].size \in Sizes
                      /\ x3'[k].pc = "insert" =>
                            /\ x3'[k].file \in x2' /\ x1'[x3'[k].file] = 0
                            /\ \A l \in Handlers : x3'[l].file = x3'[k].file => l = k
    BY DEF D!Handling
  <2>1. CASE k = h
    BY <1>1, <1>3, <2>1
  <2>2. CASE k # h
    <3>1. x3'[k] = x3[k]
      BY <1>3, <2>2
    <3> QED
      BY <1>1, <1>2, <1>3, <1>6, <3>1 DEF D!Inv, D!Handling
  <2> QED
    BY <2>1, <2>2
<1>8. D!UsedBytes' = D!UsedBytes
  BY <1>2, SameSums DEF D!UsedBytes
<1>9. D!UploadFits'
  <2>1. ~x4' => D!Uploading = {}
    BY <1>2
  <2>2. ~x4' => \A k \in D!Uploading' : k = h
    BY <1>3, <2>1 DEF D!Uploading
  <2>3. D!UsedBytes' + x3'[h].size <= Quota
    BY <1>1, <1>2, <1>3, <1>8
  <2> QED
    BY <2>2, <2>3, SameSums DEF D!UploadFits
<1>10. ~x4' => ~x4
  BY <1>2
<1>11. D!QuotaHoldsButForTheRace'
  BY <1>8, <1>10, SameSums DEF D!Inv, D!QuotaHoldsButForTheRace
<1>12. D!ListedOpens'
  <2>1. \A k \in Handlers : x3[k].pc = "drop" => x3'[k] = x3[k]
    BY <1>2, <1>3
  <2> QED
    BY <1>2, <2>1 DEF D!Inv, D!ListedOpens
<1> QED
  BY <1>5, <1>7, <1>9, <1>11, <1>12 DEF D!Inv

LEMMA DriveSaveBlobStep ==
  ASSUME D!Inv, NEW h \in Handlers, D!SaveBlob(h) PROVE D!Inv'
<1> PICK f \in Signatures \ x2 :
         /\ x1[f] = 0 /\ \A k \in Handlers : x3[k].file # f
         /\ x2' = x2 \cup {f}
         /\ x3' = [x3 EXCEPT ![h].pc = "insert", ![h].file = f]
  BY DEF D!SaveBlob
<1> PICK n : n = [x3[h] EXCEPT !.pc = "insert", !.file = f]
  OBVIOUS
<1>1. n \in D!Job /\ n.pc = "insert" /\ n.file = f /\ n.size = x3[h].size
  <2>1. x3[h] \in D!Job
    BY DEF D!Inv, D!TypeOK
  <2> QED
    BY <2>1 DEF D!Job
<1>2. x3[h].pc = "save" /\ x3' = [x3 EXCEPT ![h] = n] /\ UNCHANGED <<x1, x4, x5>>
  <2>1. x3[h].pc = "save" /\ UNCHANGED <<x1, x4, x5>>
    BY DEF D!SaveBlob
  <2>2. x3 \in [Handlers -> D!Job]
    BY DEF D!Inv, D!TypeOK
  <2>3. x3' = [x3 EXCEPT ![h] = n]
    BY <2>2
  <2> QED
    BY <2>1, <2>3
<1>3. /\ x3' \in [Handlers -> D!Job] /\ x3'[h] = n
      /\ \A k \in Handlers : k # h => x3'[k] = x3[k]
  BY <1>1, <1>2, DriveGoing
<1>4. D!TypeOK'
  BY <1>2, <1>3 DEF D!Inv, D!TypeOK
<1>5. f # None /\ x3[h].size \in Sizes
  BY <1>2, ConstantsAreSound, SameSets DEF D!Inv, D!Handling, D!NoneIsNoFile
<1>6. D!Handling'
  <2> SUFFICES ASSUME NEW k \in Handlers
               PROVE  /\ x3'[k].pc \in {"idle", "save"} <=> x3'[k].file = None
                      /\ x3'[k].pc \in {"save", "insert"} => x3'[k].size \in Sizes
                      /\ x3'[k].pc = "insert" =>
                            /\ x3'[k].file \in x2' /\ x1'[x3'[k].file] = 0
                            /\ \A l \in Handlers : x3'[l].file = x3'[k].file => l = k
    BY DEF D!Handling
  <2>1. CASE k = h
    <3>1. x3'[k] = n /\ \A l \in Handlers : x3'[l].file = f => l = h
      BY <1>3, <2>1
    <3> QED
      BY <1>1, <1>2, <1>5, <2>1, <3>1
  <2>2. CASE k # h
    <3>1. x3'[k] = x3[k]
      BY <1>3, <2>2
    <3>2. /\ x3[k].pc \in {"idle", "save"} <=> x3[k].file = None
          /\ x3[k].pc \in {"save", "insert"} => x3[k].size \in Sizes
          /\ x3[k].pc = "insert" =>
                /\ x3[k].file \in x2 /\ x1[x3[k].file] = 0
                /\ \A l \in Handlers : x3[l].file = x3[k].file => l = k
      BY DEF D!Inv, D!Handling
    <3>3. \A l \in Handlers : x3'[l].file = x3[k].file => x3[l].file = x3[k].file
      BY <1>1, <1>3
    <3> QED
      BY <1>2, <3>1, <3>2, <3>3
  <2> QED
    BY <2>1, <2>2
<1>7. D!UsedBytes' = D!UsedBytes
  BY <1>2, SameSums DEF D!UsedBytes
<1>8. D!Uploading' = D!Uploading /\ \A k \in D!Uploading : x3'[k].size = x3[k].size
  BY <1>1, <1>2, <1>3 DEF D!Uploading
<1>9. D!UploadFits' /\ D!QuotaHoldsButForTheRace'
  BY <1>2, <1>7, <1>8, SameSums
  DEF D!Inv, D!UploadFits, D!QuotaHoldsButForTheRace
<1>10. D!ListedOpens'
  <2>1. \A k \in Handlers : x3[k].pc = "drop" => x3'[k] = x3[k]
    BY <1>2, <1>3
  <2>2. x2 \subseteq x2'
    OBVIOUS
  <2> SUFFICES ASSUME NEW g \in Signatures, x1[g] # 0
               PROVE  \/ g \in x2' \cup x5'
                      \/ \E k \in Handlers : x3'[k].pc = "drop" /\ x3'[k].file = g
    BY <1>2 DEF D!ListedOpens
  <2>3. \/ g \in x2 \cup x5
        \/ \E k \in Handlers : x3[k].pc = "drop" /\ x3[k].file = g
    BY DEF D!Inv, D!ListedOpens
  <2> QED
    BY <1>2, <2>1, <2>2, <2>3
<1> QED
  BY <1>4, <1>6, <1>9, <1>10 DEF D!Inv

LEMMA DriveInsertFileStep ==
  ASSUME D!Inv, NEW h \in Handlers, D!InsertFile(h) PROVE D!Inv'
<1>1. D!Idle \in D!Job /\ D!Idle.pc = "idle" /\ D!Idle.file = None
  BY DEF D!Idle, D!Job
<1>2. /\ x3[h].pc = "insert" /\ x1' = [x1 EXCEPT ![x3[h].file] = x3[h].size]
      /\ x3' = [x3 EXCEPT ![h] = D!Idle] /\ UNCHANGED <<x2, x4, x5>>
  BY DEF D!InsertFile, D!End
<1>3. PICK f \in Signatures, m \in Sizes : f = x3[h].file /\ m = x3[h].size
  <2>1. x3[h].file \in Signatures \cup {None} /\ x3[h].file # None /\ x3[h].size \in Sizes
    BY <1>2 DEF D!Inv, D!TypeOK, D!Handling, D!Job
  <2> QED
    BY <2>1
<1>4. /\ f \in x2 /\ x1[f] = 0 /\ \A k \in Handlers : x3[k].file = f => k = h
  BY <1>2, <1>3 DEF D!Inv, D!Handling
<1>5. /\ x3' \in [Handlers -> D!Job] /\ x3'[h] = D!Idle
      /\ \A k \in Handlers : k # h => x3'[k] = x3[k]
  BY <1>1, <1>2, DriveGoing
<1>6. x1 \in [Signatures -> Sizes \cup {0}] /\ x1' = [x1 EXCEPT ![f] = m]
  BY <1>2, <1>3 DEF D!Inv, D!TypeOK
<1>7. /\ x1' \in [Signatures -> Sizes \cup {0}] /\ x1'[f] = m
      /\ \A g \in Signatures : g # f => x1'[g] = x1[g]
  BY <1>6
<1>8. D!TypeOK'
  BY <1>2, <1>5, <1>7 DEF D!Inv, D!TypeOK
<1>9. D!Handling'
  <2> SUFFICES ASSUME NEW k \in Handlers
               PROVE  /\ x3'[k].pc \in {"idle", "save"} <=> x3'[k].file = None
                      /\ x3'[k].pc \in {"save", "insert"} => x3'[k].size \in Sizes
                      /\ x3'[k].pc = "insert" =>
                            /\ x3'[k].file \in x2' /\ x1'[x3'[k].file] = 0
                            /\ \A l \in Handlers : x3'[l].file = x3'[k].file => l = k
    BY DEF D!Handling
  <2>1. CASE k = h
    BY <1>1, <1>5, <2>1
  <2>2. CASE k # h
    <3>1. x3'[k] = x3[k] /\ x3[k].file # f
      BY <1>4, <1>5, <2>2
    <3>2. /\ x3[k].pc \in {"idle", "save"} <=> x3[k].file = None
          /\ x3[k].pc \in {"save", "insert"} => x3[k].size \in Sizes
          /\ x3[k].pc = "insert" =>
                /\ x3[k].file \in x2 /\ x1[x3[k].file] = 0
                /\ \A l \in Handlers : x3[l].file = x3[k].file => l = k
      BY DEF D!Inv, D!Handling
    <3>3. x2 \subseteq Signatures
      BY DEF D!Inv, D!TypeOK
    <3>4. x3[k].pc = "insert" =>
             \A l \in Handlers : x3'[l].file = x3[k].file => x3[l].file = x3[k].file
      BY <1>1, <1>5, <3>2
    <3> QED
      BY <1>2, <1>7, <3>1, <3>2, <3>3, <3>4
  <2> QED
    BY <2>1, <2>2
<1>10. D!UsedBytes \in Nat /\ D!UsedBytes' \in Nat /\ D!UsedBytes' = D!UsedBytes + m
  <2>1. SumFunctionOnSet(x1', Signatures) + x1[f] = SumFunctionOnSet(x1, Signatures) + m
    BY <1>6, DriveUsedChanges
  <2>2. SumFunctionOnSet(x1, Signatures) \in Nat /\ SumFunctionOnSet(x1', Signatures) \in Nat
    BY <1>6, <1>7, DriveUsed
  <2> QED
    BY <1>4, <2>1, <2>2, SameSums DEF D!UsedBytes
<1>11. h \in D!Uploading /\ D!Uploading' \subseteq D!Uploading \ {h}
  BY <1>1, <1>2, <1>5 DEF D!Uploading
<1>12. D!UploadFits'
  BY <1>2, <1>11, SameSums DEF D!Inv, D!UploadFits
<1>13. D!QuotaHoldsButForTheRace'
  BY <1>2, <1>3, <1>10, <1>11, SameSums
  DEF D!Inv, D!UploadFits, D!QuotaHoldsButForTheRace
<1>14. D!ListedOpens'
  <2>1. \A k \in Handlers : x3[k].pc = "drop" => x3'[k] = x3[k]
    BY <1>2, <1>5
  <2> QED
    BY <1>2, <1>4, <1>7, <2>1 DEF D!Inv, D!ListedOpens
<1> QED
  BY <1>8, <1>9, <1>12, <1>13, <1>14 DEF D!Inv

LEMMA DriveDropFileStep ==
  ASSUME D!Inv, NEW h \in Handlers, D!DropFile(h) PROVE D!Inv'
<1>1. D!Idle \in D!Job /\ D!Idle.pc = "idle" /\ D!Idle.file = None
  BY DEF D!Idle, D!Job
<1>2. /\ x3[h].pc = "drop" /\ x1' = [x1 EXCEPT ![x3[h].file] = 0]
      /\ x3' = [x3 EXCEPT ![h] = D!Idle] /\ UNCHANGED <<x2, x4, x5>>
  BY DEF D!DropFile, D!End
<1>3. PICK f \in Signatures : f = x3[h].file
  <2>1. x3[h].file \in Signatures \cup {None} /\ x3[h].file # None
    BY <1>2 DEF D!Inv, D!TypeOK, D!Handling, D!Job
  <2> QED
    BY <2>1
<1>5. /\ x3' \in [Handlers -> D!Job] /\ x3'[h] = D!Idle
      /\ \A k \in Handlers : k # h => x3'[k] = x3[k]
  BY <1>1, <1>2, DriveGoing
<1>6. x1 \in [Signatures -> Sizes \cup {0}] /\ x1' = [x1 EXCEPT ![f] = 0]
  BY <1>2, <1>3 DEF D!Inv, D!TypeOK
<1>7. /\ x1' \in [Signatures -> Sizes \cup {0}] /\ x1'[f] = 0
      /\ \A g \in Signatures : g # f => x1'[g] = x1[g]
  BY <1>6
<1>8. D!TypeOK'
  BY <1>2, <1>5, <1>7 DEF D!Inv, D!TypeOK
<1>9. D!Handling'
  <2> SUFFICES ASSUME NEW k \in Handlers
               PROVE  /\ x3'[k].pc \in {"idle", "save"} <=> x3'[k].file = None
                      /\ x3'[k].pc \in {"save", "insert"} => x3'[k].size \in Sizes
                      /\ x3'[k].pc = "insert" =>
                            /\ x3'[k].file \in x2' /\ x1'[x3'[k].file] = 0
                            /\ \A l \in Handlers : x3'[l].file = x3'[k].file => l = k
    BY DEF D!Handling
  <2>1. CASE k = h
    BY <1>1, <1>5, <2>1
  <2>2. CASE k # h
    <3>1. x3'[k] = x3[k]
      BY <1>5, <2>2
    <3>2. /\ x3[k].pc \in {"idle", "save"} <=> x3[k].file = None
          /\ x3[k].pc \in {"save", "insert"} => x3[k].size \in Sizes
          /\ x3[k].pc = "insert" =>
                /\ x3[k].file \in x2 /\ x1[x3[k].file] = 0
                /\ \A l \in Handlers : x3[l].file = x3[k].file => l = k
      BY DEF D!Inv, D!Handling
    <3>3. x2 \subseteq Signatures
      BY DEF D!Inv, D!TypeOK
    <3>4. x3[k].pc = "insert" =>
             \A l \in Handlers : x3'[l].file = x3[k].file => x3[l].file = x3[k].file
      BY <1>1, <1>5, <3>2
    <3> QED
      BY <1>2, <1>7, <3>1, <3>2, <3>3, <3>4
  <2> QED
    BY <2>1, <2>2
<1>10. D!UsedBytes \in Nat /\ D!UsedBytes' \in Nat /\ D!UsedBytes' <= D!UsedBytes
  <2>1. SumFunctionOnSet(x1', Signatures) + x1[f] = SumFunctionOnSet(x1, Signatures) + 0
    BY <1>6, DriveUsedChanges
  <2>2. SumFunctionOnSet(x1, Signatures) \in Nat /\ SumFunctionOnSet(x1', Signatures) \in Nat
    BY <1>6, <1>7, DriveUsed
  <2>3. x1[f] \in Nat
    BY <1>6, DriveBytes
  <2> QED
    BY <2>1, <2>2, <2>3, SameSums DEF D!UsedBytes
<1>11. D!Uploading' \subseteq D!Uploading /\ \A k \in D!Uploading' : x3'[k] = x3[k]
  BY <1>1, <1>5 DEF D!Uploading
<1>12. \A k \in D!Uploading : x3[k].size \in Nat
  BY ConstantsAreSound, SameSets
  DEF D!Uploading, D!Inv, D!Handling, D!SizesArePositive
<1>13. Quota \in Nat
  BY ConstantsAreSound, SameSets DEF D!SizesArePositive
<1>14. D!UploadFits'
  <2> SUFFICES ASSUME ~x4', NEW k \in D!Uploading'
               PROVE  /\ \A l \in D!Uploading' : l = k
                      /\ D!UsedBytes' + x3'[k].size <= Quota
    BY SameSums DEF D!UploadFits
  <2>1. /\ \A l \in D!Uploading : l = k
        /\ D!UsedBytes + x3[k].size <= Quota
    BY <1>2, <1>11, SameSums DEF D!Inv, D!UploadFits
  <2>2. x3[k].size \in Nat /\ x3'[k] = x3[k]
    BY <1>11, <1>12
  <2>3. D!UsedBytes' + x3[k].size <= Quota
    BY <1>10, <1>13, <2>1, <2>2
  <2> QED
    BY <1>11, <2>1, <2>2, <2>3
<1>15. D!QuotaHoldsButForTheRace'
  BY <1>2, <1>10, <1>13, SameSums DEF D!Inv, D!QuotaHoldsButForTheRace
<1>16. D!ListedOpens'
  <2>1. \A k \in Handlers : x3[k].pc = "drop" => x3'[k] = x3[k] \/ x3[k].file = f
    BY <1>3, <1>5
  <2> QED
    BY <1>2, <1>7, <2>1 DEF D!Inv, D!ListedOpens
<1> QED
  BY <1>8, <1>9, <1>14, <1>15, <1>16 DEF D!Inv

\* Every step keeps the invariant.
LEMMA DriveNextInv == ASSUME D!Inv, D!Next PROVE D!Inv'
BY DriveStartUploadStep, DriveStartDeleteStep, DriveSaveBlobStep,
   DriveInsertFileStep, DriveUnlinkStep, DriveDropFileStep, DriveStopStep
DEF D!Next

LEMMA DriveStutterInv == ASSUME D!Inv, UNCHANGED D!vars PROVE D!Inv'
BY SameSums
DEF D!Inv, D!vars, D!TypeOK, D!Handling, D!UploadFits,
    D!QuotaHoldsButForTheRace, D!ListedOpens, D!Uploading, D!UsedBytes

-----------------------------------------------------------------------------
(* Bridge requests.                                                        *)

\* The sum without one of the values.
LEMMA BridgeSumWithout ==
  ASSUME NEW f, NEW Y, IsFiniteSet(Y), \A x \in Y : f[x] \in Nat, NEW x
  PROVE  SumFunctionOnSet(f, Y \ {x}) <= SumFunctionOnSet(f, Y)
<1>1. SumFunctionOnSet(f, Y) \in Nat /\ SumFunctionOnSet(f, Y \ {x}) \in Nat
  <2>1. IsFiniteSet(Y \ {x})
    BY FS_Subset
  <2> QED
    BY <2>1, SumIsNat
<1>2. CASE x \in Y
  <2>1. SumFunctionOnSet(f, Y) = f[x] + SumFunctionOnSet(f, Y \ {x})
    BY <1>2, SumTake
  <2> QED
    BY <1>1, <1>2, <2>1
<1>3. CASE x \notin Y
  <2>1. Y \ {x} = Y
    BY <1>3
  <2> QED
    BY <1>1, <2>1
<1> QED
  BY <1>2, <1>3

\* A finite set of numbers has a greatest one.
LEMMA BridgeGreatest ==
  ASSUME NEW Y \in SUBSET Nat, IsFiniteSet(Y), Y # {}
  PROVE  Max(Y) \in Y /\ \A y \in Y : y <= Max(Y)
<1> DEFINE From(x) == {y \in Y : x <= y}
           Z == {From(x) : x \in Y}
<1>1. Z \in SUBSET SUBSET Y /\ Z # {} /\ \A T \in Z : \E x \in Y : T = From(x)
  OBVIOUS
<1>2. \A x \in Y : From(x) \in Z
  OBVIOUS
<1> HIDE DEF Z
<1>3. PICK T \in Z : \A t \in SUBSET T : t # T => t \notin Z
  BY <1>1, LeastSubset
<1>4. PICK x \in Y : T = From(x)
  BY <1>1
<1>5. ASSUME NEW y \in Y
      PROVE  y <= x
  <2> SUFFICES ASSUME ~(y <= x) PROVE FALSE
    OBVIOUS
  <2>1. x \in Nat /\ y \in Nat
    OBVIOUS
  <2>2. \A z \in Y : z \in Nat /\ (y <= z => x <= z)
    BY <2>1
  <2>3. From(y) \in SUBSET From(x)
    BY <2>2
  <2>4. x \in From(x) /\ x \notin From(y)
    BY <2>1
  <2> QED
    BY <1>2, <1>3, <1>4, <2>3, <2>4
<1>6. \A y \in Y : x >= y
  BY <1>5
<1>7. Max(Y) \in Y /\ \A y \in Y : Max(Y) >= y
  BY <1>6 DEF Max
<1> QED
  BY <1>7

\* What is asked for.
Asked == [r \in Signatures |-> x2[r].amount]
AtWork == [h \in Handlers |-> x4[h].amount]
Total == B!UsedToday + SumFunctionOnSet(AtWork, B!Passed)
Limit == DailyCap + (Cardinality(Handlers) - 1) * Max(Amounts)

LEMMA BridgeNumbers ==
         /\ Max(Amounts) \in Nat /\ DailyCap \in Nat /\ Least \in Nat /\ Reserve \in Nat
         /\ \A a \in Amounts \cup {0} : a \in Nat /\ a <= Max(Amounts)
         /\ Cardinality(Handlers) \in Nat /\ Cardinality(Handlers) >= 1
         /\ Limit \in Nat
<1>1. Amounts \in SUBSET Nat /\ IsFiniteSet(Amounts) /\ Amounts # {}
  BY ConstantsAreSound, SameSets DEF B!AmountsArePositive, B!BoundsAreFinite
<1>2. Max(Amounts) \in Amounts /\ \A y \in Amounts : y <= Max(Amounts)
  BY <1>1, BridgeGreatest
<1>3. PICK m \in Nat : m = Max(Amounts)
  BY <1>1, <1>2
<1>4. \A a \in Amounts \cup {0} : a \in Nat /\ a <= m
  BY <1>1, <1>2, <1>3
<1>5. DailyCap \in Nat /\ Least \in Nat /\ Reserve \in Nat
  BY ConstantsAreSound, SameSets DEF B!PolicyIsSound
<1>6. PICK c \in Nat : c = Cardinality(Handlers) /\ c >= 1
  <2>1. IsFiniteSet(Handlers) /\ Handlers # {}
    BY ConstantsAreSound, SameSets DEF B!BoundsAreFinite
  <2>2. Cardinality(Handlers) \in Nat /\ Cardinality(Handlers) # 0
    BY <2>1, FS_CardinalityType, FS_EmptySet
  <2> QED
    BY <2>2
<1>7. DailyCap + (c - 1) * m \in Nat
  <2>1. PICK d \in Nat : d = c - 1
    BY <1>6
  <2>2. d * m \in Nat
    BY <1>3
  <2> QED
    BY <1>5, <2>1, <2>2
<1> QED
  BY <1>3, <1>4, <1>5, <1>6, <1>7, SameSets DEF Limit

\* What the sums range over.
LEMMA BridgeRanges ==
  ASSUME B!TypeOK
  PROVE  /\ IsFiniteSet(B!Recent) /\ IsFiniteSet(B!Passed)
         /\ B!Recent \subseteq Signatures /\ B!Passed \subseteq Handlers
         /\ \A r \in Signatures : Asked[r] = x2[r].amount /\ Asked[r] \in Nat
         /\ \A h \in Handlers : AtWork[h] = x4[h].amount /\ AtWork[h] \in Nat
                                /\ AtWork[h] <= Max(Amounts)
         /\ B!UsedToday = SumFunctionOnSet(Asked, B!Recent)
         /\ SumFunctionOnSet(Asked, B!Recent) \in Nat
         /\ SumFunctionOnSet(AtWork, B!Passed) \in Nat
<1>1. B!Recent \subseteq Signatures /\ B!Passed \subseteq Handlers
  BY DEF B!Recent, B!Passed
<1>2. IsFiniteSet(B!Recent) /\ IsFiniteSet(B!Passed)
  BY <1>1, FS_Subset, ConstantsAreSound, SameSets DEF B!BoundsAreFinite
<1>3. ASSUME NEW r \in Signatures
      PROVE  Asked[r] = x2[r].amount /\ Asked[r] \in Nat
  <2>1. x2[r].amount \in Amounts \cup {0}
    BY DEF B!TypeOK
  <2> QED
    BY <2>1, BridgeNumbers DEF Asked
<1>4. ASSUME NEW h \in Handlers
      PROVE  AtWork[h] = x4[h].amount /\ AtWork[h] \in Nat /\ AtWork[h] <= Max(Amounts)
  <2>1. x4[h].amount \in Amounts \cup {0}
    BY DEF B!TypeOK, B!Job
  <2> QED
    BY <2>1, BridgeNumbers DEF AtWork
<1>5. B!UsedToday = SumFunctionOnSet(Asked, B!Recent)
  BY SameSums DEF B!UsedToday, Asked
<1>6. \A r \in B!Recent : Asked[r] \in Nat
  BY <1>1, <1>3
<1>7. \A h \in B!Passed : AtWork[h] \in Nat
  BY <1>1, <1>4
<1>8. SumFunctionOnSet(Asked, B!Recent) \in Nat
  BY <1>2, <1>6, SumIsNat
<1>9. SumFunctionOnSet(AtWork, B!Passed) \in Nat
  BY <1>2, <1>7, SumIsNat
<1> QED
  BY <1>1, <1>2, <1>3, <1>4, <1>5, <1>8, <1>9

\* The property in these words.
LEMMA BridgeLimitIs == B!LimitHoldsButForTheRace <=> Total <= Limit
BY SameSums, SameSets DEF B!LimitHoldsButForTheRace, Total, Limit, AtWork

\* At first nothing has been asked for.
LEMMA BridgeInitInv == ASSUME B!Init PROVE B!Inv
<1>1. B!TypeOK
  BY DEF B!Init, B!TypeOK, B!Job, B!Idle, B!NoRequest
<1>2. B!Recent = {} /\ B!Passed = {}
  BY DEF B!Init, B!Recent, B!Passed, B!NoRequest, B!Idle
<1>3. IsFiniteSet({}) /\ {} \in SUBSET {}
  BY FS_EmptySet
<1>4. SumFunctionOnSet(Asked, {}) = 0
  BY <1>3, SumAtPick
<1>5. SumFunctionOnSet(AtWork, {}) = 0
  BY <1>3, SumAtPick
<1>6. Total = 0
  BY <1>1, <1>2, <1>4, <1>5, BridgeRanges DEF Total
<1> QED
  BY <1>1, <1>6, BridgeLimitIs, BridgeNumbers DEF B!Inv

\* The requests stay, and the call h goes on to n: the sum grows only if h
\* now passes.
LEMMA BridgeGoing ==
  ASSUME B!Inv, NEW h \in Handlers, NEW n \in B!Job,
         x4' = [x4 EXCEPT ![h] = n], UNCHANGED <<x1, x2, x3>>,
         n.pc = "reserve" \/ (n.pc = "store" /\ n.ok) =>
             /\ h \in B!Passed \/ B!UsedToday + n.amount <= DailyCap
             /\ n.amount = x4[h].amount
  PROVE  B!Inv'
<1>1. /\ x4' \in [Handlers -> B!Job] /\ x4'[h] = n
      /\ \A k \in Handlers : k # h => x4'[k] = x4[k]
  BY DEF B!Inv, B!TypeOK
<1>2. B!TypeOK'
  BY <1>1 DEF B!Inv, B!TypeOK
<1>3. B!Recent' = B!Recent /\ B!UsedToday' = B!UsedToday /\ B!UsedToday \in Nat
  <2>1. B!Recent' = B!Recent
    BY DEF B!Recent
  <2> QED
    BY <2>1, BridgeRanges, SameSums DEF B!UsedToday, B!Inv
<1>4. \A k \in Handlers : k # h => AtWork'[k] = AtWork[k]
  BY <1>1 DEF AtWork
<1>5. B!Passed' \ {h} = B!Passed \ {h} /\ (h \in B!Passed' <=> n.pc = "reserve" \/ (n.pc = "store" /\ n.ok))
  BY <1>1 DEF B!Passed
<1>6. /\ IsFiniteSet(B!Passed) /\ IsFiniteSet(B!Passed') /\ IsFiniteSet(B!Passed \ {h})
      /\ B!Passed \subseteq Handlers /\ B!Passed' \subseteq Handlers
  <2>1. IsFiniteSet(Handlers)
    BY ConstantsAreSound, SameSets DEF B!BoundsAreFinite
  <2>2. B!Passed \subseteq Handlers /\ B!Passed' \subseteq Handlers
    BY DEF B!Passed
  <2> QED
    BY <2>1, <2>2, FS_Subset
<1>7. /\ \A k \in Handlers : AtWork[k] \in Nat /\ AtWork[k] <= Max(Amounts)
      /\ \A k \in Handlers : AtWork'[k] \in Nat
      /\ AtWork[h] = x4[h].amount /\ AtWork'[h] = n.amount
  <2>1. /\ \A k \in Handlers : AtWork[k] \in Nat /\ AtWork[k] <= Max(Amounts)
        /\ AtWork[h] = x4[h].amount
    BY BridgeRanges DEF B!Inv
  <2>2. AtWork'[h] = n.amount
    BY <1>1 DEF AtWork
  <2>3. n.amount \in Amounts \cup {0}
    BY DEF B!Job
  <2> QED
    BY <1>4, <2>1, <2>2, <2>3, BridgeNumbers
<1>8. PICK rest \in Nat : rest = SumFunctionOnSet(AtWork, B!Passed \ {h})
  <2>1. \A k \in B!Passed \ {h} : AtWork[k] \in Nat
    BY <1>6, <1>7
  <2>2. SumFunctionOnSet(AtWork, B!Passed \ {h}) \in Nat
    BY <1>6, <2>1, SumIsNat
  <2> QED
    BY <2>2
<1>9. SumFunctionOnSet(AtWork', B!Passed \ {h}) = rest
  <2>1. \A k \in B!Passed \ {h} : AtWork'[k] = AtWork[k]
    BY <1>4, <1>6
  <2> QED
    BY <1>6, <1>8, <2>1, SumSame
<1>10. SumFunctionOnSet(AtWork', B!Passed') =
          IF h \in B!Passed' THEN n.amount + rest ELSE rest
  <2>1. CASE h \in B!Passed'
    <3>1. \A k \in B!Passed' : AtWork'[k] \in Nat
      BY <1>6, <1>7
    <3>2. SumFunctionOnSet(AtWork', B!Passed')
             = AtWork'[h] + SumFunctionOnSet(AtWork', B!Passed' \ {h})
      BY <1>6, <2>1, <3>1, SumTake
    <3> QED
      BY <1>5, <1>7, <1>9, <2>1, <3>2
  <2>2. CASE h \notin B!Passed'
    <3>1. B!Passed' = B!Passed \ {h}
      BY <1>5, <2>2
    <3> QED
      BY <1>9, <2>2, <3>1
  <2> QED
    BY <2>1, <2>2
<1>11. SumFunctionOnSet(AtWork, B!Passed) =
          IF h \in B!Passed THEN x4[h].amount + rest ELSE rest
  <2>1. CASE h \in B!Passed
    <3>1. \A k \in B!Passed : AtWork[k] \in Nat
      BY <1>6, <1>7
    <3>2. SumFunctionOnSet(AtWork, B!Passed)
             = AtWork[h] + SumFunctionOnSet(AtWork, B!Passed \ {h})
      BY <1>6, <2>1, <3>1, SumTake
    <3> QED
      BY <1>7, <1>8, <2>1, <3>2
  <2>2. CASE h \notin B!Passed
    <3>1. B!Passed = B!Passed \ {h}
      BY <2>2
    <3> QED
      BY <1>8, <2>2, <3>1
  <2> QED
    BY <2>1, <2>2
<1>12. Total = B!UsedToday + (IF h \in B!Passed THEN x4[h].amount + rest ELSE rest)
  BY <1>11 DEF Total
<1>13. Total' = B!UsedToday + (IF h \in B!Passed' THEN n.amount + rest ELSE rest)
  BY <1>3, <1>10 DEF Total
<1>14. /\ Total <= Limit /\ Limit \in Nat /\ Limit' = Limit
       /\ n.amount \in Nat /\ x4[h].amount \in Nat
  BY <1>7, BridgeLimitIs, BridgeNumbers, SameSets DEF B!Inv, Limit
<1>15. CASE h \in B!Passed' /\ h \notin B!Passed
  <2>1. B!UsedToday + n.amount <= DailyCap
    BY <1>5, <1>15
  <2>2. rest <= (Cardinality(Handlers) - 1) * Max(Amounts)
    <3>1. IsFiniteSet(Handlers \ {h}) /\ Cardinality(Handlers \ {h}) = Cardinality(Handlers) - 1
      BY FS_RemoveElement, ConstantsAreSound, SameSets DEF B!BoundsAreFinite
    <3>2. B!Passed \ {h} \subseteq Handlers \ {h}
      BY <1>6
    <3>3. Cardinality(B!Passed \ {h}) <= Cardinality(Handlers \ {h})
          /\ Cardinality(B!Passed \ {h}) \in Nat /\ Cardinality(Handlers \ {h}) \in Nat
      BY <1>6, <3>1, <3>2, FS_Subset, FS_CardinalityType
    <3>4. \A k \in B!Passed \ {h} : AtWork[k] \in Nat /\ AtWork[k] <= Max(Amounts)
      BY <1>6, <1>7
    <3>5. PICK m \in Nat : m = Max(Amounts)
      BY BridgeNumbers
    <3>6. rest <= Cardinality(B!Passed \ {h}) * m
      BY <1>6, <1>8, <3>4, <3>5, SumBound
    <3>7. PICK c \in Nat, d \in Nat : /\ c = Cardinality(B!Passed \ {h})
                                      /\ d = Cardinality(Handlers \ {h})
      BY <3>3
    <3>8. c * m <= d * m
      <4>1. PICK e \in Nat : d = c + e
        <5>1. d - c \in Nat /\ d = c + (d - c)
          BY <3>3, <3>7
        <5> QED
          BY <5>1
      <4>2. d * m = c * m + e * m /\ e * m \in Nat /\ c * m \in Nat
        BY <4>1
      <4> QED
        BY <4>2
    <3>9. c * m \in Nat /\ d * m \in Nat
      OBVIOUS
    <3> QED
      BY <3>1, <3>5, <3>6, <3>7, <3>8, <3>9
  <2>3. Total' = B!UsedToday + (n.amount + rest)
    BY <1>13, <1>15
  <2>4. PICK l \in Nat : l = (Cardinality(Handlers) - 1) * Max(Amounts)
    <3>1. Cardinality(Handlers) - 1 \in Nat /\ Max(Amounts) \in Nat
      BY BridgeNumbers
    <3> QED
      BY <3>1
  <2>5. Limit = DailyCap + l /\ DailyCap \in Nat
    BY <2>4, BridgeNumbers, SameSets DEF Limit
  <2>6. Total' <= Limit
    BY <1>3, <1>14, <2>1, <2>2, <2>3, <2>4, <2>5
  <2> QED
    BY <1>2, <1>14, <2>6, BridgeLimitIs, SameSums, SameSets
    DEF B!Inv, B!LimitHoldsButForTheRace, Total, Limit, AtWork
<1>16. CASE ~(h \in B!Passed' /\ h \notin B!Passed)
  <2>1. h \in B!Passed' => n.amount = x4[h].amount
    BY <1>5
  <2>2. Total' <= Total /\ Total \in Nat /\ Total' \in Nat
    BY <1>3, <1>12, <1>13, <1>14, <1>16, <2>1
  <2>3. Total' <= Limit
    BY <1>14, <2>2
  <2> QED
    BY <1>2, <1>14, <2>3, BridgeLimitIs, SameSums, SameSets
    DEF B!Inv, B!LimitHoldsButForTheRace, Total, Limit, AtWork
<1> QED
  BY <1>15, <1>16

\* The amount of h moves from the work to the requests.
LEMMA BridgeStoreStep ==
  ASSUME B!Inv, NEW h \in Handlers, B!Store(h) PROVE B!Inv'
<1>1. PICK r \in Signatures :
         /\ x2[r].status = "none"
         /\ x2' = [x2 EXCEPT ![r] =
               [status |-> IF x4[h].ok THEN "ELIGIBLE" ELSE "INELIGIBLE",
                amount |-> x4[h].amount]]
  BY DEF B!Store
<1>2. PICK q : q = [status |-> IF x4[h].ok THEN "ELIGIBLE" ELSE "INELIGIBLE",
                    amount |-> x4[h].amount]
  OBVIOUS
<1>3. /\ x4[h].pc = "store" /\ x4' = [x4 EXCEPT ![h] = B!Idle] /\ UNCHANGED <<x1, x3>>
      /\ x2' = [x2 EXCEPT ![r] = q]
  BY <1>1, <1>2 DEF B!Store
<1>4. B!Idle \in B!Job /\ B!Idle.pc = "idle" /\ B!Idle.amount = 0
  BY DEF B!Idle, B!Job
<1>5. /\ x4' \in [Handlers -> B!Job] /\ x4'[h] = B!Idle
      /\ \A k \in Handlers : k # h => x4'[k] = x4[k]
  BY <1>3, <1>4 DEF B!Inv, B!TypeOK
<1>6. /\ x4[h] \in B!Job /\ x4[h].amount \in Amounts \cup {0} /\ x4[h].ok \in BOOLEAN
  BY DEF B!Inv, B!TypeOK, B!Job
<1>7. /\ q \in [status : {"none", "ELIGIBLE", "INELIGIBLE"}, amount : Amounts \cup {0}]
      /\ q.amount = x4[h].amount
      /\ q.status = IF x4[h].ok THEN "ELIGIBLE" ELSE "INELIGIBLE"
  BY <1>2, <1>6
<1>8. /\ x2' \in [Signatures -> [status : {"none", "ELIGIBLE", "INELIGIBLE"},
                                    amount : Amounts \cup {0}]]
      /\ x2'[r] = q /\ \A s \in Signatures : s # r => x2'[s] = x2[s]
  BY <1>3, <1>7 DEF B!Inv, B!TypeOK
<1>9. B!TypeOK'
  BY <1>3, <1>5, <1>8 DEF B!Inv, B!TypeOK
<1>10. /\ r \notin B!Recent /\ B!Recent \ {r} = B!Recent
       /\ B!Recent' \ {r} = B!Recent
       /\ r \in B!Recent' => x4[h].ok
  BY <1>1, <1>3, <1>7, <1>8 DEF B!Recent
<1>11. B!Passed' = B!Passed \ {h} /\ (h \in B!Passed <=> x4[h].ok)
  BY <1>3, <1>4, <1>5 DEF B!Passed
<1>12. /\ IsFiniteSet(B!Recent) /\ IsFiniteSet(B!Passed) /\ IsFiniteSet(B!Recent') /\ IsFiniteSet(B!Passed')
       /\ B!Recent \subseteq Signatures /\ B!Recent' \subseteq Signatures
       /\ B!Passed \subseteq Handlers
  <2>1. IsFiniteSet(Handlers) /\ IsFiniteSet(Signatures)
    BY ConstantsAreSound, SameSets DEF B!BoundsAreFinite
  <2>2. /\ B!Passed \subseteq Handlers /\ B!Passed' \subseteq Handlers
        /\ B!Recent \subseteq Signatures /\ B!Recent' \subseteq Signatures
    BY DEF B!Passed, B!Recent
  <2> QED
    BY <2>1, <2>2, FS_Subset
<1>13. /\ \A s \in Signatures : Asked[s] \in Nat /\ Asked'[s] \in Nat
       /\ \A s \in Signatures : s # r => Asked'[s] = Asked[s]
       /\ Asked'[r] = x4[h].amount
  <2>1. \A s \in Signatures : Asked[s] = x2[s].amount /\ Asked[s] \in Nat
    BY BridgeRanges DEF B!Inv
  <2>2. \A s \in Signatures : Asked'[s] = x2'[s].amount
    BY DEF Asked
  <2>3. x4[h].amount \in Nat
    BY <1>6, BridgeNumbers
  <2> QED
    BY <1>7, <1>8, <2>1, <2>2, <2>3
<1>14. /\ \A k \in Handlers : AtWork[k] \in Nat /\ AtWork[k] = x4[k].amount
       /\ \A k \in Handlers : k # h => AtWork'[k] = AtWork[k]
  <2>1. \A k \in Handlers : AtWork[k] \in Nat /\ AtWork[k] = x4[k].amount
    BY BridgeRanges DEF B!Inv
  <2>2. \A k \in Handlers : AtWork'[k] = x4'[k].amount
    BY DEF AtWork
  <2> QED
    BY <1>5, <2>1, <2>2
<1>15. PICK used \in Nat : used = SumFunctionOnSet(Asked, B!Recent)
  BY BridgeRanges DEF B!Inv
<1>16. PICK rest \in Nat : rest = SumFunctionOnSet(AtWork, B!Passed')
  <2>1. \A k \in B!Passed' : AtWork[k] \in Nat
    BY <1>11, <1>12, <1>14
  <2>2. SumFunctionOnSet(AtWork, B!Passed') \in Nat
    BY <1>12, <2>1, SumIsNat
  <2> QED
    BY <2>2
<1>17. SumFunctionOnSet(AtWork', B!Passed') = rest
  <2>1. \A k \in B!Passed' : AtWork'[k] = AtWork[k]
    BY <1>11, <1>12, <1>14
  <2> QED
    BY <1>12, <1>16, <2>1, SumSame
<1>18. SumFunctionOnSet(AtWork, B!Passed) = IF x4[h].ok THEN x4[h].amount + rest ELSE rest
  <2>1. CASE x4[h].ok
    <3>1. \A k \in B!Passed : AtWork[k] \in Nat
      BY <1>12, <1>14
    <3>2. h \in B!Passed
      BY <1>11, <2>1
    <3>3. SumFunctionOnSet(AtWork, B!Passed) = AtWork[h] + SumFunctionOnSet(AtWork, B!Passed \ {h})
      BY <1>12, <3>1, <3>2, SumTake
    <3> QED
      BY <1>11, <1>14, <1>16, <2>1, <3>3
  <2>2. CASE ~x4[h].ok
    <3>1. B!Passed' = B!Passed
      BY <1>11, <2>2
    <3> QED
      BY <1>16, <2>2, <3>1
  <2> QED
    BY <2>1, <2>2
<1>19. SumFunctionOnSet(Asked', B!Recent) = used
  <2>1. \A s \in B!Recent : Asked'[s] = Asked[s]
    BY <1>10, <1>12, <1>13
  <2> QED
    BY <1>12, <1>15, <2>1, SumSame
<1>20. SumFunctionOnSet(Asked', B!Recent') = IF r \in B!Recent' THEN x4[h].amount + used ELSE used
  <2>1. CASE r \in B!Recent'
    <3>1. \A s \in B!Recent' : Asked'[s] \in Nat
      BY <1>12, <1>13
    <3>2. SumFunctionOnSet(Asked', B!Recent') = Asked'[r] + SumFunctionOnSet(Asked', B!Recent' \ {r})
      BY <1>12, <2>1, <3>1, SumTake
    <3> QED
      BY <1>10, <1>13, <1>19, <2>1, <3>2
  <2>2. CASE r \notin B!Recent'
    <3>1. B!Recent' = B!Recent
      BY <1>10, <2>2
    <3> QED
      BY <1>19, <2>2, <3>1
  <2> QED
    BY <2>1, <2>2
<1>21. Total = used + (IF x4[h].ok THEN x4[h].amount + rest ELSE rest)
  BY <1>15, <1>18, SameSums DEF Total, B!UsedToday, Asked
<1>22. Total' = (IF r \in B!Recent' THEN x4[h].amount + used ELSE used) + rest
  <2>1. B!UsedToday' = SumFunctionOnSet(Asked', B!Recent')
    BY SameSums DEF B!UsedToday, Asked
  <2>2. Total' = B!UsedToday' + SumFunctionOnSet(AtWork', B!Passed')
    BY DEF Total
  <2> QED
    BY <1>17, <1>20, <2>1, <2>2
<1>23. x4[h].amount \in Nat
  BY <1>6, BridgeNumbers
<1>24. Total' <= Total /\ Total \in Nat /\ Total' \in Nat
  BY <1>10, <1>21, <1>22, <1>23
<1>25. Total <= Limit /\ Limit \in Nat
  BY BridgeLimitIs, BridgeNumbers DEF B!Inv
<1>26. Total' <= Limit
  BY <1>24, <1>25
<1> QED
  BY <1>9, <1>26, SameSums, SameSets
  DEF B!Inv, B!LimitHoldsButForTheRace, Total, Limit, AtWork

\* A request that grows old counts no longer.
LEMMA BridgeAgeStep ==
  ASSUME B!Inv, NEW r \in Signatures, B!Age(r) PROVE B!Inv'
<1>1. x3' = x3 \cup {r} /\ UNCHANGED <<x1, x2, x4>>
  BY DEF B!Age
<1>2. B!TypeOK'
  BY <1>1 DEF B!Inv, B!TypeOK
<1>3. B!Recent' = B!Recent \ {r} /\ B!Passed' = B!Passed
  BY <1>1 DEF B!Recent, B!Passed
<1>4. Asked' = Asked /\ AtWork' = AtWork
  BY <1>1 DEF Asked, AtWork
<1>5. /\ IsFiniteSet(B!Recent) /\ \A s \in B!Recent : Asked[s] \in Nat
      /\ B!UsedToday = SumFunctionOnSet(Asked, B!Recent)
      /\ SumFunctionOnSet(Asked, B!Recent) \in Nat /\ SumFunctionOnSet(AtWork, B!Passed) \in Nat
  BY BridgeRanges DEF B!Inv
<1>6. SumFunctionOnSet(Asked, B!Recent \ {r}) <= SumFunctionOnSet(Asked, B!Recent)
  BY <1>5, BridgeSumWithout
<1>7. SumFunctionOnSet(Asked, B!Recent \ {r}) \in Nat
  <2>1. IsFiniteSet(B!Recent \ {r}) /\ \A s \in B!Recent \ {r} : Asked[s] \in Nat
    BY <1>5, FS_Subset
  <2> QED
    BY <2>1, SumIsNat
<1>8. B!UsedToday' = SumFunctionOnSet(Asked, B!Recent \ {r})
  BY <1>3, <1>4, SameSums DEF B!UsedToday, Asked
<1>9. Total' = B!UsedToday' + SumFunctionOnSet(AtWork, B!Passed)
  BY <1>3, <1>4 DEF Total
<1>10. Total <= Limit /\ Limit \in Nat
  BY BridgeLimitIs, BridgeNumbers DEF B!Inv
<1>11. Total' <= Limit
  BY <1>5, <1>6, <1>7, <1>8, <1>9, <1>10 DEF Total
<1> QED
  BY <1>2, <1>11, SameSums, SameSets
  DEF B!Inv, B!LimitHoldsButForTheRace, Total, Limit, AtWork

\* Every step keeps the invariant.
LEMMA BridgeNextInv == ASSUME B!Inv, B!Next PROVE B!Inv'
<1>1. CASE B!EditPolicy
  BY <1>1, SameSums, SameSets
  DEF B!EditPolicy, B!Inv, B!TypeOK, B!LimitHoldsButForTheRace, B!UsedToday,
      B!Recent, B!Passed
<1>2. ASSUME NEW r \in Signatures, B!Age(r) PROVE B!Inv'
  BY <1>2, BridgeAgeStep
<1>3. ASSUME NEW h \in Handlers, NEW a \in Amounts, B!Ask(h, a) PROVE B!Inv'
  <2>1. PICK n : n = [B!Idle EXCEPT !.pc = "policy", !.amount = a]
    OBVIOUS
  <2>2. n \in B!Job /\ n.pc = "policy"
    BY <2>1 DEF B!Job, B!Idle
  <2>3. x4' = [x4 EXCEPT ![h] = n] /\ UNCHANGED <<x1, x2, x3>>
    BY <1>3, <2>1 DEF B!Ask
  <2> QED
    BY <2>2, <2>3, BridgeGoing
<1>4. ASSUME NEW h \in Handlers, B!ReadPolicy(h) PROVE B!Inv'
  <2>1. x4[h] \in B!Job /\ x1.rate \in Rates /\ x4[h].pc = "policy"
        /\ UNCHANGED <<x1, x2, x3>>
    BY <1>4 DEF B!ReadPolicy, B!Inv, B!TypeOK
  <2>2. PICK n, m : /\ n = [x4[h] EXCEPT !.pc = "sum", !.rate = x1.rate]
                    /\ m = [x4[h] EXCEPT !.pc = "store", !.ok = FALSE]
    OBVIOUS
  <2>3. n \in B!Job /\ n.pc = "sum" /\ m \in B!Job /\ m.pc = "store" /\ m.ok = FALSE
    BY <2>1, <2>2 DEF B!Job
  <2>4. x4' = [x4 EXCEPT ![h] = n] \/ x4' = [x4 EXCEPT ![h] = m]
    <3>1. x4 \in [Handlers -> B!Job]
      BY DEF B!Inv, B!TypeOK
    <3>2. \/ x4' = [x4 EXCEPT ![h].pc = "sum", ![h].rate = x1.rate]
          \/ x4' = [x4 EXCEPT ![h].pc = "store", ![h].ok = FALSE]
      BY <1>4 DEF B!ReadPolicy, B!Decide
    <3> QED
      BY <2>2, <3>1, <3>2
  <2>5. CASE x4' = [x4 EXCEPT ![h] = n]
    BY <2>1, <2>3, <2>5, BridgeGoing
  <2>6. CASE x4' = [x4 EXCEPT ![h] = m]
    BY <2>1, <2>3, <2>6, BridgeGoing
  <2> QED
    BY <2>4, <2>5, <2>6
<1>5. ASSUME NEW h \in Handlers, B!SumToday(h) PROVE B!Inv'
  <2>1. x4[h] \in B!Job /\ x4[h].pc = "sum" /\ UNCHANGED <<x1, x2, x3>>
    BY <1>5 DEF B!SumToday, B!Inv, B!TypeOK
  <2>2. PICK n, m : /\ n = [x4[h] EXCEPT !.pc = "reserve"]
                    /\ m = [x4[h] EXCEPT !.pc = "store", !.ok = FALSE]
    OBVIOUS
  <2>3. /\ n \in B!Job /\ n.pc = "reserve" /\ n.amount = x4[h].amount
        /\ m \in B!Job /\ m.pc = "store" /\ m.ok = FALSE
    BY <2>1, <2>2 DEF B!Job
  <2>4. \/ x4' = [x4 EXCEPT ![h] = n] /\ B!UsedToday + x4[h].amount <= DailyCap
        \/ x4' = [x4 EXCEPT ![h] = m]
    <3>1. x4 \in [Handlers -> B!Job]
      BY DEF B!Inv, B!TypeOK
    <3>2. \/ x4' = [x4 EXCEPT ![h].pc = "reserve"] /\ B!WithinCap(x4[h].amount)
          \/ x4' = [x4 EXCEPT ![h].pc = "store", ![h].ok = FALSE]
      BY <1>5 DEF B!SumToday, B!Decide
    <3> QED
      BY <2>2, <3>1, <3>2 DEF B!WithinCap
  <2>5. CASE x4' = [x4 EXCEPT ![h] = n] /\ B!UsedToday + x4[h].amount <= DailyCap
    BY <2>1, <2>3, <2>5, BridgeGoing
  <2>6. CASE x4' = [x4 EXCEPT ![h] = m]
    BY <2>1, <2>3, <2>6, BridgeGoing
  <2> QED
    BY <2>4, <2>5, <2>6
<1>6. ASSUME NEW h \in Handlers, B!CheckReserve(h) PROVE B!Inv'
  <2>1. x4[h] \in B!Job /\ x4[h].pc = "reserve" /\ UNCHANGED <<x1, x2, x3>>
    BY <1>6 DEF B!CheckReserve, B!Inv, B!TypeOK
  <2>2. PICK ok : ok = (x4[h].amount <= Reserve * x4[h].rate)
    OBVIOUS
  <2>3. ok \in BOOLEAN
    BY <2>2
  <2>4. PICK n : n = [x4[h] EXCEPT !.pc = "store", !.ok = ok]
    OBVIOUS
  <2>5. n \in B!Job /\ n.pc = "store" /\ n.amount = x4[h].amount
    BY <2>1, <2>3, <2>4 DEF B!Job
  <2>6. x4' = [x4 EXCEPT ![h] = n]
    <3>1. x4 \in [Handlers -> B!Job]
      BY DEF B!Inv, B!TypeOK
    <3>2. x4' = [x4 EXCEPT ![h].pc = "store", ![h].ok = ok]
      BY <1>6, <2>2 DEF B!CheckReserve, B!Decide
    <3> QED
      BY <2>4, <3>1, <3>2
  <2>7. h \in B!Passed
    BY <2>1 DEF B!Passed
  <2> QED
    BY <2>1, <2>5, <2>6, <2>7, BridgeGoing
<1>7. ASSUME NEW h \in Handlers, B!Store(h) PROVE B!Inv'
  BY <1>7, BridgeStoreStep
<1>8. ASSUME NEW h \in Handlers, B!Leave(h) PROVE B!Inv'
  <2>1. B!Idle \in B!Job /\ B!Idle.pc = "idle"
    BY DEF B!Idle, B!Job
  <2>2. x4' = [x4 EXCEPT ![h] = B!Idle] /\ UNCHANGED <<x1, x2, x3>>
    BY <1>8 DEF B!Leave
  <2> QED
    BY <2>1, <2>2, BridgeGoing
<1> QED
  BY <1>1, <1>2, <1>3, <1>4, <1>5, <1>6, <1>7, <1>8 DEF B!Next

LEMMA BridgeStutterInv == ASSUME B!Inv, UNCHANGED B!vars PROVE B!Inv'
BY SameSums, SameSets
DEF B!Inv, B!vars, B!TypeOK, B!LimitHoldsButForTheRace, B!UsedToday, B!Recent,
    B!Passed

-----------------------------------------------------------------------------
(* What the run explores, for every value of the constants.                *)

\* The part that moves keeps the invariant its own module states.
Parts ==
    /\ part = "memberships" => S!Inv
    /\ part = "purchases" => P!Inv
    /\ part = "rewards" => R!Inv
    /\ part = "events" => E!Inv
    /\ part = "notifications" => N!Inv
    /\ part = "mail" => M!Inv
    /\ part = "drive" => D!Inv
    /\ part = "bridge" => B!Inv

\* Each part begins in a state its invariant holds of.
LEMMA PartsBegin == PartInit => Parts
  BY MembershipInitInv, PurchaseInitInv, RewardInitInv, EventInitInv, NotifyInitInv,
     MailInitInv, DriveInitInv, BridgeInitInv
  DEF PartInit, Parts

\* A step is one of the part that moves, or none.
LEMMA PartMoves ==
  ASSUME [PartNext]_<<part, vars, xVars>>
  PROVE  /\ part' = part
         /\ part = "memberships" => [S!Next]_(S!vars)
         /\ part = "purchases" => [P!Next]_(P!vars)
         /\ part = "rewards" => [R!Next]_(R!vars)
         /\ part = "events" => [E!Next]_(E!vars)
         /\ part = "notifications" => [N!Next]_(N!vars)
         /\ part = "mail" => [M!Next]_(M!vars)
         /\ part = "drive" => [D!Next]_(D!vars)
         /\ part = "bridge" => [B!Next]_(B!vars)
         /\ [Next]_vars
<1>1. CASE PartNext
  BY <1>1 DEF PartNext
<1>2. CASE UNCHANGED <<part, vars, xVars>>
  <2>1. UNCHANGED <<x1, x2, x3, x4, x5, x6, x7, x8, x9>>
    BY <1>2 DEF xVars
  <2>2. UNCHANGED S!vars /\ UNCHANGED P!vars
    BY <2>1 DEF S!vars, S!history, P!vars
  <2>3. UNCHANGED R!vars /\ UNCHANGED E!vars
    BY <2>1 DEF R!vars, R!history, E!vars
  <2>4. UNCHANGED N!vars /\ UNCHANGED M!vars
    BY <2>1 DEF N!vars, M!vars, M!history
  <2>5. UNCHANGED D!vars /\ UNCHANGED B!vars
    BY <2>1 DEF D!vars, B!vars
  <2> QED
    BY <1>2, <2>2, <2>3, <2>4, <2>5
<1> QED
  BY <1>1, <1>2

\* A step keeps the invariant of the part that moves.
LEMMA PartsStep ==
  ASSUME Parts, [PartNext]_<<part, vars, xVars>> PROVE Parts'
<1>1. part' = part
  BY PartMoves
<1>2. ASSUME part = "memberships" PROVE S!Inv'
  BY <1>2, PartMoves, MembershipNextInv DEF Parts
<1>3. ASSUME part = "purchases" PROVE P!Inv'
  BY <1>3, PartMoves, PurchaseNextInv DEF Parts
<1>4. ASSUME part = "rewards" PROVE R!Inv'
  BY <1>4, PartMoves, RewardNextInv DEF Parts
<1>5. ASSUME part = "events" PROVE E!Inv'
  BY <1>5, PartMoves, EventNextInv DEF Parts
<1>6. ASSUME part = "notifications" PROVE N!Inv'
  BY <1>6, PartMoves, NotifyNextInv, NotifyStutterInv DEF Parts
<1>7. ASSUME part = "mail" PROVE M!Inv'
  BY <1>7, PartMoves, MailNextInv, MailStutterInv DEF Parts
<1>8. ASSUME part = "drive" PROVE D!Inv'
  BY <1>8, PartMoves, DriveNextInv, DriveStutterInv DEF Parts
<1>9. ASSUME part = "bridge" PROVE B!Inv'
  BY <1>9, PartMoves, BridgeNextInv, BridgeStutterInv DEF Parts
<1> QED
  BY <1>1, <1>2, <1>3, <1>4, <1>5, <1>6, <1>7, <1>8, <1>9 DEF Parts

(* Whichever component moves, its invariant holds in every state the run   *)
(* can explore, for every value of the constants.                          *)
THEOREM PartsInvariance == PartSpec => []Parts
<1>1. PartInit => Parts
  BY PartsBegin
<1>2. Parts /\ [PartNext]_<<part, vars, xVars>> => Parts'
  BY PartsStep
<1> QED
  BY <1>1, <1>2, PTL DEF PartSpec

(* The signing service, moving or not, behaves as it was proved to: what   *)
(* was proved of Spec holds of the run.                                    *)
THEOREM SigningRuns == PartSpec => Spec
<1>1. PartInit => Init
  BY DEF PartInit
<1>2. [PartNext]_<<part, vars, xVars>> => [Next]_vars
  BY PartMoves
<1> QED
  BY <1>1, <1>2, PTL DEF PartSpec, Spec

(* The variables of whichever component moves stay in their types.         *)
THEOREM TypesCorrect == PartSpec => []TypesOK
<1>1. Parts /\ TypeOK => TypesOK
  BY MembershipInvImplies, MailInvImplies
  DEF Parts, TypesOK, P!Inv, R!Inv, E!Inv, N!Inv, D!Inv, B!Inv
<1> QED
  BY <1>1, PartsInvariance, SigningRuns, TypeCorrect, PTL

(* However sending, moving, deleting and uploading overlap or are cut: a   *)
(* delivered message stays as it was sent, a draft becomes one message at  *)
(* most, and a listed file opens - but in the cases the property excuses.  *)
THEOREM ContentIsKept == PartSpec => []ContentStays
<1>1. Parts => ContentStays
  BY MailInvImplies DEF Parts, ContentStays, D!Inv
<1> QED
  BY <1>1, PartsInvariance, PTL

(* However webhooks and changes of plan interleave, a user has one active  *)
(* membership, unless two calls crossed between the sweep and the insert.  *)
THEOREM OneActive == PartSpec => []OneActiveUnlessCrossed
<1>1. Parts => OneActiveUnlessCrossed
  BY MembershipInvImplies DEF Parts, OneActiveUnlessCrossed
<1> QED
  BY <1>1, PartsInvariance, PTL

(* Whatever order webhooks arrive in and however often, a row says what    *)
(* was reported of it, but in the cases the property excuses.              *)
THEOREM ReportsAreMirrored == PartSpec => []RowsMirrorReports
<1>1. Parts => RowsMirrorReports
  BY MembershipInvImplies DEF Parts, RowsMirrorReports, P!Inv
<1> QED
  BY <1>1, PartsInvariance, PTL

(* The daily cap of a reward, the limit of a day's bridging and the        *)
(* storage quota hold but for what calls that overlap can add, however     *)
(* many there are: the checks are made before the sums they read change.   *)
THEOREM LimitsHold == PartSpec => []LimitsHoldButForTheRace
<1>1. Parts => LimitsHoldButForTheRace
  BY DEF Parts, LimitsHoldButForTheRace, R!Inv, B!Inv, D!Inv
<1> QED
  BY <1>1, PartsInvariance, PTL

(* What is reported ends in the log, the ledger and with every             *)
(* administrator, once; and a consumer of the log is given no event twice  *)
(* and misses none but one inserted behind its cursor.                     *)
THEOREM EventsAccounted == PartSpec => []EventsAreAccountedFor
<1>1. Parts => EventsAreAccountedFor
  BY DEF Parts, EventsAreAccountedFor, R!Inv, E!Inv, N!Inv, N!NotifiedOnceUnlessCut
<1> QED
  BY <1>1, PartsInvariance, PTL
=============================================================================
