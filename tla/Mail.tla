-------------------------------- MODULE Mail --------------------------------
(***************************************************************************)
(* NDY Space mail.  A message is one Email row and one EmailRecipient row  *)
(* for each mailbox it is in; a draft is an Email with one row in the      *)
(* folder DRAFTS.  Sending a draft deletes its Email, in a transaction of  *)
(* its own, and then delivers a new one.                                   *)
(*                                                                         *)
(* Only DRAFTS is told apart from the other folders: what is in TRASH when *)
(* it is emptied may be any rows that are not.  Recipients are resolved    *)
(* and attachments validated before the transactions, which fail if one of *)
(* them has gone by then: Stop stands for that too.  The notifications that*)
(* follow a delivery are rows of a table nothing here reads, and are left  *)
(* out.                                                                    *)
(***************************************************************************)
EXTENDS Naturals, FiniteSets

CONSTANTS
    Users,
    Writers,    \* users who write messages (a bound)
    Emails,     \* rows of the Email table (a bound)
    Lists,      \* recipient lists (a bound)
    Handlers,   \* calls in progress at once (a bound)
    None        \* null

\* What is assumed of the constants.
WritersAreUsers == Writers \subseteq Users /\ Lists \subseteq (SUBSET Users) \ {{}}
NoneIsNoValue == None \notin Users \cup Emails \cup {"DRAFTS", "OTHER"}

VARIABLES
    email,      \* the Email table
    folder,     \* folder[<<e, u>>]: the EmailRecipient row of e in u's mailbox
    job,        \* job[h]: what handler h is doing
    used,       \* history: ids given to a message
    kept,       \* history: who was delivered e and has not deleted their copy,
                \* until one of them moves theirs to DRAFTS
    altered,    \* history: messages rewritten after they were delivered
    from,       \* history: the draft that a message was sent from
    cut         \* history: drafts deleted by a sending that went no further

history == <<used, kept, altered, from, cut>>
vars == <<email, folder, job, history>>

Folders == {"DRAFTS", "OTHER"}

Job == [pc : {"idle", "erase", "deliver"}, user : Users \cup {None},
        on : Emails \cup {None}, to : SUBSET Users]

Idle == [pc |-> "idle", user |-> None, on |-> None, to |-> {}]

TypeOK ==
    /\ email \subseteq used /\ used \subseteq Emails
    /\ folder \in [Emails \X Users -> Folders \cup {None}]
    /\ job \in [Handlers -> Job]
    /\ kept \in [Emails -> SUBSET Users]
    /\ from \in [Emails -> Emails \cup {None}]
    /\ altered \subseteq used /\ cut \subseteq used

Init ==
    /\ email = {}
    /\ folder = [x \in Emails \X Users |-> None]
    /\ job = [h \in Handlers |-> Idle]
    /\ used = {}
    /\ kept = [e \in Emails |-> {}]
    /\ from = [e \in Emails |-> None]
    /\ altered = {} /\ cut = {}

Begin(h, pc, u, e, rs) ==
    /\ job[h].pc = "idle"
    /\ job' = [job EXCEPT ![h] = [pc |-> pc, user |-> u, on |-> e, to |-> rs]]
    /\ UNCHANGED <<email, folder, history>>

End(h) == job' = [job EXCEPT ![h] = Idle]

-----------------------------------------------------------------------------
(* Delivery.                                                               *)

Make(e) ==
    /\ e \notin used
    /\ used' = used \cup {e}
    /\ email' = email \cup {e}

Send(h, u, rs) == Begin(h, "deliver", u, None, rs)

\* One transaction.  To oneself there is no second copy.
Deliver(h) ==
    LET boxes == job[h].to \cup {job[h].user}
    IN /\ job[h].pc = "deliver"
       /\ \E e \in Emails :
             /\ Make(e)
             /\ folder' = [x \in Emails \X Users |->
                              IF x[1] = e /\ x[2] \in boxes THEN "OTHER" ELSE folder[x]]
             /\ kept' = [kept EXCEPT ![e] = boxes]
             /\ from' = [from EXCEPT ![e] = job[h].on]
       /\ End(h)
       /\ UNCHANGED <<altered, cut>>

-----------------------------------------------------------------------------
(* Drafts.                                                                 *)

NewDraft(u, e) ==
    /\ Make(e)
    /\ folder' = [folder EXCEPT ![<<e, u>>] = "DRAFTS"]
    /\ UNCHANGED <<job, kept, altered, from, cut>>

\* A row that leaves DRAFTS after the check is edited all the same: as if the
\* edit had come before.
SaveDraft(u, e) ==
    /\ folder[<<e, u>>] = "DRAFTS"
    /\ altered' = IF kept[e] # {} THEN altered \cup {e} ELSE altered
    /\ UNCHANGED <<email, folder, job, used, kept, from, cut>>

ReadToSend(h, u, e, rs) ==
    /\ folder[<<e, u>>] = "DRAFTS"
    /\ Begin(h, "erase", u, e, rs)

\* A mutant of Erasable: deleting a draft that has gone is no error.
ErasableOrGone(e) == TRUE

\* Deleting a row that is not there throws.
Erasable(e) == e \in email

\* Every mailbox row of the Email goes with it.
EraseDraft(h) ==
    LET e == job[h].on
    IN /\ job[h].pc = "erase"
       /\ IF Erasable(e)
          THEN /\ email' = email \ {e}
               /\ folder' = [x \in Emails \X Users |-> IF x[1] = e THEN None ELSE folder[x]]
               /\ job' = [job EXCEPT ![h].pc = "deliver"]
          ELSE End(h) /\ UNCHANGED <<email, folder>>
       /\ UNCHANGED history

-----------------------------------------------------------------------------
(* The mailbox.                                                            *)

\* Any folder may be asked for.
Move(u, e, f) ==
    /\ folder[<<e, u>>] # None
    /\ folder' = [folder EXCEPT ![<<e, u>>] = f]
    /\ kept' = IF f = "DRAFTS" THEN [kept EXCEPT ![e] = {}] ELSE kept
    /\ UNCHANGED <<email, job, used, altered, from, cut>>

\* A mutant of CopyOf: the message goes, not one mailbox's copy of it.
CopyOfAll(u, e) == {e} \X Users

\* What remove() deletes: "never the shared Email row or any other copy".
CopyOf(u, e) == {<<e, u>>}

\* u deletes their copies of the messages in es.
Delete(u, es) ==
    /\ folder' = [x \in Emails \X Users |->
                     IF \E e \in es : x \in CopyOf(u, e) THEN None ELSE folder[x]]
    /\ kept' = [e \in Emails |-> IF e \in es THEN kept[e] \ {u} ELSE kept[e]]
    /\ UNCHANGED <<email, job, used, altered, from, cut>>

Remove(u, e) == folder[<<e, u>>] # None /\ Delete(u, {e})

EmptyTrash(u, es) == (\A e \in es : folder[<<e, u>>] = "OTHER") /\ Delete(u, es)

\* A statement throws, or the process restarts.
Stop(h) ==
    /\ job[h].pc # "idle"
    /\ cut' = IF job[h].pc = "deliver" THEN cut \cup ({job[h].on} \ {None}) ELSE cut
    /\ End(h)
    /\ UNCHANGED <<email, folder, used, kept, altered, from>>

Next ==
    \/ \E h \in Handlers, u \in Users, e \in Emails, rs \in Lists : ReadToSend(h, u, e, rs)
    \/ \E h \in Handlers :
          \/ \E u \in Writers, rs \in Lists : Send(h, u, rs)
          \/ Deliver(h) \/ EraseDraft(h) \/ Stop(h)
    \/ \E u \in Users, e \in Emails :
          \/ \E f \in Folders : Move(u, e, f)
          \/ SaveDraft(u, e) \/ Remove(u, e)
    \/ \E u \in Writers, e \in Emails : NewDraft(u, e)
    \/ \E u \in Users, es \in (SUBSET Emails) \ {{}} : EmptyTrash(u, es)

Spec == Init /\ [][Next]_vars

-----------------------------------------------------------------------------
(* Properties.                                                             *)

(* A delivered message stays in every mailbox it was delivered to, saying  *)
(* what its sender wrote, until that mailbox's owner deletes the copy,     *)
(* whatever the others do with theirs, unless one of them has had it in    *)
(* DRAFTS.                                                                 *)
DeliveredStays ==
    \A e \in Emails :
        kept[e] # {} => /\ e \in email \ altered
                        /\ \A u \in kept[e] : folder[<<e, u>>] # None

(* A draft becomes one message at most, and an Email row that is gone has  *)
(* become one, is about to, or was lost by a sending cut short after it    *)
(* deleted the draft.                                                      *)
DraftsAreSentOnce ==
    \A d \in used :
        /\ Cardinality({e \in Emails : from[e] = d}) <= 1
        /\ d \notin email =>
              \/ d \in cut
              \/ \E e \in Emails : from[e] = d
              \/ \E h \in Handlers : job[h].pc = "deliver" /\ job[h].on = d

(* "folder = DRAFTS, no other EmailRecipient rows exist yet for this       *)
(* Email": the comment on the table.  Editing or sending a draft touches   *)
(* nobody else's copy.                                                     *)
(* The code does not keep this: any row can be moved to DRAFTS.            *)
DraftsHaveOneRow ==
    \A e \in Emails, u \in Users :
        folder[<<e, u>>] = "DRAFTS" => \A w \in Users \ {u} : folder[<<e, w>>] = None

-----------------------------------------------------------------------------
(* The invariant.                                                          *)

\* A message that was delivered, and has been in DRAFTS in no mailbox since,
\* is in the mailboxes that keep it.
Placed ==
    /\ \A e \in Emails, u \in Users : folder[<<e, u>>] # None => e \in email
    /\ \A e \in Emails :
          kept[e] # {} => /\ e \in email \ altered
                          /\ \A u \in Users : folder[<<e, u>>] # "DRAFTS"
                          /\ \A u \in kept[e] : folder[<<e, u>>] # None

\* A draft is deleted by one call, which alone may make a message of it.
Sent ==
    /\ \A h \in Handlers :
          /\ job[h].pc # "idle" => job[h].user \in Users
          /\ job[h].pc = "erase" => job[h].on \in used /\ kept[job[h].on] = {}
          /\ job[h].pc = "deliver" /\ job[h].on # None =>
                /\ job[h].on \in used \ email
                /\ \A e \in Emails : from[e] # job[h].on
                /\ \A k \in Handlers :
                      job[k].pc = "deliver" /\ job[k].on = job[h].on => k = h
    /\ \A e \in Emails :
          from[e] # None => /\ e \in used /\ from[e] \in used \ email
                            /\ \A g \in Emails : from[g] = from[e] => g = e
    /\ \A d \in used \ email :
          \/ d \in cut
          \/ \E e \in Emails : from[e] = d
          \/ \E h \in Handlers : job[h].pc = "deliver" /\ job[h].on = d

Inv == TypeOK /\ Placed /\ Sent
=============================================================================
