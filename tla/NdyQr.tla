-------------------------------- MODULE NdyQr --------------------------------
(***************************************************************************)
(* QR codes: each has a short link that is printed once and leads to a     *)
(* destination its owner may change.  A slug is drawn, looked up and then  *)
(* inserted; the owner's calls find the code and then write to it by id;   *)
(* a visit is led on at once and recorded behind the visitor's back.       *)
(*                                                                         *)
(* A code belongs to a user or to a client of the API.  Both make codes,   *)
(* but no call of a client changes or removes one.  A destination is that  *)
(* of whoever set it.  Labels, colours and the picture are left out.       *)
(***************************************************************************)
EXTENDS Naturals, FiniteSets

CONSTANTS
    Codes,      \* ids of codes (a bound)
    Slugs,      \* slugs that may be drawn (a bound)
    Users,      \* users that make codes
    Clients,    \* clients that make codes
    Handlers,   \* calls at once (a bound)
    Most,       \* visits of each code (a bound)
    None        \* null

OwnersAreSound == Users \cap Clients = {} /\ None \notin Codes \cup Slugs
BoundsAreSound == Most \in Nat /\ IsFiniteSet(Handlers)

VARIABLES
    code,       \* the NdyQrCode table, null where there is no row
    used,       \* history: ids that were given
    now,        \* the time: 0 before, 1 after every expiresAt
    scans,      \* the NdyQrScan rows of each code
    job,        \* job[h]: what handler h is doing and what it has read
    visits,     \* history: visits each code has led on
    unrecorded, \* history: of these, those whose recording failed
    led,        \* history: owners whose destinations each slug has led to
    freed       \* history: slugs whose code was removed

vars == <<code, used, now, scans, job, visits, unrecorded, led, freed>>

Owners == Users \cup Clients

\* expires: expiresAt is set.
Code == [slug : Slugs, owner : Owners, to : Owners, active : BOOLEAN,
         expires : BOOLEAN]

NoneIsNoCode == None \notin Code

Job == [pc : {"idle", "insert", "update", "remove", "record"},
        who : Owners \cup {None}, slug : Slugs \cup {None},
        id : Codes \cup {None}]

Idle == [pc |-> "idle", who |-> None, slug |-> None, id |-> None]

TypeOK ==
    /\ code \in [Codes -> Code \cup {None}] /\ used \subseteq Codes
    /\ now \in {0, 1} /\ scans \in [Codes -> 0..Most]
    /\ job \in [Handlers -> Job]
    /\ visits \in [Codes -> 0..Most] /\ unrecorded \in [Codes -> 0..Most]
    /\ led \in [Slugs -> SUBSET Owners] /\ freed \subseteq Slugs

Init ==
    /\ code = [c \in Codes |-> None] /\ used = {} /\ now = 0
    /\ scans = [c \in Codes |-> 0] /\ job = [h \in Handlers |-> Idle]
    /\ visits = [c \in Codes |-> 0] /\ unrecorded = [c \in Codes |-> 0]
    /\ led = [s \in Slugs |-> {}] /\ freed = {}

Of(s) == {c \in Codes : code[c] # None /\ code[c].slug = s}

Begin(h, pc, who, s, c) ==
    /\ job[h] = Idle
    /\ job' = [job EXCEPT ![h] = [pc |-> pc, who |-> who, slug |-> s, id |-> c]]

End(h) == job' = [job EXCEPT ![h] = Idle]

-----------------------------------------------------------------------------
(* The owners.                                                             *)

\* generateUniqueSlug: six draws, all of them taken, are an error.
DrawSlug(h, who, s) ==
    /\ Of(s) = {}
    /\ Begin(h, "insert", who, s, None)
    /\ UNCHANGED <<code, used, now, scans, visits, unrecorded, led, freed>>

\* A mutant of Free: the slug was free when it was drawn.
FreeWhenDrawn(s) == TRUE

\* The unique index on slugs.
Free(s) == Of(s) = {}

\* createOwned.  The call fails if the slug was taken meanwhile.
Insert(h) ==
    /\ job[h].pc = "insert" /\ End(h)
    /\ IF Free(job[h].slug)
       THEN \E c \in Codes \ used, expires \in BOOLEAN :
               /\ code' = [code EXCEPT ![c] =
                     [slug |-> job[h].slug, owner |-> job[h].who,
                      to |-> job[h].who, active |-> TRUE, expires |-> expires]]
               /\ used' = used \cup {c}
       ELSE UNCHANGED <<code, used>>
    /\ UNCHANGED <<now, scans, visits, unrecorded, led, freed>>

\* A mutant of Owned: any user finds any code.
OwnedOrNot(who, c) == code[c] # None

\* getOwned: those of clients have no ownerId.
Owned(who, c) == code[c] # None /\ code[c].owner = who

Find(h, pc, who, c) ==
    /\ who \in Users /\ Owned(who, c)
    /\ Begin(h, pc, who, None, c)
    /\ UNCHANGED <<code, used, now, scans, visits, unrecorded, led, freed>>

\* Of the destination, isActive and expiresAt some are sent; a date that was
\* set can be changed and not taken back.  A code that is gone is an error.
Update(h) ==
    /\ job[h].pc = "update" /\ End(h)
    /\ IF code[job[h].id] = None THEN code' = code
       ELSE \E active, expires \in BOOLEAN, to \in {code[job[h].id].to, job[h].who} :
               /\ code[job[h].id].expires => expires
               /\ code' = [code EXCEPT ![job[h].id].active = active,
                             ![job[h].id].expires = expires, ![job[h].id].to = to]
    /\ UNCHANGED <<used, now, scans, visits, unrecorded, led, freed>>

\* The scans go with the code.
Remove(h) ==
    /\ job[h].pc = "remove" /\ End(h)
    /\ LET c == job[h].id IN
       IF code[c] = None THEN UNCHANGED <<code, scans, freed>>
       ELSE /\ code' = [code EXCEPT ![c] = None]
            /\ scans' = [scans EXCEPT ![c] = 0]
            /\ freed' = freed \cup {code[c].slug}
    /\ UNCHANGED <<used, now, visits, unrecorded, led>>

-----------------------------------------------------------------------------
(* The visitors.                                                           *)

Live(c) == code[c].active /\ (code[c].expires => now = 0)

\* resolveDestination: the visitor is led on, and the visit to be recorded.
Visit(h, s) ==
    \E c \in Of(s) :
        /\ Live(c) /\ visits[c] < Most
        /\ Begin(h, "record", None, None, c)
        /\ visits' = [visits EXCEPT ![c] = @ + 1]
        /\ led' = [led EXCEPT ![s] = @ \cup {code[c].to}]
        /\ UNCHANGED <<code, used, now, scans, unrecorded, freed>>

\* A mutant of Recorded: the picture fetched with it counts as well.
RecordedTwice(c) == IF scans[c] + 1 < Most THEN scans[c] + 2 ELSE Most

Recorded(c) == scans[c] + 1

\* recordScan: its failure - the code is gone, or the place could not be
\* looked up - is logged and no more.
Record(h) ==
    /\ job[h].pc = "record" /\ End(h)
    /\ LET c == job[h].id IN
       \/ /\ code[c] # None
          /\ scans' = [scans EXCEPT ![c] = Recorded(c)]
          /\ unrecorded' = unrecorded
       \/ /\ unrecorded' = [unrecorded EXCEPT ![c] = @ + 1]
          /\ scans' = scans
    /\ UNCHANGED <<code, used, now, visits, led, freed>>

\* The API stops between two steps of a call.
Cut(h) ==
    /\ job[h].pc # "idle" /\ End(h)
    /\ unrecorded' = IF job[h].pc = "record"
                     THEN [unrecorded EXCEPT ![job[h].id] = @ + 1] ELSE unrecorded
    /\ UNCHANGED <<code, used, now, scans, visits, led, freed>>

Expire ==
    /\ now = 0 /\ now' = 1
    /\ UNCHANGED <<code, used, scans, job, visits, unrecorded, led, freed>>

Next ==
    \/ Expire
    \/ \E h \in Handlers :
          \/ \E who \in Owners, s \in Slugs : DrawSlug(h, who, s)
          \/ \E who \in Owners, c \in Codes :
                Find(h, "update", who, c) \/ Find(h, "remove", who, c)
          \/ \E s \in Slugs : Visit(h, s)
          \/ Insert(h) \/ Update(h) \/ Remove(h) \/ Record(h) \/ Cut(h)

Spec == Init /\ [][Next]_vars

-----------------------------------------------------------------------------
(* Properties.                                                             *)

(* What is printed leads where one owner wants it to: no slug has two      *)
(* codes, and none has led to what two owners set unless its code was      *)
(* removed, after which the slug may be drawn again by another.            *)
LinksKeepTheirOwner ==
    \A s \in Slugs :
        /\ Cardinality(Of(s)) <= 1
        /\ s \notin freed => Cardinality(led[s]) <= 1

Recording(c) == {h \in Handlers : job[h].pc = "record" /\ job[h].id = c}

(* Every visit that was led on is recorded once, while there is the code,  *)
(* unless its recording failed or is under way.                            *)
VisitsAreRecorded ==
    \A c \in Codes :
        code[c] # None =>
            visits[c] = scans[c] + unrecorded[c] + Cardinality(Recording(c))
-----------------------------------------------------------------------------
(* The inductive invariant: calls write to codes that were given, and a    *)
(* code is written to by its owner; a slug that leads somewhere has a code *)
(* unless one was removed; visits are recorded, failed or under way, also  *)
(* of codes that are gone, and an id that was not given has none.          *)

CallsAreWhole ==
    \A h \in Handlers :
        /\ job[h].pc = "insert" => job[h].slug \in Slugs
        /\ job[h].pc \in {"update", "remove", "record"} => job[h].id \in used
        /\ job[h].pc \in {"insert", "update"} => job[h].who \in Owners

WritersAreOwners ==
    /\ \A c \in Codes : code[c] # None =>
          c \in used /\ code[c].to = code[c].owner
    /\ \A h \in Handlers :
          job[h].pc = "update" /\ code[job[h].id] # None =>
              job[h].who = code[job[h].id].owner

SlugsAreUnique ==
    \A s \in Slugs : \A c, d \in Of(s) : c = d

LedToTheOwner ==
    \A s \in Slugs : s \notin freed =>
        \A o \in led[s] : \E c \in Of(s) : code[c].owner = o

VisitsAddUp ==
    \A c \in Codes :
        /\ scans[c] + unrecorded[c] + Cardinality(Recording(c)) <= visits[c]
        /\ code[c] = None => scans[c] = 0
        /\ c \notin used => visits[c] = 0

Inv ==
    /\ TypeOK
    /\ CallsAreWhole
    /\ WritersAreOwners
    /\ SlugsAreUnique
    /\ LedToTheOwner
    /\ VisitsAddUp
    /\ VisitsAreRecorded
=============================================================================
