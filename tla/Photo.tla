-------------------------------- MODULE Photo -------------------------------
(***************************************************************************)
(* The photo of an account: stored under a new name, the old one removed   *)
(* and the account updated, in that order and not as one, and taken off    *)
(* when the account is erased.  The store and the database are apart, and  *)
(* uploads from two tabs overlap.                                          *)
(***************************************************************************)
EXTENDS FiniteSets

CONSTANTS
    Photos,     \* names of photos (a bound)
    Handlers,   \* uploads at once (a bound)
    None        \* null

NoneIsNoPhoto == None \notin Photos

VARIABLES
    files,      \* photos in the store
    named,      \* names that were used
    photo,      \* the photo of the account
    erased,     \* the account is erased
    job,        \* job[h]: how far upload h has come
    cut,        \* history: photos of uploads that ended before the update
    lost,       \* history: photos that such an upload had removed by then
    kept,       \* history: photos the store did not remove when asked to
    late,       \* history: photos of uploads that overlapped another one, or
                \* the erasure
    given       \* history: photos that were the account's when it was erased

vars == <<files, named, photo, erased, job, cut, lost, kept, late, given>>

\* old: the photo that the account had when the upload began.
Job == [pc : {"idle", "save", "remove", "update"}, old : Photos \cup {None},
        new : Photos \cup {None}]

Idle == [pc |-> "idle", old |-> None, new |-> None]

TypeOK ==
    /\ files \subseteq named /\ named \subseteq Photos
    /\ photo \in Photos \cup {None} /\ erased \in BOOLEAN
    /\ job \in [Handlers -> Job]
    /\ cut \subseteq Photos /\ lost \subseteq Photos \cup {None}
    /\ kept \subseteq Photos
    /\ late \subseteq Photos /\ given \subseteq Photos

Init ==
    /\ files = {} /\ named = {} /\ photo = None /\ erased = FALSE
    /\ job = [h \in Handlers |-> Idle]
    /\ cut = {} /\ lost = {} /\ kept = {} /\ late = {} /\ given = {}

Pending(h) == {job[k].new : k \in Handlers \ {h}} \ {None}

\* updateProfilePhoto: the account is read.  A session that was there at the
\* erasure serves no further call.
Begin(h) ==
    /\ job[h].pc = "idle" /\ ~erased
    /\ job' = [job EXCEPT ![h] = [pc |-> "save", old |-> photo, new |-> None]]
    /\ late' = late \cup Pending(h)
    /\ UNCHANGED <<files, named, photo, erased, cut, lost, kept, given>>

\* PhotoStorageService.save, under a random name.
Save(h) ==
    /\ job[h].pc = "save"
    /\ \E p \in Photos \ named :
          /\ files' = files \cup {p} /\ named' = named \cup {p}
          /\ job' = [job EXCEPT ![h].pc = "remove", ![h].new = p]
          /\ late' = IF erased \/ \E k \in Handlers \ {h} : job[k].pc # "idle"
                     THEN late \cup {p} \cup Pending(h) ELSE late
    /\ UNCHANGED <<photo, erased, cut, lost, kept, given>>

\* A mutant of Superseded: the photo the account has by now.
SupersededNow(h) == photo

\* The photo that is removed.
Superseded(h) == job[h].old

\* deleteByUrl, which does not fail.
Remove(h) ==
    /\ job[h].pc = "remove"
    /\ \/ files' = files \ {Superseded(h)} /\ kept' = kept
       \/ files' = files /\ kept' = kept \cup ({Superseded(h)} \ {None})
    /\ job' = [job EXCEPT ![h].pc = "update"]
    /\ UNCHANGED <<named, photo, erased, cut, lost, late, given>>

Update(h) ==
    /\ job[h].pc = "update"
    /\ photo' = job[h].new
    /\ job' = [job EXCEPT ![h] = Idle]
    /\ UNCHANGED <<files, named, erased, cut, lost, kept, late, given>>

\* The API stops, or the store or the database cannot be written to.
Cut(h) ==
    /\ job[h].pc # "idle"
    /\ lost' = IF job[h].pc = "update" THEN lost \cup {job[h].old} ELSE lost
    /\ cut' = cut \cup ({job[h].new} \ {None})
    /\ job' = [job EXCEPT ![h] = Idle]
    /\ UNCHANGED <<files, named, photo, erased, kept, late, given>>

\* A mutant of Forgotten: the photo is not taken off.
Remembered == photo

\* What deleteAccount leaves of the photo.
Forgotten == None

\* Erasure takes the photo off the account, and leaves it in the store.
Erase ==
    /\ ~erased /\ erased' = TRUE
    /\ photo' = Forgotten
    /\ given' = {photo} \ {None}
    /\ late' = late \cup ({job[h].new : h \in Handlers} \ {None})
    /\ UNCHANGED <<files, named, job, cut, lost, kept>>

Next ==
    \/ Erase
    \/ \E h \in Handlers :
          Begin(h) \/ Save(h) \/ Remove(h) \/ Update(h) \/ Cut(h)

Spec == Init /\ [][Next]_vars

-----------------------------------------------------------------------------
(* Properties.                                                             *)

Underway == {job[h].new : h \in Handlers} \ {None}

(* When no upload is underway the photo of an account is in the store,     *)
(* unless an upload had removed it and was cut before the update.          *)
PhotoIsThere ==
    (\A h \in Handlers : job[h] = Idle) => photo \in files \cup {None} \cup lost

(* What is in the store is the photo of the account or one underway, but   *)
(* for what the store kept, what was cut or overlapped, and what an        *)
(* account had that was erased; and an erased account has no photo but one *)
(* an upload that overlapped the erasure gave it.                          *)
NothingIsLeftOver ==
    /\ files \subseteq {photo} \cup Underway \cup kept \cup cut \cup late
                         \cup given
    /\ erased /\ photo # None => photo \in late
-----------------------------------------------------------------------------
(* The inductive invariant: an upload underway has a photo of its own that *)
(* is in the store, that no account had and that no other upload takes for *)
(* its old one; the account's photo is that the upload began with, or one  *)
(* of an upload that overlapped it.                                        *)

\* The photos that uploads underway have stored.
Stored == {h \in Handlers : job[h].new # None}

StagesAreWhole ==
    \A h \in Handlers :
        /\ job[h].pc = "idle" => job[h] = Idle
        /\ job[h].new # None <=> job[h].pc \in {"remove", "update"}

NewPhotosAreFresh ==
    /\ photo \in named \cup {None}
    /\ \A h \in Handlers : job[h].old \in named \cup {None}
    /\ \A h \in Stored : job[h].new \in files /\ job[h].new # photo
    /\ \A h \in Stored, k \in Handlers :
          job[k].old # job[h].new /\ (k # h => job[k].new # job[h].new)

RemovedForAnother ==
    photo \in files \cup {None} \cup lost
    \/ \E h \in Handlers : job[h].pc = "update" /\ job[h].old = photo

OverlapsAreLate ==
    /\ \A h \in Handlers : job[h].pc # "idle" =>
          photo \in {job[h].old, None} \cup late
    /\ \A h \in Stored, k \in Handlers :
          k # h /\ job[k].pc # "idle" => job[h].new \in late
    /\ erased => \A h \in Stored : job[h].new \in late

OldPhotosAreGone ==
    \A h \in Handlers :
        job[h].pc = "update" /\ job[h].old \in files => job[h].old \in kept

Inv ==
    /\ TypeOK
    /\ StagesAreWhole
    /\ NewPhotosAreFresh
    /\ RemovedForAnother
    /\ OverlapsAreLate
    /\ OldPhotosAreGone
    /\ ~erased => given = {}
    /\ NothingIsLeftOver
=============================================================================
