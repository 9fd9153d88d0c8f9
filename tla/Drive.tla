-------------------------------- MODULE Drive -------------------------------
(***************************************************************************)
(* NDY Space drive, for one user: files, each a row in the database and a  *)
(* blob in storage, under a quota.  An upload adds up the sizes of the     *)
(* rows there are, saves the blob and creates the row, awaiting each; a    *)
(* deletion removes the blob and then the row.  Which folder a file is in  *)
(* decides nothing, and is left out: an upload to a folder that has gone   *)
(* stops like any other.                                                   *)
(***************************************************************************)
EXTENDS Naturals, FiniteSets, FiniteSetsExt

CONSTANTS
    Files,      \* rows of the DriveFile table, and their blobs (a bound)
    Sizes,      \* sizes of the files that are uploaded
    Quota,      \* STORAGE_QUOTA_BYTES
    Handlers,   \* calls in progress at once (a bound)
    None        \* null

\* What is assumed of the constants.
SizesArePositive == Sizes \subseteq Nat \ {0} /\ Quota \in Nat
NoneIsNoFile == None \notin Files
FilesAreFinite == IsFiniteSet(Files)

VARIABLES
    size,       \* the DriveFile table: sizeBytes, 0 where there is no row
    blob,       \* files whose content is in storage
    job,        \* job[h]: what handler h is doing
    crowded,    \* history: two uploads were past the quota check at once
    torn        \* history: files whose deletion stopped after the blob

vars == <<size, blob, job, crowded, torn>>

Job == [pc : {"idle", "save", "insert", "unlink", "drop"},
        size : Sizes \cup {0}, file : Files \cup {None}]

Idle == [pc |-> "idle", size |-> 0, file |-> None]

TypeOK ==
    /\ size \in [Files -> Sizes \cup {0}]
    /\ blob \subseteq Files
    /\ job \in [Handlers -> Job]
    /\ crowded \in BOOLEAN /\ torn \subseteq Files

Init ==
    /\ size = [f \in Files |-> 0]
    /\ blob = {}
    /\ job = [h \in Handlers |-> Idle]
    /\ crowded = FALSE /\ torn = {}

UsedBytes == SumFunctionOnSet(size, Files)

End(h) == job' = [job EXCEPT ![h] = Idle]

\* Uploads that have passed the quota check.
Uploading == {h \in Handlers : job[h].pc \in {"save", "insert"}}

\* A mutant of Fits: a file that fills the quota is let in with one to spare.
FitsBefore(n) == UsedBytes <= Quota

Fits(n) == UsedBytes + n <= Quota

StartUpload(h, n) ==
    /\ job[h].pc = "idle" /\ Fits(n)
    /\ job' = [job EXCEPT ![h] = [pc |-> "save", size |-> n, file |-> None]]
    /\ crowded' = (crowded \/ Uploading # {})
    /\ UNCHANGED <<size, blob, torn>>

\* A mutant of SaveBlob: the row is created without waiting for the blob.
SaveNothing(h) ==
    /\ job[h].pc = "save"
    /\ \E f \in Files :
          /\ size[f] = 0 /\ \A k \in Handlers : job[k].file # f
          /\ job' = [job EXCEPT ![h].pc = "insert", ![h].file = f]
    /\ UNCHANGED <<size, blob, crowded, torn>>

SaveBlob(h) ==
    /\ job[h].pc = "save"
    /\ \E f \in Files \ blob :
          /\ size[f] = 0 /\ \A k \in Handlers : job[k].file # f
          /\ blob' = blob \cup {f}
          /\ job' = [job EXCEPT ![h].pc = "insert", ![h].file = f]
    /\ UNCHANGED <<size, crowded, torn>>

InsertFile(h) ==
    /\ job[h].pc = "insert"
    /\ size' = [size EXCEPT ![job[h].file] = job[h].size]
    /\ End(h)
    /\ UNCHANGED <<blob, crowded, torn>>

StartDelete(h, f) ==
    /\ job[h].pc = "idle" /\ size[f] # 0
    /\ job' = [job EXCEPT ![h] = [pc |-> "unlink", size |-> 0, file |-> f]]
    /\ UNCHANGED <<size, blob, crowded, torn>>

\* Best-effort: a blob that could not be deleted stays.
Unlink(h) ==
    /\ job[h].pc = "unlink"
    /\ blob' \in {blob, blob \ {job[h].file}}
    /\ job' = [job EXCEPT ![h].pc = "drop"]
    /\ UNCHANGED <<size, crowded, torn>>

\* Deleting a row that is not there throws.
DropFile(h) ==
    /\ job[h].pc = "drop"
    /\ size' = [size EXCEPT ![job[h].file] = 0]
    /\ End(h)
    /\ UNCHANGED <<blob, crowded, torn>>

\* A statement throws, or the process restarts.
Stop(h) ==
    /\ job[h].pc # "idle"
    /\ torn' = IF job[h].pc = "drop" THEN torn \cup {job[h].file} ELSE torn
    /\ End(h)
    /\ UNCHANGED <<size, blob, crowded>>

Next ==
    \E h \in Handlers :
        \/ \E n \in Sizes : StartUpload(h, n)
        \/ \E f \in Files : StartDelete(h, f)
        \/ SaveBlob(h) \/ InsertFile(h) \/ Unlink(h) \/ DropFile(h) \/ Stop(h)

Spec == Init /\ [][Next]_vars

-----------------------------------------------------------------------------
(* Properties.                                                             *)

(* The files of a user stay within the quota unless two uploads once were  *)
(* past its check at the same time.                                        *)
QuotaHoldsButForTheRace == ~crowded => UsedBytes <= Quota

(* A file that is listed has its content, unless its deletion is under way *)
(* or was cut short between the blob and the row.                          *)
ListedOpens ==
    \A f \in Files :
        size[f] # 0 =>
            \/ f \in blob \cup torn
            \/ \E h \in Handlers : job[h].pc = "drop" /\ job[h].file = f

-----------------------------------------------------------------------------
(* The invariant.                                                          *)

\* A row that is being inserted is nobody else's, and has its blob.
Handling ==
    \A h \in Handlers :
        /\ job[h].pc \in {"idle", "save"} <=> job[h].file = None
        /\ job[h].pc \in {"save", "insert"} => job[h].size \in Sizes
        /\ job[h].pc = "insert" =>
              /\ job[h].file \in blob /\ size[job[h].file] = 0
              /\ \A k \in Handlers : job[k].file = job[h].file => k = h

\* An upload that was alone past the check still fits.
UploadFits ==
    ~crowded => \A h \in Uploading : /\ \A k \in Uploading : k = h
                                     /\ UsedBytes + job[h].size <= Quota

Inv == TypeOK /\ Handling /\ UploadFits /\ QuotaHoldsButForTheRace /\ ListedOpens
=============================================================================
