------------------------------ MODULE MailPage ------------------------------
(***************************************************************************)
(* The mailbox page of NDY Space: one folder's messages at a time, ticked  *)
(* and trashed together, opened in a reader over the list, restored, and   *)
(* deleted for good.  The API serves each call when it gets to it, and the *)
(* answers come back in any order; nothing cancels a call.  A message that *)
(* is moved stays in the list, and the list is read again, for the folder  *)
(* the button was clicked under, after an action on several messages.      *)
(*                                                                         *)
(* The mailbox is one user's: home is the folder of each of its rows, and  *)
(* what the API does to other people's is in Mail.  Stars, read marks,     *)
(* categories and the search do not move a message, and are left out.      *)
(***************************************************************************)
EXTENDS FiniteSets

CONSTANTS
    Messages,   \* rows of the mailbox (a bound)
    Tabs,       \* the folders between which the user switches
    Calls,      \* calls of the page in flight at once (a bound)
    None        \* null

\* What is assumed of the constants.
TabsAreFolders == "TRASH" \in Tabs /\ "INBOX" \in Tabs /\ None \notin Tabs
NoneIsNoMessage == None \notin Messages

VARIABLES
    home,       \* the folder of each message, null once it is deleted
    folder,     \* the tab that is selected
    listed,     \* the messages shown, null while loading
    ticked,     \* selectedIds
    reader,     \* the message that is open, and its folder as last heard
    bulkBusy,   \* an action on several messages is in flight
    call,       \* call[c]: what was asked, and its answer
    crossed,    \* history: the list may be another tab's (see StartLoad)
    stale,      \* history: something moved or failed since it was read
    restored,   \* history: messages that were moved out of the trash, or
                \* deleted in a list that may have been another tab's
    outside,    \* history: messages deleted for good outside the trash
    clicked     \* history: the message opened last, null if another call
                \* than a load was in flight at once

vars == <<home, folder, listed, ticked, reader, bulkBusy, call, crossed, stale,
          restored, outside, clicked>>

\* at: the tab under which it was asked, or the folder to move to.
Call == [kind : {"idle", "load", "open", "move", "erase", "empty", "trash"},
         pc : {"asked", "answered"}, at : Tabs \cup {None},
         msg : Messages \cup {None}, got : SUBSET Messages]

Idle == [kind |-> "idle", pc |-> "asked", at |-> None, msg |-> None,
         got |-> {}]

TypeOK ==
    /\ home \in [Messages -> Tabs \cup {None}] /\ folder \in Tabs
    /\ listed \in (SUBSET Messages) \cup {None} /\ ticked \subseteq Messages
    /\ reader \in [msg : Messages, at : Tabs] \cup {None}
    /\ bulkBusy \in BOOLEAN /\ call \in [Calls -> Call]
    /\ crossed \in BOOLEAN /\ stale \in BOOLEAN
    /\ restored \subseteq Messages /\ outside \subseteq Messages
    /\ clicked \in Messages \cup {None}

\* The page has just been opened, and loads its first tab.
Init ==
    /\ home \in [Messages -> Tabs] /\ folder = "INBOX"
    /\ listed = None /\ ticked = {} /\ reader = None /\ bulkBusy = FALSE
    /\ \E c \in Calls :
          call = [k \in Calls |-> IF k # c THEN Idle
                    ELSE [Idle EXCEPT !.kind = "load", !.at = "INBOX"]]
    /\ crossed = FALSE /\ stale = FALSE
    /\ restored = {} /\ outside = {} /\ clicked = None

Loading == {c \in Calls : call[c].kind = "load"}
In(f) == {m \in Messages : home[m] = f}

\* Call c becomes a load of tab f.  It may leave the list of another tab on
\* the screen if another load is in flight, or f is no longer selected.
StartLoad(c, f) ==
    /\ call' = [call EXCEPT ![c] = [Idle EXCEPT !.kind = "load", !.at = f]]
    /\ crossed' = \/ crossed /\ listed' # None
                  \/ Loading \ {c} # {} \/ f # folder'
    /\ stale' = (Loading \ {c} # {})

Ask(c, r) ==
    /\ call[c] = Idle /\ call' = [call EXCEPT ![c] = r]
    /\ clicked' = IF \E k \in Calls : call[k].kind \notin {"idle", "load"}
                  THEN None ELSE IF r.kind = "open" THEN r.msg ELSE clicked

\* A mutant of Blanked: the old list is shown until the new one is there.
Kept == listed

\* Until the answer is there no list is shown.
Blanked == None

\* The reader lies over the tabs and the list.
SelectTab(c, f) ==
    /\ reader = None /\ f # folder /\ call[c] = Idle
    /\ folder' = f /\ listed' = Blanked /\ ticked' = {}
    /\ StartLoad(c, f)
    /\ UNCHANGED <<home, reader, bulkBusy, restored, outside, clicked>>

Tick(m) ==
    /\ reader = None /\ listed # None /\ m \in listed
    /\ ticked' = IF m \in ticked THEN ticked \ {m} ELSE ticked \cup {m}
    /\ UNCHANGED <<home, folder, listed, reader, bulkBusy, call, crossed, stale,
                   restored, outside, clicked>>

OpenMessage(c, m) ==
    /\ reader = None /\ listed # None /\ m \in listed
    /\ Ask(c, [Idle EXCEPT !.kind = "open", !.msg = m])
    /\ UNCHANGED <<home, folder, listed, ticked, reader, bulkBusy, crossed,
                   stale, restored, outside>>

CloseReader ==
    /\ reader # None /\ reader' = None
    /\ UNCHANGED <<home, folder, listed, ticked, bulkBusy, call, crossed, stale,
                   restored, outside, clicked>>

\* What is offered for a message: in the list by the tab, in the reader by
\* the folder it was last heard to be in.
InTrash(m) ==
    \/ reader = None /\ listed # None /\ m \in listed /\ folder = "TRASH"
    \/ reader # None /\ reader.msg = m /\ reader.at = "TRASH"

NotInTrash(m) ==
    \/ reader = None /\ listed # None /\ m \in listed /\ folder # "TRASH"
    \/ reader # None /\ reader.msg = m /\ reader.at # "TRASH"

\* moveToFolder: deleting moves to the trash, restoring to the inbox.
MoveToFolder(c, m) ==
    /\ \E at \in {"TRASH", "INBOX"} :
          /\ IF at = "TRASH" THEN NotInTrash(m) ELSE InTrash(m)
          /\ Ask(c, [Idle EXCEPT !.kind = "move", !.at = at, !.msg = m])
    /\ UNCHANGED <<home, folder, listed, ticked, reader, bulkBusy, crossed,
                   stale, restored, outside>>

PermanentlyDelete(c, m) ==
    /\ InTrash(m)
    /\ Ask(c, [Idle EXCEPT !.kind = "erase", !.msg = m])
    /\ restored' = IF crossed /\ reader = None THEN restored \cup {m}
                   ELSE restored
    /\ UNCHANGED <<home, folder, listed, ticked, reader, bulkBusy, crossed,
                   stale, outside>>

EmptyTrash(c) ==
    /\ reader = None /\ folder = "TRASH" /\ ~bulkBusy
    /\ Ask(c, [Idle EXCEPT !.kind = "empty", !.at = folder])
    /\ bulkBusy' = TRUE
    /\ UNCHANGED <<home, folder, listed, ticked, reader, crossed, stale,
                   restored, outside>>

BulkTrash(c) ==
    /\ reader = None /\ ticked # {} /\ ~bulkBusy
    /\ Ask(c, [Idle EXCEPT !.kind = "trash", !.at = folder, !.got = ticked])
    /\ bulkBusy' = TRUE
    /\ UNCHANGED <<home, folder, listed, ticked, reader, crossed, stale,
                   restored, outside>>

-----------------------------------------------------------------------------
(* The API.                                                                *)

Moved(ms, f) ==
    home' = [m \in Messages |-> IF m \in ms /\ home[m] # None THEN f ELSE home[m]]

\* The API serves call c.
Serve(c) ==
    LET r == call[c] IN
    /\ r.kind # "idle" /\ r.pc = "asked"
    /\ r.msg # None => home[r.msg] # None
    /\ r.kind = "trash" => \A m \in r.got : home[m] # None
    /\ CASE r.kind = "move" -> Moved({r.msg}, r.at)
         [] r.kind = "trash" -> Moved(r.got, "TRASH")
         [] r.kind = "erase" -> Moved({r.msg}, None)
         [] r.kind = "empty" -> Moved(In("TRASH"), None)
         [] OTHER -> home' = home
    /\ call' = [call EXCEPT ![c].pc = "answered",
          ![c].got = IF r.kind = "load" THEN In(r.at) ELSE {},
          ![c].at = IF r.kind = "open" THEN home[r.msg] ELSE r.at]
    /\ restored' = IF r.kind = "move" /\ r.at # "TRASH"
                   THEN restored \cup {r.msg} ELSE restored
    /\ outside' = IF r.kind = "erase" /\ home[r.msg] # "TRASH"
                  THEN outside \cup {r.msg} ELSE outside
    /\ stale' = (stale \/ r.kind = "move"
                   \/ (r.kind \notin {"load", "open"} /\ Loading # {}))
    /\ UNCHANGED <<folder, listed, ticked, reader, bulkBusy, crossed, clicked>>

\* A call fails; of several messages some may have been moved.  Only a load
\* shows the error.
Fail(c) ==
    LET r == call[c] IN
    /\ r.kind # "idle" /\ r.pc = "asked"
    /\ \E ms \in SUBSET r.got : Moved(ms, "TRASH")
    /\ call' = [call EXCEPT ![c] = Idle]
    /\ bulkBusy' = (bulkBusy /\ r.kind \notin {"empty", "trash"})
    /\ stale' = TRUE
    /\ UNCHANGED <<folder, listed, ticked, reader, crossed, restored, outside,
                   clicked>>

-----------------------------------------------------------------------------
(* The answers.                                                            *)

Answered(c, kind) == call[c].kind = kind /\ call[c].pc = "answered"

Loaded(c) ==
    /\ Answered(c, "load") /\ listed' = call[c].got
    /\ call' = [call EXCEPT ![c] = Idle]
    /\ crossed' = (Loading \ {c} # {} \/ call[c].at # folder)
    /\ UNCHANGED <<home, folder, ticked, reader, bulkBusy, stale, restored,
                   outside, clicked>>

Opened(c) ==
    /\ Answered(c, "open")
    /\ reader' = [msg |-> call[c].msg, at |-> call[c].at]
    /\ call' = [call EXCEPT ![c] = Idle]
    /\ UNCHANGED <<home, folder, listed, ticked, bulkBusy, crossed, stale,
                   restored, outside, clicked>>

\* A mutant of MovedIn: the reader is not told.
MovedInList(m, f) == reader

\* The row stays in the list; the reader, if it shows the message, is told.
MovedIn(m, f) ==
    IF reader # None /\ reader.msg = m THEN [reader EXCEPT !.at = f] ELSE reader

MovedOne(c) ==
    /\ Answered(c, "move") /\ reader' = MovedIn(call[c].msg, call[c].at)
    /\ call' = [call EXCEPT ![c] = Idle]
    /\ UNCHANGED <<home, folder, listed, ticked, bulkBusy, crossed, stale,
                   restored, outside, clicked>>

Erased(c) ==
    /\ Answered(c, "erase")
    /\ listed' = IF listed = None THEN None ELSE listed \ {call[c].msg}
    /\ reader' = IF reader # None /\ reader.msg = call[c].msg
                 THEN None ELSE reader
    /\ call' = [call EXCEPT ![c] = Idle]
    /\ UNCHANGED <<home, folder, ticked, bulkBusy, crossed, stale, restored,
                   outside, clicked>>

\* load() is that of the render in which the button was clicked.
ActedOnSeveral(c) ==
    /\ Answered(c, "empty") \/ Answered(c, "trash")
    /\ bulkBusy' = FALSE
    /\ ticked' = IF call[c].kind = "trash" THEN {} ELSE ticked
    /\ UNCHANGED <<folder, listed>> /\ StartLoad(c, call[c].at)
    /\ UNCHANGED <<home, reader, restored, outside, clicked>>

Next ==
    \/ CloseReader
    \/ \E m \in Messages : Tick(m)
    \/ \E c \in Calls :
          \/ \E f \in Tabs : SelectTab(c, f)
          \/ \E m \in Messages : OpenMessage(c, m) \/ MoveToFolder(c, m)
                                    \/ PermanentlyDelete(c, m)
          \/ EmptyTrash(c) \/ BulkTrash(c) \/ Serve(c) \/ Fail(c)
          \/ Loaded(c) \/ Opened(c) \/ MovedOne(c) \/ Erased(c)
          \/ ActedOnSeveral(c)

Spec == Init /\ [][Next]_vars

-----------------------------------------------------------------------------
(* Properties.                                                             *)

Quiet == \A c \in Calls : call[c] = Idle

(* Only what is in the trash is deleted for good, but for a message that   *)
(* was once restored, and whose row the list keeps, and for a list that    *)
(* another tab's may have replaced.                                        *)
ErasedFromTrash == outside \subseteq restored

(* When no call is in flight the list is what the tab's folder holds,      *)
(* unless two loads crossed or something was moved or failed since; and    *)
(* the reader shows what was clicked last and knows where it is, unless    *)
(* two calls crossed.                                                      *)
PageSettles ==
    Quiet =>
        /\ listed # None /\ ~crossed /\ ~stale => listed = In(folder)
        /\ reader # None /\ clicked # None =>
             reader.msg = clicked /\ home[clicked] \in {reader.at, None}
-----------------------------------------------------------------------------
(* The inductive invariant.  What was once seen in the trash is there, is  *)
(* deleted, or was restored; a load that nothing crossed brings what its   *)
(* folder holds, and so does the list but for what was deleted and is      *)
(* still to leave it; and while one call at a time is made of a message,   *)
(* the reader or the answer to come knows where the message is.            *)

Shapes ==
    \A c \in Calls :
        /\ call[c].kind = "idle" => call[c] = Idle
        /\ call[c].msg # None <=> call[c].kind \in {"open", "move", "erase"}
        /\ call[c].kind \in {"load", "move", "empty", "trash"} => call[c].at # None
        /\ call[c].kind = "open" /\ call[c].pc = "answered" => call[c].at # None
        /\ call[c].pc = "asked" /\ call[c].kind # "trash" => call[c].got = {}

Trashed(m) == home[m] \in {"TRASH", None} \/ m \in restored

TrashIsKnown ==
    /\ \A c \in Calls :
          /\ call[c].kind = "erase" => Trashed(call[c].msg)
          /\ call[c].kind \in {"open", "move"} /\ call[c].pc = "answered"
                /\ call[c].at = "TRASH" => Trashed(call[c].msg)
          /\ call[c].kind = "load" /\ call[c].at = "TRASH" =>
                \A m \in call[c].got : Trashed(m)
    /\ reader # None /\ reader.at = "TRASH" => Trashed(reader.msg)
    /\ folder = "TRASH" /\ listed # None /\ ~crossed =>
          \A m \in listed : Trashed(m)

LoadsAreFresh ==
    ~stale => \A c \in Loading :
        /\ Loading = {c}
        /\ call[c].pc = "answered" => call[c].got = In(call[c].at)

\* The messages deleted for good that are still to leave the list.
Leaving == {m \in Messages : \E c \in Calls :
               call[c].kind = "erase" /\ call[c].pc = "answered" /\ call[c].msg = m}

ListIsCurrent ==
    /\ \A m \in Leaving : home[m] = None
    /\ /\ listed # None /\ ~crossed /\ ~stale /\ Loading = {}
       /\ \A c \in Calls : call[c].kind \in {"empty", "trash"} => call[c].pc = "asked"
       => listed \ Leaving = In(folder)

\* What is asked of the mailbox, and not of a tab.
Asked == {c \in Calls : call[c].kind \notin {"idle", "load"}}

ReaderIsCurrent ==
    clicked # None =>
        /\ \A c, k \in Asked : c = k
        /\ reader # None => reader.msg = clicked
        /\ reader # None => \A c \in Asked : call[c].kind \in {"move", "erase"}
        /\ \A c \in Asked :
              /\ call[c].kind = "open" => call[c].msg = clicked
              /\ reader # None => call[c].msg = clicked
              /\ call[c].kind \in {"open", "move"} /\ call[c].pc = "answered" =>
                    home[call[c].msg] \in {call[c].at, None}
        /\ reader # None
              /\ (\A c \in Asked : call[c].kind = "move" => call[c].pc = "asked") =>
              home[clicked] \in {reader.at, None}

Inv ==
    /\ TypeOK
    /\ Shapes
    /\ TrashIsKnown
    /\ LoadsAreFresh
    /\ ListIsCurrent
    /\ ReaderIsCurrent
    /\ ErasedFromTrash
=============================================================================
