-------------------------------- MODULE Lists -------------------------------
(***************************************************************************)
(* A page that lists rows and acts on them.  The browser application has   *)
(* two dozen of them, and they differ in a few habits only: what disables  *)
(* the buttons of a row while a call is in flight, whether the answer is   *)
(* patched into the list or the list is read again, which list that is     *)
(* when another has been selected meanwhile, and what takes the list off   *)
(* the screen.  A page is the record of its habits, and one page is        *)
(* explored at a time; pages with the same habits are one.                 *)
(*                                                                         *)
(* The API serves each call when it gets to it, and the answers come back  *)
(* in any order; a failed call may have been served.  One browser acts on  *)
(* the rows.  Their content is one of two states: an account that is       *)
(* suspended or not, a request that is pending or decided, a folder or     *)
(* month a row is in.                                                      *)
(***************************************************************************)
CONSTANTS
    Rows,       \* rows that are listed or may be created (a bound)
    Calls,      \* calls of the page in flight at once (a bound)
    None        \* null, and the call that is none

NoneIsNoRow == None \notin Rows /\ None \notin {"on", "off"}

States == {"on", "off"}
Views == {"all", "on", "off"}

-----------------------------------------------------------------------------
(* The habits of the pages.                                                *)
(*   lock     what is disabled during an action: nothing, the row's own    *)
(*            buttons, those of the row acted on last (one id is kept for  *)
(*            the page, and forgotten with any answer), or all             *)
(*   after    an answer is patched in, or the list read again              *)
(*   views    the lists between which the user switches                    *)
(*   reads    a list read again is the one selected when the action was    *)
(*            "clicked" or the one selected "now"                          *)
(*   blank    what empties the list on the screen: a switch, any reading   *)
(*   hides    reading it again by hand takes the rows away meanwhile       *)
(*   newest   an answer is dropped if the list was asked for since         *)
(*   again    it is read again by hand, when it is opened or by polling    *)
(*   does     what can be done to a row; creating locks no row             *)
(*   reveals  where what a creation tells only once is kept                *)

Page == [lock : {"none", "row", "last", "all"}, after : {"patch", "reload"},
         views : {{"all"}, {"on", "off"}, {"all", "on"}},
         reads : {"now", "clicked"},
         blank : SUBSET {"switch", "reading"}, hides : BOOLEAN,
         newest : BOOLEAN, again : BOOLEAN,
         does : SUBSET {"set", "settle", "mark", "delete", "create", "keep"},
         reveals : {"nothing", "page", "form"}]

Patching == [lock |-> "none", after |-> "patch", views |-> {"all"},
             reads |-> "now", blank |-> {}, hides |-> FALSE,
             newest |-> FALSE, again |-> FALSE, does |-> {"create"},
             reveals |-> "nothing"]
Reloading == [Patching EXCEPT !.after = "reload"]

QrCodes == [Patching EXCEPT !.lock = "row", !.hides = TRUE, !.again = TRUE,
                            !.does = {"set", "delete", "create"}]
Signatures == [Patching EXCEPT !.lock = "row", !.does = {"settle", "create"},
                               !.reveals = "form"]
Memory == [Patching EXCEPT !.lock = "row", !.does = {"set", "delete", "create"}]
AiAgents == [Patching EXCEPT !.lock = "row", !.does = {"delete", "create"}]
Support == Patching
Passkeys == [Patching EXCEPT !.lock = "last", !.does = {"delete", "create"}]
ConnectedAccounts == [Patching EXCEPT !.lock = "last", !.does = {"delete"}]
NotificationBell == [Patching EXCEPT !.again = TRUE, !.does = {"mark"}]

Security == [Reloading EXCEPT !.lock = "last", !.does = {"delete", "create"}]
BusinessRequests == Reloading
Team == [Reloading EXCEPT !.lock = "all", !.does = {"delete", "create"},
                          !.reveals = "page"]
OAuthClients == [Reloading EXCEPT !.lock = "last", !.does = {"set", "create"},
                                  !.reveals = "page"]
SupportTickets == [Reloading EXCEPT !.lock = "last", !.does = {"settle"}]
UserManagement ==
    [Reloading EXCEPT !.lock = "last", !.views = {"all", "on"}, !.again = TRUE,
                      !.reads = "clicked", !.does = {"set", "keep"}]
RoleRequests == [Reloading EXCEPT !.lock = "last", !.again = TRUE,
                                  !.does = {"delete"}]
IdentityReviews == [RoleRequests EXCEPT !.again = FALSE]
ManageMembership == [Reloading EXCEPT !.lock = "all", !.does = {"settle"}]

Tasks == [Reloading EXCEPT !.views = {"on", "off"}, !.reads = "clicked",
            !.blank = {"switch"}, !.does = {"set", "delete", "create"}]
Calendar == [Tasks EXCEPT !.does = {"set", "delete", "create"}]
DriveFiles == [Tasks EXCEPT !.views = {"all", "on"},
                 !.blank = {"switch", "reading"}, !.does = {"delete", "create"}]
Bookmarks == [Reloading EXCEPT !.does = {"delete", "create"}]
Contacts == [Reloading EXCEPT !.does = {"set", "delete", "create"}]
Notes == Contacts
SpaceNotifications ==
    [Reloading EXCEPT !.newest = TRUE, !.again = TRUE, !.does = {"mark"}]

Pages == {QrCodes, Signatures, Memory, AiAgents, Support, Passkeys,
          ConnectedAccounts, NotificationBell, Security, BusinessRequests,
          Team, OAuthClients, SupportTickets, UserManagement, RoleRequests,
          IdentityReviews, ManageMembership, Tasks, Calendar, DriveFiles,
          Bookmarks, Contacts, Notes, SpaceNotifications}

-----------------------------------------------------------------------------
VARIABLES
    page,       \* the page, one of Pages
    server,     \* the state of each row at the API, null if there is none
    shown,      \* the same as the page has it
    hidden,     \* the rows are off the screen
    view,       \* the list selected
    busy,       \* rows whose buttons are disabled
    form,       \* the form for a new row is open
    call,       \* call[c]: what was asked, and its answer
    answers,    \* pairs of calls answered, the first served no later
    passed,     \* history: those a later answer overtook that it bears on
    newest,     \* the load asked for last
    astray,     \* history: the list may differ (see ListsTellTheTruth)
    released,   \* history: calls whose row was enabled before the answer
    unseen      \* history: what is told only once was told to no one

vars == <<page, server, shown, hidden, view, busy, form, call, answers, passed,
          newest, astray, released, unseen>>

Rowset == [Rows -> States \cup {None}]
NoRows == [r \in Rows |-> None]

\* to: the state asked for; got: the rows, as served.
Call == [op : {"idle", "load", "set", "settle", "mark", "delete", "create",
               "keep"},
         row : Rows \cup {None}, to : States \cup {None}, view : Views,
         ok : BOOLEAN, got : Rowset]

Idle == [op |-> "idle", row |-> None, to |-> None, view |-> "all",
         ok |-> FALSE, got |-> NoRows]

TypeOK ==
    /\ page \in Page /\ server \in Rowset /\ shown \in Rowset
    /\ hidden \in BOOLEAN /\ view \in Views /\ busy \subseteq Rows
    /\ form \in BOOLEAN /\ call \in [Calls -> Call]
    /\ answers \subseteq Calls \X Calls /\ passed \subseteq Calls
    /\ newest \in Calls \cup {None} /\ astray \in BOOLEAN
    /\ released \subseteq Calls /\ unseen \in BOOLEAN

\* What the list v holds.
Listed(v, rows) ==
    [r \in Rows |-> IF v = "all" \/ rows[r] = v THEN rows[r] ELSE None]

Load(v) == [Idle EXCEPT !.op = "load", !.view = v]

\* The page has just been opened, and asks for its list.
Init ==
    /\ page \in Pages /\ server \in Rowset /\ shown = NoRows
    /\ hidden = page.hides /\ busy = {} /\ form = FALSE
    /\ view \in page.views \cap {"all", "on"}
    /\ ("all" \in page.views => view = "all")
    /\ \E c \in Calls :
          /\ call = [k \in Calls |-> IF k = c THEN Load(view) ELSE Idle]
          /\ newest = c
    /\ answers = {} /\ passed = {} /\ released = {}
    /\ astray = FALSE /\ unseen = FALSE

Answered(c) == <<c, c>> \in answers
Unanswered(c) == call[c].op # "idle" /\ ~Answered(c)

\* The answers when that to c is the last, if there is none yet.
AnsweredLast(c) ==
    IF Answered(c) THEN answers
    ELSE answers \cup {<<k, c>> : k \in {j \in Calls : Answered(j)} \cup {c}}

-----------------------------------------------------------------------------
(* The user.                                                               *)

\* A mutant of Enabled: the buttons stay enabled.
EnabledAlways(r) == shown[r] # None /\ ~hidden

Enabled(r) == shown[r] # None /\ ~hidden /\ r \notin busy

\* The rows disabled by an action on r.
Disabled(r) ==
    CASE page.lock = "none" -> {}
      [] page.lock = "row" -> busy \cup {r}
      [] page.lock = "last" -> {r}
      [] OTHER -> Rows

\* A row is acted on.  What is asked for is the opposite of what is shown,
\* or nothing that shows in the list.
Act(c, op, r) ==
    /\ call[c].op = "idle" /\ op \in page.does \ {"create"}
    /\ Enabled(r)
    /\ op \in {"settle", "mark"} => shown[r] = "on"
    /\ call' = [call EXCEPT ![c] =
          [Idle EXCEPT !.op = op, !.row = r, !.view = view,
             !.to = CASE op = "delete" -> None
                      [] op = "keep" -> shown[r]
                      [] OTHER -> IF shown[r] = "on" THEN "off" ELSE "on"]]
    /\ busy' = Disabled(r)
    /\ released' = (released \cup {k \in Calls : call[k].row \in busy \ busy'})
                     \ {c}
    /\ UNCHANGED <<page, server, shown, hidden, view, form, answers, passed,
                   newest, astray, unseen>>

ToggleForm ==
    /\ "create" \in page.does /\ form' = ~form
    /\ UNCHANGED <<page, server, shown, hidden, view, busy, call, answers,
                   passed, newest, astray, released, unseen>>

\* The form disables its own button.
Create(c, r) ==
    /\ call[c].op = "idle" /\ form
    /\ server[r] = None /\ shown[r] = None
    /\ \A k \in Calls : call[k].op # "create" /\ call[k].row # r
    /\ page.lock = "all" => busy = {}
    /\ busy' = IF page.lock = "all" THEN Rows ELSE busy
    /\ call' = [call EXCEPT ![c] = [Idle EXCEPT !.op = "create", !.row = r,
                                                !.to = "on", !.view = view]]
    /\ UNCHANGED <<page, server, shown, hidden, view, form, answers, passed,
                   newest, astray, released, unseen>>

\* Another list is selected.
Switch(c, v) ==
    /\ v \in page.views \ {view} /\ call[c].op = "idle"
    /\ view' = v
    /\ call' = [call EXCEPT ![c] = Load(v)] /\ newest' = c
    /\ shown' = IF page.blank # {} THEN NoRows ELSE shown
    /\ UNCHANGED <<page, server, hidden, busy, form, answers, passed, astray,
                   released, unseen>>

\* The list is asked for again.  Rows that are hidden forget they were busy.
ReadAgain(c) ==
    /\ page.again /\ call[c].op = "idle"
    /\ call' = [call EXCEPT ![c] = Load(view)] /\ newest' = c
    /\ hidden' = page.hides
    /\ busy' = IF page.hides THEN {} ELSE busy
    /\ released' = released \cup {k \in Calls : call[k].row \in busy \ busy'}
    /\ UNCHANGED <<page, server, shown, view, form, answers, passed, astray,
                   unseen>>

-----------------------------------------------------------------------------
(* The API.                                                                *)

\* It refuses to act on a row that is gone, and to settle one twice.
Serve(c) ==
    /\ Unanswered(c)
    /\ LET r == call[c].row
           ok == \/ call[c].op \in {"load", "create"}
                 \/ call[c].op = "settle" /\ server[r] = "on"
                 \/ call[c].op \notin {"load", "create", "settle"}
                      /\ server[r] # None
       IN
       /\ server' = IF ok /\ call[c].op \notin {"load", "keep"}
                    THEN [server EXCEPT ![r] = call[c].to] ELSE server
       /\ call' = [call EXCEPT ![c].ok = ok,
             ![c].got = IF call[c].op = "load"
                        THEN Listed(call[c].view, server) ELSE NoRows]
    /\ answers' = AnsweredLast(c)
    /\ UNCHANGED <<page, shown, hidden, view, busy, form, passed, newest,
                   astray, released, unseen>>

\* A call fails, or its answer is lost: what was done by then shows in no
\* list that was read before.
Fail(c) ==
    /\ call[c].op # "idle"
    /\ Unanswered(c) \/ call[c].ok
    /\ call' = [call EXCEPT ![c].ok = FALSE]
    /\ answers' = AnsweredLast(c)
    /\ astray' = (astray \/ call[c].op \in {"load", "create"} \/ call[c].ok)
    /\ passed' = passed \cup {k \in Calls : call[k].op = "load"
                                             /\ Answered(k)}
    /\ UNCHANGED <<page, server, shown, hidden, view, busy, form, newest,
                   released, unseen>>

-----------------------------------------------------------------------------
(* The answers.                                                            *)

\* Calls whose answer that of c overtakes: of the same row, or of a list.
Overtaken(c) ==
    {k \in Calls \ {c} : /\ <<k, c>> \in answers
                         /\ \/ "load" \in {call[k].op, call[c].op}
                            \/ call[k].row = call[c].row}

Delivered(c) ==
    /\ Answered(c)
    /\ answers' = answers \cap ((Calls \ {c}) \X (Calls \ {c}))

\* An answer overtaken by one that is used bears on the list no more, but
\* for a page that drops it.
Loaded(c) ==
    LET used == call[c].ok /\ (page.newest => newest = c) IN
    /\ Delivered(c) /\ call[c].op = "load"
    /\ shown' = IF used THEN call[c].got ELSE shown
    /\ hidden' = FALSE
    /\ astray' = IF used THEN c \in passed \/ call[c].view # view
                 ELSE astray \/ newest = c
    /\ passed' = (IF used THEN passed \cup Overtaken(c) ELSE passed) \ {c}
    /\ call' = [call EXCEPT ![c] = Idle]
    /\ UNCHANGED <<page, server, view, busy, form, newest, released, unseen>>

\* The buttons an answer enables.
Enabling(c) ==
    CASE call[c].op = "create" /\ page.lock # "all" -> {}
      [] page.lock = "row" -> {call[c].row}
      [] OTHER -> busy

\* The form is closed by the answer to what was created in it, with what it
\* shows; what is kept by the page stays.
Revealed(c) ==
    unseen' = (unseen \/ (/\ call[c].op = "create" /\ call[c].ok /\ form
                          /\ page.reveals = "form" /\ ~form'))

\* A mutant of Patched: a row that is gone is left in the list.
PatchedButGone(c) ==
    IF call[c].op = "keep" \/ call[c].to = None \/ ~call[c].ok THEN shown
    ELSE [shown EXCEPT ![call[c].row] = call[c].to]

\* The row as the page has it after the answer to c.
Patched(c) ==
    LET r == call[c].row IN
    IF ~call[c].ok \/ (call[c].op # "create" /\ shown[r] = None) THEN shown
    ELSE [shown EXCEPT ![r] = call[c].to]

\* The list is read again if the call succeeded: the call that acted becomes
\* the one that reads, or else it is over.
Acted(c) ==
    /\ Delivered(c) /\ call[c].op # "load"
    /\ busy' = busy \ Enabling(c)
    /\ released' = (released \cup {k \in Calls :
                                     call[k].row \in busy \ busy'}) \ {c}
    /\ form' = (form /\ ~(call[c].op = "create" /\ call[c].ok))
    /\ Revealed(c)
    /\ LET reloads == page.after = "reload" /\ call[c].ok
           v == IF page.reads = "now" THEN view ELSE call[c].view
       IN
       /\ shown' = CASE page.after = "patch" -> Patched(c)
                     [] reloads /\ "reading" \in page.blank -> NoRows
                     [] OTHER -> shown
       /\ call' = [call EXCEPT ![c] = IF reloads THEN Load(v) ELSE Idle]
       /\ newest' = IF reloads THEN c ELSE newest
    /\ passed' = (IF page.after = "patch" THEN passed \cup Overtaken(c)
                  ELSE passed) \ {c}
    /\ astray' = \/ astray
                 \/ page.after = "patch" /\ c \in passed
                 \/ ~call[c].ok
    /\ UNCHANGED <<page, server, hidden, view>>

Next ==
    \/ ToggleForm
    \/ \E c \in Calls :
          \/ \E r \in Rows, op \in {"set", "settle", "mark", "delete", "keep"} :
                Act(c, op, r)
          \/ \E r \in Rows : Create(c, r)
          \/ \E v \in Views : Switch(c, v)
          \/ ReadAgain(c) \/ Serve(c) \/ Fail(c) \/ Loaded(c) \/ Acted(c)

Spec == Init /\ [][Next]_vars

-----------------------------------------------------------------------------
(* Properties.                                                             *)

Quiet == \A c \in Calls : call[c].op = "idle"

(* When no call is in flight the list on the screen is the one selected,   *)
(* as the API has it, unless since it was last read an answer came after   *)
(* another that was served later, a list came that is no longer selected,  *)
(* or a call failed or was refused.                                        *)
ListsTellTheTruth == Quiet /\ ~astray => shown = Listed(view, server)

(* Where actions disable a row, two of them are in flight for one row only *)
(* if the first had its row enabled early: by the answer to another, by an *)
(* action on another row or by the rows being hidden.  And no row stays    *)
(* disabled when no call is in flight.                                     *)
RowsActOnce ==
    /\ page.lock # "none" =>
         \A c, k \in Calls :
            /\ c # k /\ call[c].row = call[k].row /\ call[c].row # None
            /\ "create" \notin {call[c].op, call[k].op}
            => {c, k} \cap released # {}
    /\ Quiet => busy = {}

(* What the form says of the signing links: "we keep the panel open        *)
(* briefly to show the one-time signing links".  What a creation tells     *)
(* only once is seen by the user whose form is open when the answer comes. *)
(* The code does not keep this: the same answer closes the form.           *)
OnceShownIsSeen == ~unseen
-----------------------------------------------------------------------------
(* The invariant the properties follow from.                               *)

Acts(c) == call[c].op \notin {"idle", "load"}

(* Calls are answered one after another, and the answers that were         *)
(* overtaken are still to come.                                            *)
AnswersAreOrdered ==
    /\ \A c, k \in Calls :
          /\ <<c, k>> \in answers => Answered(c) /\ Answered(k)
          /\ Answered(c) /\ Answered(k) =>
                <<c, k>> \in answers \/ <<k, c>> \in answers
    /\ \A c \in Calls : /\ Answered(c) => call[c].op # "idle"
                        /\ call[c].ok \/ c \in passed => Answered(c)

(* What an action asks for, by its kind.  One row is created at a time, and *)
(* it is not there before the API has served the call.                     *)
CallsAreWhole ==
    \A c \in Calls :
       /\ IF Acts(c) THEN call[c].row \in Rows ELSE call[c].row = None
       /\ call[c].op = "create" => call[c].to = "on"
       /\ call[c].op = "delete" => call[c].to = None
       /\ call[c].op \in {"set", "settle", "mark"} => call[c].to # None
       /\ call[c].op = "create" =>
             /\ \A k \in Calls : call[k].op = "create" => k = c
             /\ Unanswered(c) => server[call[c].row] = None

(* A page that patches has one list, and does nothing that shows in none.  *)
PatchesOneList ==
    page.after = "patch" =>
       /\ page.views = {"all"} /\ page.blank = {} /\ ~page.newest
       /\ "keep" \notin page.does /\ view = "all"
       /\ \A c \in Calls : call[c].view = "all" /\ call[c].op # "keep"

(* The row of an action is disabled or was released, and rows are disabled *)
(* while an action is in flight whose answer enables them.                 *)
RowsAreHeld ==
    /\ page.lock # "none" =>
         /\ \A c \in Calls : Acts(c) /\ call[c].op # "create" =>
               c \in released \/ call[c].row \in busy
         /\ \A c, k \in Calls :
               /\ c # k /\ call[c].row = call[k].row
               /\ Acts(c) /\ call[c].op # "create"
               /\ Acts(k) /\ call[k].op # "create"
               => c \in released \/ k \in released
    /\ page.lock = "none" => busy = {}
    /\ page.lock = "row" =>
         \A r \in busy : \E k \in Calls :
            Acts(k) /\ call[k].op # "create" /\ call[k].row = r
    /\ busy # {} =>
         \E k \in Calls : Acts(k) /\ (call[k].op = "create" => page.lock = "all")

\* The answer to a load that the page will use is still to come.
Awaited(c) ==
    /\ call[c].op = "load" /\ (page.newest => newest = c)
    /\ Unanswered(c) \/ call[c].ok

\* The list will be read again, once the answer to c is there.
Rereads(c) == Awaited(c) \/ (Acts(c) /\ call[c].ok)

(* Where lists are read again: one that is not up to date is followed by   *)
(* a load, or an action that leads to one.                                 *)
ReadAgainInTime ==
    page.after = "reload" =>
       /\ \A c \in Calls :
             call[c].op = "load" /\ Awaited(c) /\ call[c].ok /\ c \notin passed
             => \/ call[c].got = Listed(call[c].view, server)
                \/ \E k \in Calls \ {c} : /\ Rereads(k)
                                          /\ Answered(k) => <<c, k>> \in answers
       /\ astray \/ shown = Listed(view, server) \/ \E k \in Calls : Rereads(k)

\* An action on r is answered.
Answers(k, r) == Acts(k) /\ Answered(k) /\ call[k].row = r

(* Where answers are patched in: what an answer says of a row is what the  *)
(* API has, or the answer to a later action on the row is still to come.   *)
PatchesAreFresh ==
    page.after = "patch" =>
       \A c \in Calls : call[c].ok /\ c \notin passed =>
          /\ Acts(c) => \/ call[c].to = server[call[c].row]
                        \/ \E k \in Calls \ {c} : /\ Answers(k, call[c].row)
                                                  /\ <<c, k>> \in answers
          /\ call[c].op = "load" =>
                \A r \in Rows : \/ call[c].got[r] = server[r]
                               \/ \E k \in Calls : /\ Answers(k, r)
                                                  /\ <<c, k>> \in answers

(* Nothing is done to a row after it was deleted, and before it is created. *)
RowsAreThere ==
    page.after = "patch" =>
       \A c \in Calls : call[c].ok =>
          /\ call[c].op = "delete" =>
                /\ server[call[c].row] = None
                /\ \A k \in Calls : call[k].row = call[c].row =>
                      /\ call[k].op = "create" => Answered(k)
                      /\ k # c /\ <<c, k>> \in answers => ~call[k].ok
          /\ call[c].op = "load" /\ c \notin passed =>
                \A r \in Rows :
                   \/ call[c].got[r] # None
                   \/ \E e \in Calls : /\ call[e].op = "create" /\ call[e].ok
                                       /\ call[e].row = r /\ <<c, e>> \in answers
                   \/ /\ server[r] = None
                      /\ \A k \in Calls :
                            /\ call[k].op \in {"set", "settle", "mark"}
                            /\ call[k].row = r /\ <<c, k>> \in answers
                            => ~call[k].ok

\* What is still to come tells of r.
Awaits(k, r) == Awaited(k) \/ Answers(k, r)

(* Where answers are patched in, unless the list is astray: a row is shown *)
(* as it is or an answer that tells of it is still to come, and what was   *)
(* done to a row finds it in the list.                                     *)
RowsAreShown ==
    page.after = "patch" /\ ~astray =>
       /\ \A r \in Rows : shown[r] = server[r] \/ \E k \in Calls : Awaits(k, r)
       /\ \A c \in Calls :
             /\ call[c].op \in {"set", "settle", "mark"}
             /\ call[c].ok /\ c \notin passed
             => \/ shown[call[c].row] # None
                \/ \E k \in Calls \ {c} :
                      \/ Awaited(k)
                      \/ /\ Answers(k, call[c].row)
                         /\ call[k].op = "create" \/ k \in passed \/ ~call[k].ok

Inv ==
    /\ TypeOK /\ AnswersAreOrdered /\ CallsAreWhole /\ PatchesOneList
    /\ RowsAreHeld /\ ReadAgainInTime /\ PatchesAreFresh /\ RowsAreThere
    /\ RowsAreShown
=============================================================================
