------------------------------ MODULE EventTimes ----------------------------
(***************************************************************************)
(* The times of a calendar event: stored as two instants, and typed as one *)
(* date and two times of day in a zone whose offset changes once.  The     *)
(* dialog converts by asking the browser once how an instant looks in the  *)
(* zone; and it shows an event by the date of its start alone, in the      *)
(* zone of the browser, which need not be the one it was created in.       *)
(*                                                                         *)
(* Hours stand for minutes: instants are hours since a midnight at UTC,    *)
(* and what a wall shows is hours since the midnight of its zone.          *)
(***************************************************************************)
EXTENDS Integers

CONSTANTS
    Days,       \* the dates that are typed (a bound)
    Hours,      \* the times of day that are typed (a bound)
    Zones,      \* zones: [before, after, change], the offset changes once
    None        \* null

\* Dates are those around the change, offsets less than half a day.
ZonesAreSound ==
    \A z \in Zones : /\ z.before \in -12..12 /\ z.after \in -12..12
                     /\ z.change \in Int

\* The fields take a date, of five (a bound), and a time of day.
TimesAreSound == Days # {} /\ Days \subseteq 0..4 /\ Hours \subseteq 0..23

Offset(z, i) == IF i < z.change THEN z.before ELSE z.after

\* What a wall in zone z shows at an instant.
Wall(z, i) == i + Offset(z, i)

Day(w) == w \div 24
Hour(w) == w % 24

VARIABLES
    event,      \* the event, null when there is none
    form,       \* the dialog that is open, null when none is
    moved       \* history: a save moved an event whose date, times and zone
                \* no one had touched, and nothing says why (see Explained)

vars == <<event, form, moved>>

\* Instants at which an event is kept (a bound).
Instants == 24..96
Event == [start : Instants, end : Instants]
Form == [zone : Zones, date : 0..4, from : 0..23, to : 0..23, edits : BOOLEAN,
         touched : BOOLEAN]

TypeOK ==
    /\ event \in Event \cup {None} /\ form \in Form \cup {None}
    /\ moved \in BOOLEAN

Init == event = None /\ form = None /\ moved = FALSE

\* A mutant of ToInstant: the correction is added.
ToInstantAway(z, w) == w + (Wall(z, w) - w)

\* zonedWallTimeToUtcIso: the instant is first taken for one at UTC, and
\* corrected by what the zone shows then.
ToInstant(z, w) == w - (Wall(z, w) - w)

At(f, hour) == 24 * f.date + hour

\* NewEventModal, filled in with the zone of the browser.
OpenNew(z) ==
    /\ form = None
    /\ form' = [zone |-> z, date |-> CHOOSE d \in Days : TRUE, from |-> 9,
                to |-> 10, edits |-> FALSE, touched |-> TRUE]
    /\ UNCHANGED <<event, moved>>

\* EditEventModal, filled in by utcIsoToZonedParts: of the end only the time
\* of day is kept.
OpenEdit(z) ==
    /\ form = None /\ event # None
    /\ form' = [zone |-> z, date |-> Day(Wall(z, event.start)),
                from |-> Hour(Wall(z, event.start)),
                to |-> Hour(Wall(z, event.end)),
                edits |-> TRUE, touched |-> FALSE]
    /\ UNCHANGED <<event, moved>>

\* Another zone leaves the times as they are typed.
Type ==
    /\ form # None
    /\ \/ \E d \in Days : form' = [form EXCEPT !.date = d, !.touched = TRUE]
       \/ \E h \in Hours : form' = [form EXCEPT !.from = h, !.touched = TRUE]
       \/ \E h \in Hours : form' = [form EXCEPT !.to = h, !.touched = TRUE]
       \/ \E z \in Zones : form' = [form EXCEPT !.zone = z, !.touched = TRUE]
    /\ UNCHANGED <<event, moved>>

\* A mutant of MayBeSaved: the times may be the same or in any order.
MayBeSavedAnyhow(f) == TRUE

MayBeSaved(f) == f.from < f.to

Start == ToInstant(form.zone, At(form, form.from))
End == ToInstant(form.zone, At(form, form.to))

\* An instant near which the offset of z changes.
NearChange(z, i) == z.before # z.after /\ i - z.change \in -12..12

\* It ends on another date than it starts, as the zone of the dialog has
\* it, or the offset of that zone changes within half a day of it.
Explained(z) ==
    \/ Day(Wall(z, event.start)) # Day(Wall(z, event.end))
    \/ NearChange(z, event.start) \/ NearChange(z, event.end)

\* The API refuses an event that ends before it starts.  The dialog stays
\* as it is when the times are wrong.
Save ==
    /\ form # None /\ MayBeSaved(form) /\ Start <= End
    /\ {Start, End} \subseteq Instants
    /\ event' = [start |-> Start, end |-> End]
    /\ moved' = (moved \/ (/\ form.edits /\ ~form.touched
                           /\ event' # event /\ ~Explained(form.zone)))
    /\ form' = None

Close == form # None /\ form' = None /\ UNCHANGED <<event, moved>>

Next ==
    \/ \E z \in Zones : OpenNew(z) \/ OpenEdit(z)
    \/ Type \/ Save \/ Close

Spec == Init /\ [][Next]_vars

-----------------------------------------------------------------------------
(* Properties.                                                             *)

(* Saving an event whose date, times and zone no one touched leaves it     *)
(* where it is, unless it ends on another date than it starts, as the      *)
(* browser's zone has it, or the offset changes within half a day of it.   *)
UntouchedEventsStay == ~moved

(* An event ends after it starts.  That the times typed are in order does  *)
(* not say so where the offset changes between them.                       *)
EventsEndAfterTheyStart ==
    event # None =>
        \/ event.start < event.end
        \/ \E z \in Zones : NearChange(z, event.start)

(* What the comment on the conversion says of it: "one pass is enough".  A *)
(* time that a zone shows is converted to an instant at which it does.     *)
(* The code does not keep this within hours of a change of the clocks.     *)
OnePassIsEnough ==
    form # None =>
        LET w == At(form, form.from) IN
        (\E i \in (w - 12)..(w + 12) : Wall(form.zone, i) = w)
            => Wall(form.zone, ToInstant(form.zone, w)) = w
-----------------------------------------------------------------------------
(* The inductive invariant.  A dialog that no one touched shows its event: *)
(* the date and the time of its start, and the time of its end.            *)

ShowsTheEvent(z) ==
    /\ event # None
    /\ At(form, form.from) = Wall(z, event.start)
    /\ form.date = Day(Wall(z, event.start))
    /\ form.to = Hour(Wall(z, event.end))

Inv ==
    /\ TypeOK /\ UntouchedEventsStay /\ EventsEndAfterTheyStart
    /\ form # None =>
          /\ form.edits /\ ~form.touched => ShowsTheEvent(form.zone)
=============================================================================
