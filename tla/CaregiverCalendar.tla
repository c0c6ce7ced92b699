-------------------------- MODULE CaregiverCalendar --------------------------
(***************************************************************************)
(* A caregiver's published availability, and the editor that replaces it.  *)
(*                                                                         *)
(* saveAvailability deletes the rows it sees and inserts the editor's, in  *)
(* one READ COMMITTED transaction: rows that another save commits after    *)
(* the delete has looked stay.                                             *)
(***************************************************************************)
EXTENDS Integers, FiniteSets

CONSTANTS
  Days,       \* days of the week that matter
  Dates,      \* dates that matter
  DayOf,      \* dayOfWeekFor: the day of each date
  Drafts,     \* what an editor may be made to show: [week, overrides]
  Tabs,       \* editors open at once
  MaxSaves    \* bound: saves ever sent

ASSUME CalendarAssumption == DayOf \in [Dates -> Days] /\ MaxSaves \in Nat

\* An exception the editor shows is about a date, or one not chosen yet.
ASSUME DraftsAssumption ==
  /\ "none" \notin Dates
  /\ \A draft \in Drafts : \A o \in draft.overrides : o.date \in Dates \cup {""}

VARIABLES
  calendar,    \* availability_slots of the caregiver: [save, slot]; a save inserts a slot once
  tab,         \* each editor, and the save it has sent
  saves,       \* saves sent so far
  lastSave,    \* history: the slots of the save that committed last
  interleaved  \* history: has a save committed between another's delete and commit?

calendarVars == <<calendar, tab, saves, lastSave, interleaved>>

----------------------------------------------------------------------------
(* Slots.  Times are hours, with 23:59 as the last one.                    *)

Hours == 0..24
EndOfDay == 24

Weekly(day, from, to) ==
  [day |-> day, date |-> "none", from |-> from, to |-> to, available |-> TRUE]
Override(date, from, to, available) ==
  [day |-> "none", date |-> date, from |-> from, to |-> to, available |-> available]

\* AvailabilitySlotSchema.
IsSlot(s) == s.to > s.from /\ (s.day = "none") # (s.date = "none")

SlotsForDate(slots, date) ==
  LET overrides == {s \in slots : s.date = date}
  IN  IF overrides # {} THEN overrides
      ELSE {s \in slots : s.date = "none" /\ s.day = DayOf[date]}

WindowCovered(slots, date, from, to) ==
  \E s \in SlotsForDate(slots, date) : s.available /\ s.from <= from /\ s.to >= to

\* The calendar's part of checkAvailability: no slots at all means open.
InsideCalendar(slots, date, from, to) == slots = {} \/ WindowCovered(slots, date, from, to)

\* What the request form warns of, from the slots its page was loaded with.
OutsideAvailability(slots, date, from, to) ==
  slots # {} /\ ~ WindowCovered(slots, date, from, to)

OpenRangesForDate(slots, date) ==
  {<<s.from, s.to>> : s \in {x \in SlotsForDate(slots, date) : x.available}}

SlotsOverlap(a, b) == a.from < b.to /\ b.from < a.to

----------------------------------------------------------------------------
(* The editor.                                                             *)

\* initWeek: the first weekly slot of each day; the database chooses which.
InitWeeks(slots) ==
  {week \in [Days -> {[enabled |-> FALSE, from |-> 9, to |-> 17]}
                     \cup {[enabled |-> s.available, from |-> s.from, to |-> s.to] : s \in slots}] :
     \A d \in Days :
       LET ofDay == {s \in slots : s.date = "none" /\ s.day = d}
       IN  IF ofDay = {} THEN week[d] = [enabled |-> FALSE, from |-> 9, to |-> 17]
           ELSE \E s \in ofDay :
                  week[d] = [enabled |-> s.available, from |-> s.from, to |-> s.to]}

\* A bug: only the dates with hours are shown.
InitOverridesOpen(slots) == {s \in slots : s.date # "none" /\ s.available}

InitOverrides(slots) == {s \in slots : s.date # "none"}

\* save(): disabled days, ranges that end before they start and overrides with no
\* date are dropped; a blocked date is sent as the whole day.
BuildSlots(draft) ==
  {Weekly(d, draft.week[d].from, draft.week[d].to) :
     d \in {x \in Days : draft.week[x].enabled /\ draft.week[x].to > draft.week[x].from}}
  \cup {IF o.available THEN o ELSE Override(o.date, 0, EndOfDay, FALSE) :
     o \in {x \in draft.overrides : x.date # "" /\ (x.available => x.to > x.from)}}

----------------------------------------------------------------------------
Published == {row.slot : row \in calendar}
Closed == [at |-> "closed"]

CalendarTypeOK ==
  /\ \A row \in calendar : row.save \in 1..MaxSaves /\ IsSlot(row.slot)
  /\ saves \in 0..MaxSaves
  /\ \A t \in Tabs : tab[t].at \in {"closed", "open", "sent", "deleted"}
  /\ interleaved \in BOOLEAN

CalendarInit ==
  /\ calendar = {}
  /\ tab = [t \in Tabs |-> Closed]
  /\ saves = 0
  /\ lastSave = {}
  /\ interleaved = FALSE

\* The page loads what is published.
OpenEditor(t) ==
  /\ tab[t] = Closed
  /\ \E week \in InitWeeks(Published) :
       tab' = [tab EXCEPT ![t] =
         [at |-> "open", draft |-> [week |-> week, overrides |-> InitOverrides(Published)]]]
  /\ UNCHANGED <<calendar, saves, lastSave, interleaved>>

EditDraft(t) ==
  /\ tab[t].at = "open"
  /\ \E draft \in Drafts : tab' = [tab EXCEPT ![t] = [at |-> "open", draft |-> draft]]
  /\ UNCHANGED <<calendar, saves, lastSave, interleaved>>

CloseEditor(t) ==
  /\ tab[t].at = "open"
  /\ tab' = [tab EXCEPT ![t] = Closed]
  /\ UNCHANGED <<calendar, saves, lastSave, interleaved>>

\* Sent; the button stays disabled until the answer.
Save(t) ==
  /\ tab[t].at = "open" /\ saves < MaxSaves
  /\ saves' = saves + 1
  /\ tab' = [tab EXCEPT ![t] = [at |-> "sent", draft |-> @.draft, save |-> saves + 1]]
  /\ UNCHANGED <<calendar, lastSave, interleaved>>

\* The delete looks: these rows will go when the save commits.
SaveDelete(t) ==
  /\ tab[t].at = "sent"
  /\ tab' = [tab EXCEPT ![t] =
       [at |-> "deleted", draft |-> @.draft, save |-> @.save, gone |-> calendar]]
  /\ UNCHANGED <<calendar, saves, lastSave, interleaved>>

\* A bug: the delete runs after the insert.
SaveCommitDeleting(t) ==
  /\ tab[t].at = "deleted"
  /\ calendar' = {}
  /\ lastSave' = BuildSlots(tab[t].draft)
  /\ tab' = [tab EXCEPT ![t] = [at |-> "open", draft |-> @.draft]]
  /\ UNCHANGED <<saves, interleaved>>

SaveCommit(t) ==
  /\ tab[t].at = "deleted"
  /\ LET slots == BuildSlots(tab[t].draft)
     IN  /\ calendar' = (calendar \ tab[t].gone)
                          \cup {[save |-> tab[t].save, slot |-> s] : s \in slots}
         /\ lastSave' = slots
  /\ tab' = [tab EXCEPT ![t] = [at |-> "open", draft |-> @.draft]]
  /\ interleaved' = (interleaved \/ \E u \in Tabs \ {t} : tab[u].at = "deleted")
  /\ UNCHANGED saves

SaveFails(t) ==
  /\ tab[t].at \in {"sent", "deleted"}
  /\ tab' = [tab EXCEPT ![t] = [at |-> "open", draft |-> @.draft]]
  /\ UNCHANGED <<calendar, saves, lastSave, interleaved>>

CalendarNext ==
  \E t \in Tabs :
    \/ OpenEditor(t) \/ EditDraft(t) \/ CloseEditor(t)
    \/ Save(t) \/ SaveDelete(t) \/ SaveCommit(t) \/ SaveFails(t)

CalendarSpec == CalendarInit /\ [][CalendarNext]_calendarVars

----------------------------------------------------------------------------
(* Properties.                                                             *)

\* What was saved last is published, whatever interleaves; and nothing else is,
\* unless a save committed between the delete and the commit of another.
LastSaveStands ==
  /\ lastSave \subseteq Published
  /\ ~ interleaved => Published = lastSave

\* An editor opened on a calendar that one save wrote, and saved untouched, sends
\* back the same calendar.
RoundTrip ==
  ~ interleaved =>
    \A week \in InitWeeks(Published) :
      BuildSlots([week |-> week, overrides |-> InitOverrides(Published)]) = Published

============================================================================
