----------------------------- MODULE PageProofs -----------------------------
(***************************************************************************)
(* Proofs about what the owner of a profile keeps there: a family's        *)
(* children, a caregiver's calendar, an employer's employees; about the    *)
(* limiter of the login page; and about the connections that the           *)
(* transactions of a page take.  Each holds for any number of tabs and     *)
(* calls under way, and any limit.                                         *)
(***************************************************************************)
EXTENDS FamilyChildren, CaregiverCalendar, EmployerAccounts, SignIn, ConnectionPool,
        FiniteSetTheorems, SequenceTheorems, TLAPS

----------------------------------------------------------------------------
(* A family's children.                                                    *)

\* A list short enough to be stored.
Fits(list) == IsFiniteSet(list) /\ Cardinality(list) <= MaxChildren

\* The stored list fits, and so does every list a call is about to write.
ListsFit ==
  /\ DOMAIN edit = Edits
  /\ Fits(children)
  /\ \A x \in Edits : edit[x].does \in {"store", "drop"} => Fits(edit[x].list)

LEMMA EmptyFits == Fits({})
BY FS_EmptySet, ChildrenAssumption DEF Fits

LEMMA FewerFit ==
  ASSUME NEW list, Fits(list), NEW c
  PROVE  Fits(list \ {c})
<1>1. IsFiniteSet(list \ {c}) /\ Cardinality(list \ {c}) <= Cardinality(list)
  BY FS_Subset DEF Fits
<1>2. Cardinality(list \ {c}) \in Nat /\ Cardinality(list) \in Nat
  BY <1>1, FS_CardinalityType DEF Fits
<1>3. QED
  BY <1>1, <1>2, ChildrenAssumption DEF Fits

LEMMA OneMoreFits ==
  ASSUME NEW list, IsFiniteSet(list), Cardinality(list) < MaxChildren, NEW c
  PROVE  Fits(list \cup {c})
<1>1. Cardinality(list) \in Nat
  BY FS_CardinalityType
<1>2. QED
  BY <1>1, FS_AddElement, ChildrenAssumption DEF Fits

LEMMA ReplacedFits ==
  ASSUME NEW list, Fits(list), NEW c \in list, NEW d
  PROVE  Fits((list \ {c}) \cup {d})
<1>1. /\ IsFiniteSet(list \ {c}) /\ Cardinality(list) \in Nat
      /\ Cardinality(list \ {c}) = Cardinality(list) - 1
  BY FS_RemoveElement, FS_CardinalityType DEF Fits
<1>2. Cardinality(list \ {c}) < MaxChildren
  BY <1>1, ChildrenAssumption DEF Fits
<1>3. QED
  BY <1>1, <1>2, OneMoreFits

LEMMA WillWriteFits ==
  ASSUME ListsFit, NEW x \in Edits, NEW does, NEW child, NEW list, Fits(list),
         WillWrite(x, does, child, list)
  PROVE  ListsFit'
BY DEF ListsFit, WillWrite

LEMMA ListsStep ==
  ASSUME ListsFit, [ChildrenNext]_childVars
  PROVE  ListsFit'
<1>1. ASSUME NEW x \in Edits, CreateProfile(x) \/ CreateProfileInsert(x) \/ EditFails(x)
      PROVE  ListsFit'
  BY <1>1 DEF CreateProfile, CreateProfileInsert, EditFails, ListsFit, AtRest
<1>2. ASSUME NEW x \in Edits, AddChild(x)
      PROVE  ListsFit'
  <2>1. PICK child : WillWrite(x, "store", child, children \cup {child})
    BY <1>2 DEF AddChild
  <2>2. Fits(children \cup {child})
    BY <1>2, OneMoreFits DEF AddChild, ListsFit, Fits
  <2>3. QED
    BY <2>1, <2>2, WillWriteFits
<1>3. ASSUME NEW x \in Edits, NEW c \in children, UpdateChild(x, c)
      PROVE  ListsFit'
  <2>1. PICK child : WillWrite(x, "store", child, (children \ {c}) \cup {child})
    BY <1>3 DEF UpdateChild
  <2>2. Fits((children \ {c}) \cup {child})
    BY ReplacedFits DEF ListsFit
  <2>3. QED
    BY <2>1, <2>2, WillWriteFits
<1>4. ASSUME NEW x \in Edits, NEW c \in children, RemoveChild(x, c)
      PROVE  ListsFit'
  <2>1. Fits(children \ {c})
    BY FewerFit DEF ListsFit
  <2>2. QED
    BY <1>4, <2>1, WillWriteFits DEF RemoveChild
<1>5. ASSUME NEW x \in Edits, WriteChildren(x)
      PROVE  ListsFit'
  BY <1>5 DEF WriteChildren, ListsFit, AtRest
<1>6. CASE UNCHANGED childVars
  BY <1>6 DEF childVars, ListsFit
<1>7. QED
  BY <1>1, <1>2, <1>3, <1>4, <1>5, <1>6 DEF ChildrenNext

\* addChild checks the limit on the list it read, and every call writes a whole list:
\* however the calls overlap and fail, the stored list keeps the limit.
THEOREM ChildLimitKept == ChildrenSpec => []ChildLimit
<1>1. ChildrenInit => ListsFit
  BY EmptyFits DEF ChildrenInit, ListsFit, AtRest
<1>2. ListsFit => ChildLimit
  BY DEF ListsFit, Fits, ChildLimit
<1>3. QED
  BY <1>1, <1>2, ListsStep, PTL DEF ChildrenSpec

\* While edits come one at a time: the list under way is the stored one with its own
\* child put in or taken out; an id is one child's, and older than the next.
Without(id) == {c \in children : c.id # id}

ListDue(q) ==
  /\ q.child.id \in 1..(nextChild - 1)
  /\ q.list = Without(q.child.id) \cup (IF q.does = "store" THEN {q.child} ELSE {})

OneList ==
  \A x, y \in Edits :
    edit[x].does \in {"store", "drop"} /\ edit[y].does \in {"store", "drop"} => x = y

ListsCurrent ==
  /\ children = promised
  /\ \A c \in children : c \in Child /\ c.id \in 1..(nextChild - 1)
  /\ \A c, d \in children : c.id = d.id => c = d
  /\ OneList
  /\ \A x \in Edits : edit[x].does \in {"store", "drop"} =>
       edit[x].child \in Child /\ ListDue(edit[x])

ListsInTurn ==
  /\ DOMAIN edit = Edits
  /\ nextChild \in Nat \ {0}
  /\ ~ overlapped => ListsCurrent

\* A call that neither starts nor ends an edit, and one that ends without writing.
LEMMA ListsAside ==
  ASSUME ListsInTurn, UNCHANGED <<children, nextChild, promised, overlapped>>,
         NEW x \in Edits, NEW q, q.does \notin {"store", "drop"},
         edit' = [edit EXCEPT ![x] = q]
  PROVE  ListsInTurn'
<1>1. /\ DOMAIN edit' = Edits
      /\ \A y \in Edits : edit'[y] = IF y = x THEN q ELSE edit[y]
  BY DEF ListsInTurn
<1>2. ASSUME ~ overlapped PROVE ListsCurrent'
  BY <1>1, <1>2 DEF ListsInTurn, ListsCurrent, OneList, ListDue, Without
<1>3. QED
  BY <1>1, <1>2 DEF ListsInTurn

\* A call that has read the list, and nobody else's edit is under way.
LEMMA ListsBegin ==
  ASSUME ListsInTurn, NEW x \in Edits, edit[x] = AtRest,
         NEW does \in {"store", "drop"}, NEW child \in Child, NEW list,
         WillWrite(x, does, child, list), nextChild' \in Nat, nextChild <= nextChild',
         child.id \in 1..(nextChild' - 1),
         ~ overlapped => list = Without(child.id) \cup (IF does = "store" THEN {child} ELSE {})
  PROVE  ListsInTurn'
<1>1. PICK q : q = [does |-> does, child |-> child, list |-> list]
  OBVIOUS
<1>2. /\ DOMAIN edit' = Edits /\ nextChild' \in Nat \ {0}
      /\ \A y \in Edits : edit'[y] = IF y = x THEN q ELSE edit[y]
      /\ UNCHANGED <<children, promised>>
  BY <1>1 DEF ListsInTurn, WillWrite
<1>3. ASSUME ~ overlapped' PROVE ListsCurrent'
  <2>1. ~ overlapped /\ \A y \in Edits \ {x} : edit[y].does \notin {"store", "drop"}
    BY <1>3 DEF WillWrite
  <2>2. OneList'
    BY <1>2, <2>1 DEF OneList
  <2>3. \A c \in children : c \in Child /\ c.id \in 1..(nextChild' - 1)
    BY <1>2, <2>1 DEF ListsInTurn, ListsCurrent
  <2>4. ListDue(q)'
    BY <1>1, <1>2, <2>1 DEF ListDue, Without
  <2>5. QED
    BY <1>1, <1>2, <2>1, <2>2, <2>3, <2>4 DEF ListsInTurn, ListsCurrent
<1>4. QED
  BY <1>2, <1>3 DEF ListsInTurn

LEMMA TurnsStep ==
  ASSUME ListsInTurn, [ChildrenNext]_childVars
  PROVE  ListsInTurn'
<1>1. ASSUME NEW x \in Edits, CreateProfile(x) \/ CreateProfileInsert(x) \/ EditFails(x)
      PROVE  ListsInTurn'
  <2>1. PICK q : q.does \notin {"store", "drop"} /\ edit' = [edit EXCEPT ![x] = q]
    BY <1>1 DEF CreateProfile, CreateProfileInsert, EditFails, AtRest
  <2>2. QED
    BY <1>1, <2>1, ListsAside DEF CreateProfile, CreateProfileInsert, EditFails
<1>2. ASSUME NEW x \in Edits, AddChild(x)
      PROVE  ListsInTurn'
  <2>1. PICK child : child = [id |-> nextChild, version |-> 1]
    OBVIOUS
  <2>2. child \in Child /\ child.id = nextChild /\ nextChild' = nextChild + 1
    BY <1>2, <2>1 DEF AddChild, Child
  <2>3. ~ overlapped => Without(nextChild) = children
    BY DEF ListsInTurn, ListsCurrent, Without
  <2>4. WillWrite(x, "store", child, children \cup {child})
    BY <1>2, <2>1 DEF AddChild
  <2>5. edit[x] = AtRest /\ nextChild \in Nat \ {0}
    BY <1>2 DEF AddChild, ListsInTurn
  <2>6. nextChild' \in Nat /\ nextChild <= nextChild' /\ child.id \in 1..(nextChild' - 1)
    BY <2>2, <2>5
  <2>7. ~ overlapped => children \cup {child}
                          = Without(child.id) \cup (IF "store" = "store" THEN {child} ELSE {})
    BY <2>2, <2>3
  <2>8. QED
    BY <2>2, <2>4, <2>5, <2>6, <2>7, ListsBegin
<1>3. ASSUME NEW c \in children
      PROVE  ~ overlapped => /\ c \in Child /\ c.id \in 1..(nextChild - 1)
                             /\ children \ {c} = Without(c.id)
  BY <1>3 DEF ListsInTurn, ListsCurrent, Without
<1>4. ASSUME NEW x \in Edits, NEW c \in children, NEW does, NEW child, NEW list,
             WillWrite(x, does, child, list), edit[x] = AtRest, UNCHANGED nextChild,
             ~ overlapped => /\ does \in {"store", "drop"} /\ child \in Child /\ child.id = c.id
                             /\ list = Without(c.id) \cup (IF does = "store" THEN {child} ELSE {})
      PROVE  ListsInTurn'
  <2>1. CASE overlapped
    BY <1>4, <2>1 DEF WillWrite, ListsInTurn
  <2>2. CASE ~ overlapped
    <3>1. nextChild' \in Nat /\ nextChild <= nextChild' /\ child.id \in 1..(nextChild' - 1)
      BY <1>3, <1>4, <2>2 DEF ListsInTurn
    <3>2. does \in {"store", "drop"} /\ child \in Child /\ edit[x] = AtRest
          /\ WillWrite(x, does, child, list)
      BY <1>4, <2>2
    <3>3. ~ overlapped => list = Without(child.id) \cup (IF does = "store" THEN {child} ELSE {})
      BY <1>4, <2>2
    <3>4. QED
      BY <3>1, <3>2, <3>3, ListsBegin
  <2>3. QED
    BY <2>1, <2>2
<1>5. ASSUME NEW x \in Edits, NEW c \in children, UpdateChild(x, c)
      PROVE  ListsInTurn'
  <2>1. PICK child : child = [c EXCEPT !.version = 2]
    OBVIOUS
  <2>2. c \in Child => child \in Child /\ child.id = c.id
    BY <2>1 DEF Child
  <2>3. /\ WillWrite(x, "store", child, (children \ {c}) \cup {child})
        /\ edit[x] = AtRest /\ UNCHANGED nextChild
    BY <1>5, <2>1 DEF UpdateChild
  <2>4. QED
    BY <1>3, <1>4, <2>2, <2>3
<1>6. ASSUME NEW x \in Edits, NEW c \in children, RemoveChild(x, c)
      PROVE  ListsInTurn'
  <2>1. WillWrite(x, "drop", c, children \ {c}) /\ edit[x] = AtRest /\ UNCHANGED nextChild
    BY <1>6 DEF RemoveChild
  <2>2. QED
    BY <1>3, <1>4, <2>1
<1>7. ASSUME NEW x \in Edits, WriteChildren(x)
      PROVE  ListsInTurn'
  <2>1. PICK q : q = edit[x]
    OBVIOUS
  <2>2. /\ q.does \in {"store", "drop"} /\ children' = q.list
        /\ promised' = {c \in promised : c.id # q.child.id}
                         \cup (IF q.does = "store" THEN {q.child} ELSE {})
        /\ UNCHANGED <<nextChild, overlapped>>
    BY <1>7, <2>1 DEF WriteChildren
  <2>3. /\ DOMAIN edit' = Edits
        /\ \A y \in Edits : edit'[y] = IF y = x THEN AtRest ELSE edit[y]
    BY <1>7 DEF WriteChildren, ListsInTurn
  <2>4. ASSUME ~ overlapped PROVE ListsCurrent'
    <3>1. q.child \in Child /\ ListDue(q) /\ children = promised
      BY <2>1, <2>2, <2>4 DEF ListsInTurn, ListsCurrent
    <3>2. \A y \in Edits : edit'[y].does \notin {"store", "drop"}
      BY <2>1, <2>2, <2>3, <2>4 DEF ListsInTurn, ListsCurrent, OneList, AtRest
    <3>3. children' = Without(q.child.id) \cup (IF q.does = "store" THEN {q.child} ELSE {})
      BY <2>2, <3>1 DEF ListDue
    <3>4. children' = promised'
      BY <2>2, <3>1, <3>3 DEF Without
    <3>5. /\ \A c \in children' : c \in Child /\ c.id \in 1..(nextChild - 1)
          /\ \A c, d \in children' : c.id = d.id => c = d
      BY <2>4, <3>1, <3>3 DEF ListsInTurn, ListsCurrent, ListDue, Without
    <3>6. QED
      BY <2>2, <3>2, <3>4, <3>5 DEF ListsCurrent, OneList
  <2>5. QED
    BY <2>2, <2>3, <2>4 DEF ListsInTurn
<1>8. CASE UNCHANGED childVars
  BY <1>8 DEF childVars, ListsInTurn, ListsCurrent, OneList, ListDue, Without
<1>9. QED
  BY <1>1, <1>2, <1>5, <1>6, <1>7, <1>8 DEF ChildrenNext

\* addChild, updateChild, removeChild: until two of them overlap, the stored list is
\* exactly what the family was told, calls that fail included.
THEOREM ChildrenAreKept == ChildrenSpec => []ChildrenKeptInTurn
<1>1. ChildrenInit => ListsInTurn
  BY DEF ChildrenInit, ListsInTurn, ListsCurrent, OneList, AtRest
<1>2. ListsInTurn => ChildrenKeptInTurn
  BY DEF ListsInTurn, ListsCurrent, ChildrenKeptInTurn
<1>3. QED
  BY <1>1, <1>2, TurnsStep, PTL DEF ChildrenSpec

----------------------------------------------------------------------------
(* A caregiver's calendar.                                                 *)

\* While no save has committed inside another, a save that has looked for the rows to
\* delete has seen all there are.
SavesSee ==
  /\ DOMAIN tab = Tabs
  /\ ~ interleaved => \A t \in Tabs : tab[t].at = "deleted" => tab[t].gone = calendar

CalendarInv == SavesSee /\ LastSaveStands

LEMMA CalendarStep ==
  ASSUME CalendarInv, [CalendarNext]_calendarVars
  PROVE  CalendarInv'
<1>1. ASSUME NEW t \in Tabs, OpenEditor(t)
      PROVE  CalendarInv'
  <2>1. PICK q : /\ tab' = [tab EXCEPT ![t] = [at |-> "open", draft |-> q]]
                 /\ UNCHANGED <<calendar, lastSave, interleaved>>
    BY <1>1 DEF OpenEditor
  <2>2. QED
    BY <2>1 DEF CalendarInv, SavesSee, LastSaveStands, Published
<1>2. ASSUME NEW t \in Tabs, EditDraft(t)
      PROVE  CalendarInv'
  BY <1>2 DEF EditDraft, CalendarInv, SavesSee, LastSaveStands, Published
<1>3. ASSUME NEW t \in Tabs, CloseEditor(t) \/ Save(t) \/ SaveFails(t)
      PROVE  CalendarInv'
  BY <1>3 DEF CloseEditor, Closed, Save, SaveFails, CalendarInv, SavesSee, LastSaveStands, Published
<1>4. ASSUME NEW t \in Tabs, SaveDelete(t)
      PROVE  CalendarInv'
  BY <1>4 DEF SaveDelete, CalendarInv, SavesSee, LastSaveStands, Published
<1>5. ASSUME NEW t \in Tabs, SaveCommit(t)
      PROVE  CalendarInv'
  <2>1. PICK slots, new : /\ slots = BuildSlots(tab[t].draft)
                          /\ new = {[save |-> tab[t].save, slot |-> s] : s \in slots}
    OBVIOUS
  <2>2. /\ calendar' = (calendar \ tab[t].gone) \cup new
        /\ lastSave' = slots
        /\ tab' = [tab EXCEPT ![t] = [at |-> "open", draft |-> @.draft]]
        /\ interleaved' = (interleaved \/ \E u \in Tabs \ {t} : tab[u].at = "deleted")
    BY <1>5, <2>1 DEF SaveCommit
  <2>3. \A row \in new : row.slot \in slots
    BY <2>1
  <2>4. \A s \in slots : \E row \in new : row.slot = s
    <3>1. ASSUME NEW s \in slots PROVE \E row \in new : row.slot = s
      <4>1. [save |-> tab[t].save, slot |-> s] \in new
        BY <2>1
      <4>2. QED
        BY <4>1
    <3>2. QED
      BY <3>1
  <2>5. lastSave' \subseteq Published'
    BY <2>2, <2>4 DEF Published
  <2>6. ASSUME ~ interleaved'
        PROVE  Published' = lastSave' /\ \A u \in Tabs : tab'[u].at # "deleted"
    <3>1. ~ interleaved /\ \A u \in Tabs \ {t} : tab[u].at # "deleted"
      BY <2>2, <2>6
    <3>2. tab[t].gone = calendar
      BY <1>5, <3>1 DEF SaveCommit, CalendarInv, SavesSee
    <3>3. calendar' = new
      BY <2>2, <3>2
    <3>4. Published' = lastSave'
      BY <2>2, <2>3, <2>4, <3>3 DEF Published
    <3>5. \A u \in Tabs : tab'[u].at # "deleted"
      BY <2>2, <3>1 DEF CalendarInv, SavesSee
    <3>6. QED
      BY <3>4, <3>5
  <2>7. DOMAIN tab' = Tabs
    BY <2>2 DEF CalendarInv, SavesSee
  <2>8. QED
    BY <2>5, <2>6, <2>7 DEF CalendarInv, SavesSee, LastSaveStands
<1>6. CASE UNCHANGED calendarVars
  BY <1>6 DEF calendarVars, CalendarInv, SavesSee, LastSaveStands, Published
<1>7. QED
  BY <1>1, <1>2, <1>3, <1>4, <1>5, <1>6 DEF CalendarNext

\* saveAvailability: the last save's slots are always published, and alone unless two
\* saves overlapped.
THEOREM LastSaveIsPublished == CalendarSpec => []LastSaveStands
<1>1. CalendarInit => CalendarInv
  BY DEF CalendarInit, CalendarInv, SavesSee, LastSaveStands, Published, Closed
<1>2. CalendarInv => LastSaveStands
  BY DEF CalendarInv
<1>3. QED
  BY <1>1, <1>2, CalendarStep, PTL DEF CalendarSpec

\* What a save publishes: at most one range of each day, and of exceptions those with a
\* date, as a range or as the whole day blocked.
IsWeekly(s) == \E d \in Days : s = Weekly(d, s.from, s.to) /\ s.to > s.from

IsException(s) ==
  /\ s.date # "none" /\ s.date # ""
  /\ IF s.available THEN s.to > s.from ELSE s = Override(s.date, 0, EndOfDay, FALSE)

Saved(slots) ==
  /\ \A s \in slots : IsWeekly(s) \/ IsException(s)
  /\ \A s, t \in slots : IsWeekly(s) /\ IsWeekly(t) /\ s.day = t.day => s = t

\* The exceptions of every editor have a date, or none chosen yet.
DraftsDated ==
  \A t \in Tabs : tab[t].at # "closed" =>
    \A o \in tab[t].draft.overrides : o.date # "none"

LEMMA WeeklyFields ==
  ASSUME NEW s, NEW d, NEW from, NEW to, s = Weekly(d, from, to)
  PROVE  s.day = d /\ s.date = "none" /\ s.from = from /\ s.to = to /\ s.available = TRUE
BY DEF Weekly

LEMMA KindsApart ==
  ASSUME NEW s
  PROVE  /\ IsWeekly(s) => s.date = "none" /\ s.available = TRUE
         /\ IsException(s) => s.date # "none"
<1>1. ASSUME IsWeekly(s) PROVE s.date = "none" /\ s.available = TRUE
  <2>1. PICK d \in Days : s = Weekly(d, s.from, s.to)
    BY <1>1 DEF IsWeekly
  <2>2. QED
    BY <2>1, WeeklyFields
<1>2. QED
  BY <1>1 DEF IsException

\* The weekly part, and the exceptions, of what a draft sends.
WeeklyOf(week) ==
  {Weekly(d, week[d].from, week[d].to) :
     d \in {x \in Days : week[x].enabled /\ week[x].to > week[x].from}}

ExceptionsOf(overrides) ==
  {IF o.available THEN o ELSE Override(o.date, 0, EndOfDay, FALSE) :
     o \in {x \in overrides : x.date # "" /\ (x.available => x.to > x.from)}}

LEMMA BuildParts ==
  ASSUME NEW week, NEW overrides
  PROVE  BuildSlots([week |-> week, overrides |-> overrides])
           = WeeklyOf(week) \cup ExceptionsOf(overrides)
BY DEF BuildSlots, WeeklyOf, ExceptionsOf

LEMMA BuiltIsSaved ==
  ASSUME NEW draft, \A o \in draft.overrides : o.date # "none"
  PROVE  Saved(BuildSlots(draft))
<1>1. PICK W, X : W = WeeklyOf(draft.week) /\ X = ExceptionsOf(draft.overrides)
  OBVIOUS
<1>2. BuildSlots(draft) = W \cup X
  BY <1>1 DEF BuildSlots, WeeklyOf, ExceptionsOf
<1>3. ASSUME NEW s \in W
      PROVE  IsWeekly(s) /\ s.day \in Days
             /\ s = Weekly(s.day, draft.week[s.day].from, draft.week[s.day].to)
  <2>1. PICK d \in Days : /\ s = Weekly(d, draft.week[d].from, draft.week[d].to)
                          /\ draft.week[d].to > draft.week[d].from
    BY <1>1, <1>3 DEF WeeklyOf
  <2>2. s.day = d /\ s.from = draft.week[d].from /\ s.to = draft.week[d].to
    BY <2>1 DEF Weekly
  <2>3. QED
    BY <2>1, <2>2 DEF IsWeekly
<1>4. ASSUME NEW s \in X
      PROVE  IsException(s)
  <2>1. PICK o \in draft.overrides :
          /\ o.date # "" /\ (o.available => o.to > o.from)
          /\ s = IF o.available THEN o ELSE Override(o.date, 0, EndOfDay, FALSE)
    BY <1>1, <1>4 DEF ExceptionsOf
  <2>2. CASE o.available
    BY <2>1, <2>2 DEF IsException
  <2>3. CASE ~ o.available
    <3>1. s = Override(o.date, 0, EndOfDay, FALSE) /\ s.date = o.date /\ s.available = FALSE
      BY <2>1, <2>3 DEF Override
    <3>2. QED
      BY <2>1, <3>1 DEF IsException
  <2>4. QED
    BY <2>2, <2>3
<1>5. ASSUME NEW s \in W \cup X, NEW t \in W \cup X, IsWeekly(s), IsWeekly(t), s.day = t.day
      PROVE  s = t
  <2>1. s \in W /\ t \in W
    BY <1>4, <1>5, KindsApart
  <2>2. QED
    BY <1>3, <1>5, <2>1
<1>6. QED
  BY <1>2, <1>3, <1>4, <1>5 DEF Saved

\* The editor shows what is published so that sending it back changes nothing.
LEMMA SentBack ==
  ASSUME NEW slots, Saved(slots), NEW week \in InitWeeks(slots)
  PROVE  BuildSlots([week |-> week, overrides |-> InitOverrides(slots)]) = slots
<1>1. ASSUME NEW d \in Days
      PROVE  \/ /\ \A s \in slots : ~ (IsWeekly(s) /\ s.day = d)
                /\ week[d].enabled = FALSE
             \/ \E s \in slots : /\ IsWeekly(s) /\ s.day = d
                                 /\ week[d] = [enabled |-> s.available, from |-> s.from, to |-> s.to]
  <2>1. PICK ofDay : ofDay = {s \in slots : s.date = "none" /\ s.day = d}
    OBVIOUS
  <2>2. IF ofDay = {} THEN week[d] = [enabled |-> FALSE, from |-> 9, to |-> 17]
        ELSE \E s \in ofDay : week[d] = [enabled |-> s.available, from |-> s.from, to |-> s.to]
    BY <2>1 DEF InitWeeks
  <2>3. \A s \in slots : s \in ofDay <=> IsWeekly(s) /\ s.day = d
    BY <2>1, KindsApart DEF Saved
  <2>4. CASE ofDay = {}
    BY <2>2, <2>3, <2>4
  <2>5. CASE ofDay # {}
    BY <2>1, <2>2, <2>3, <2>5
  <2>6. QED
    BY <2>4, <2>5
<1>2. ASSUME NEW s \in slots, IsWeekly(s)
      PROVE  s \in WeeklyOf(week)
  <2>1. PICK d \in Days : s = Weekly(d, s.from, s.to) /\ s.to > s.from
    BY <1>2 DEF IsWeekly
  <2>2. s.day = d /\ s.available = TRUE
    BY <2>1 DEF Weekly
  <2>3. PICK t \in slots : /\ IsWeekly(t) /\ t.day = d
                           /\ week[d] = [enabled |-> t.available, from |-> t.from, to |-> t.to]
    BY <1>1, <1>2, <2>2
  <2>4. t = s
    BY <1>2, <2>2, <2>3 DEF Saved
  <2>5. week[d].enabled /\ week[d].from = s.from /\ week[d].to = s.to
    BY <2>2, <2>3, <2>4
  <2>6. QED
    BY <2>1, <2>5 DEF WeeklyOf
<1>3. ASSUME NEW s \in WeeklyOf(week)
      PROVE  s \in slots
  <2>1. PICK d \in Days : week[d].enabled /\ s = Weekly(d, week[d].from, week[d].to)
    BY <1>3 DEF WeeklyOf
  <2>2. PICK t \in slots : /\ IsWeekly(t) /\ t.day = d
                           /\ week[d] = [enabled |-> t.available, from |-> t.from, to |-> t.to]
    BY <1>1, <2>1
  <2>3. PICK c \in Days : t = Weekly(c, t.from, t.to)
    BY <2>2 DEF IsWeekly
  <2>4. c = d
    BY <2>2, <2>3 DEF Weekly
  <2>5. s = t
    BY <2>1, <2>2, <2>3, <2>4
  <2>6. QED
    BY <2>5
<1>4. ASSUME NEW s \in slots, IsException(s)
      PROVE  s \in ExceptionsOf(InitOverrides(slots))
  BY <1>4 DEF IsException, ExceptionsOf, InitOverrides
<1>5. ASSUME NEW s \in ExceptionsOf(InitOverrides(slots))
      PROVE  s \in slots
  <2>1. PICK o \in slots : /\ o.date # "none"
                           /\ s = IF o.available THEN o ELSE Override(o.date, 0, EndOfDay, FALSE)
    BY <1>5 DEF ExceptionsOf, InitOverrides
  <2>2. IsException(o)
    BY <2>1, KindsApart DEF Saved
  <2>3. s = o
    BY <2>1, <2>2 DEF IsException
  <2>4. QED
    BY <2>3
<1>6. WeeklyOf(week) \cup ExceptionsOf(InitOverrides(slots)) = slots
  BY <1>2, <1>3, <1>4, <1>5 DEF Saved
<1>7. QED
  BY <1>6, BuildParts

RoundInv == DOMAIN tab = Tabs /\ DraftsDated /\ Saved(lastSave)

LEMMA RoundStep ==
  ASSUME RoundInv, [CalendarNext]_calendarVars
  PROVE  RoundInv'
<1>1. ASSUME NEW t \in Tabs, NEW q, tab' = [tab EXCEPT ![t] = q], UNCHANGED lastSave,
             q.at # "closed" => \A o \in q.draft.overrides : o.date # "none"
      PROVE  RoundInv'
  <2>1. DOMAIN tab' = Tabs /\ \A u \in Tabs : tab'[u] = IF u = t THEN q ELSE tab[u]
    BY <1>1 DEF RoundInv
  <2>2. QED
    BY <1>1, <2>1 DEF RoundInv, DraftsDated
<1>2. ASSUME NEW t \in Tabs, OpenEditor(t)
      PROVE  RoundInv'
  <2>1. PICK week : tab' = [tab EXCEPT ![t] =
          [at |-> "open", draft |-> [week |-> week, overrides |-> InitOverrides(Published)]]]
    BY <1>2 DEF OpenEditor
  <2>2. \A o \in InitOverrides(Published) : o.date # "none"
    BY DEF InitOverrides
  <2>3. QED
    BY <1>1, <1>2, <2>1, <2>2 DEF OpenEditor
<1>3. ASSUME NEW t \in Tabs, EditDraft(t)
      PROVE  RoundInv'
  <2>1. PICK draft \in Drafts : tab' = [tab EXCEPT ![t] = [at |-> "open", draft |-> draft]]
    BY <1>3 DEF EditDraft
  <2>2. \A o \in draft.overrides : o.date # "none"
    BY DraftsAssumption
  <2>3. QED
    BY <1>1, <1>3, <2>1, <2>2 DEF EditDraft
<1>4. ASSUME NEW t \in Tabs, tab[t].at # "closed"
      PROVE  \A o \in tab[t].draft.overrides : o.date # "none"
  BY <1>4 DEF RoundInv, DraftsDated
<1>5. ASSUME NEW t \in Tabs, CloseEditor(t) \/ Save(t) \/ SaveDelete(t) \/ SaveFails(t)
      PROVE  RoundInv'
  <2>1. tab[t].at # "closed" /\ UNCHANGED lastSave
    BY <1>5 DEF CloseEditor, Save, SaveDelete, SaveFails
  <2>2. CASE CloseEditor(t)
    BY <1>1, <2>1, <2>2 DEF CloseEditor, Closed
  <2>3. CASE Save(t)
    <3>1. PICK q : q = [at |-> "sent", draft |-> tab[t].draft, save |-> saves + 1]
      OBVIOUS
    <3>2. tab' = [tab EXCEPT ![t] = q] /\ q.draft = tab[t].draft
      BY <2>3, <3>1 DEF Save
    <3>3. QED
      BY <1>1, <1>4, <2>1, <3>2
  <2>4. CASE SaveDelete(t)
    <3>1. PICK q : q = [at |-> "deleted", draft |-> tab[t].draft, save |-> tab[t].save,
                        gone |-> calendar]
      OBVIOUS
    <3>2. tab' = [tab EXCEPT ![t] = q] /\ q.draft = tab[t].draft
      BY <2>4, <3>1 DEF SaveDelete
    <3>3. QED
      BY <1>1, <1>4, <2>1, <3>2
  <2>5. CASE SaveFails(t)
    <3>1. PICK q : q = [at |-> "open", draft |-> tab[t].draft]
      OBVIOUS
    <3>2. tab' = [tab EXCEPT ![t] = q] /\ q.draft = tab[t].draft
      BY <2>5, <3>1 DEF SaveFails
    <3>3. QED
      BY <1>1, <1>4, <2>1, <3>2
  <2>6. QED
    BY <1>5, <2>2, <2>3, <2>4, <2>5
<1>6. ASSUME NEW t \in Tabs, SaveCommit(t)
      PROVE  RoundInv'
  <2>1. \A o \in tab[t].draft.overrides : o.date # "none"
    BY <1>4, <1>6 DEF SaveCommit
  <2>2. lastSave' = BuildSlots(tab[t].draft)
    BY <1>6 DEF SaveCommit
  <2>3. Saved(lastSave')
    BY <2>1, <2>2, BuiltIsSaved
  <2>4. PICK q : q = [at |-> "open", draft |-> tab[t].draft]
    OBVIOUS
  <2>5. DOMAIN tab' = Tabs /\ \A u \in Tabs : tab'[u] = IF u = t THEN q ELSE tab[u]
    BY <1>6, <2>4 DEF RoundInv, SaveCommit
  <2>6. DraftsDated'
    BY <2>1, <2>4, <2>5 DEF RoundInv, DraftsDated
  <2>7. QED
    BY <2>3, <2>5, <2>6 DEF RoundInv
<1>7. CASE UNCHANGED calendarVars
  BY <1>7 DEF calendarVars, RoundInv, DraftsDated
<1>8. QED
  BY <1>2, <1>3, <1>5, <1>6, <1>7 DEF CalendarNext

\* initWeek, initOverrides, save(): an editor opened on a calendar that one save wrote,
\* and saved untouched, sends back the same calendar.
THEOREM CalendarGoesRound == CalendarSpec => []RoundTrip
<1>1. CalendarInit => CalendarInv /\ RoundInv
  BY DEF CalendarInit, CalendarInv, SavesSee, LastSaveStands, Published, Closed, RoundInv,
         DraftsDated, Saved
<1>2. CalendarInv /\ RoundInv => RoundTrip
  BY SentBack DEF CalendarInv, LastSaveStands, RoundInv, RoundTrip
<1>3. QED
  BY <1>1, <1>2, CalendarStep, RoundStep, PTL DEF CalendarSpec

----------------------------------------------------------------------------
(* An employer's employees.                                                *)

\* Two calls on their way to enroll one e-mail, or one on its way for an e-mail that
\* is enrolled already, are calls that looked together.
LooksTold ==
  /\ DOMAIN form = Windows
  /\ \A w \in Windows : form[w].call = "enroll" =>
       \/ form[w].email \in twoAtOnce
       \/ /\ \A e \in employees : e.email # form[w].email
          /\ \A v \in Windows \ {w} :
               form[v].call = "enroll" => form[v].email # form[w].email

EnrolInv == LooksTold /\ EnrolledOnceInTurn

\* A tab that ends its call, or begins another than an enrolment, disturbs nothing.
LEMMA OtherCall ==
  ASSUME EnrolInv, NEW w \in Windows, NEW q, q.call # "enroll", form' = [form EXCEPT ![w] = q],
         UNCHANGED <<employees, twoAtOnce>>
  PROVE  EnrolInv'
<1>1. /\ DOMAIN form' = Windows /\ form'[w] = q
      /\ \A v \in Windows \ {w} : form'[v] = form[v]
  BY DEF EnrolInv, LooksTold
<1>2. LooksTold'
  BY <1>1 DEF EnrolInv, LooksTold
<1>3. QED
  BY <1>2 DEF EnrolInv, EnrolledOnceInTurn

LEMMA Replied ==
  ASSUME EnrolInv, NEW w \in Windows, NEW says, Reply(w, says),
         UNCHANGED <<employees, twoAtOnce>>
  PROVE  EnrolInv'
<1>1. PICK q : q = [view |-> form[w].view, call |-> "none", says |-> says]
  OBVIOUS
<1>2. form' = [form EXCEPT ![w] = q] /\ q.call # "enroll"
  BY <1>1 DEF Reply
<1>3. QED
  BY <1>2, OtherCall

LEMMA EnrolStep ==
  ASSUME EnrolInv, [EmployerNext]_employerVars
  PROVE  EnrolInv'
<1>1. ASSUME NEW w \in Windows, Refresh(w)
      PROVE  EnrolInv'
  <2>1. PICK q : q = [form[w] EXCEPT !.view = View]
    OBVIOUS
  <2>2. q.call = form[w].call
    BY <2>1
  <2>3. form' = [form EXCEPT ![w] = q]
    BY <1>1, <2>1 DEF Refresh
  <2>4. QED
    BY <1>1, <2>2, <2>3, OtherCall DEF Refresh, Ready
<1>2. ASSUME NEW w \in Windows, NEW b \in Budgets, CreateAccount(w, b) \/ SetBenefitBudget(w, b)
      PROVE  EnrolInv'
  <2>1. CASE SetBenefitBudget(w, b)
    BY <2>1, Replied DEF SetBenefitBudget
  <2>2. CASE CreateAccount(w, b) /\ budget # NoAccount
    BY <2>2, Replied DEF CreateAccount
  <2>3. CASE CreateAccount(w, b) /\ budget = NoAccount
    <3>1. PICK q : q = [view |-> form[w].view, call |-> "create", says |-> "", to |-> b]
      OBVIOUS
    <3>2. form' = [form EXCEPT ![w] = q] /\ q.call # "enroll"
      BY <2>3, <3>1 DEF CreateAccount
    <3>3. QED
      BY <2>3, <3>2, OtherCall DEF CreateAccount
  <2>4. QED
    BY <1>2, <2>1, <2>2, <2>3
<1>3. ASSUME NEW w \in Windows, CreateAccountInsert(w) \/ CallFails(w)
      PROVE  EnrolInv'
  BY <1>3, Replied DEF CreateAccountInsert, CallFails
<1>4. ASSUME NEW w \in Windows, NEW email \in Staff, EnrollEmployee(w, email)
      PROVE  EnrolInv'
  <2>1. CASE \E e \in employees : e.email = email
    BY <1>4, <2>1, Replied DEF EnrollEmployee
  <2>2. CASE \A e \in employees : e.email # email
    <3>0. PICK q : q = [view |-> form[w].view, call |-> "enroll", says |-> "", email |-> email]
      OBVIOUS
    <3>1. /\ employees' = employees
          /\ form'[w].call = "enroll" /\ form'[w].email = email
          /\ \A v \in Windows \ {w} : form'[v] = form[v]
          /\ DOMAIN form' = Windows
          /\ twoAtOnce' = IF \E v \in Windows \ {w} :
                               form[v].call = "enroll" /\ form[v].email = email
                          THEN twoAtOnce \cup {email} ELSE twoAtOnce
      <4>1. form' = [form EXCEPT ![w] = q] /\ employees' = employees
        BY <1>4, <2>2, <3>0 DEF EnrollEmployee
      <4>2. twoAtOnce' = IF \E v \in Windows \ {w} :
                              form[v].call = "enroll" /\ form[v].email = email
                         THEN twoAtOnce \cup {email} ELSE twoAtOnce
        BY <1>4, <2>2 DEF EnrollEmployee
      <4>3. QED
        BY <3>0, <4>1, <4>2 DEF EnrolInv, LooksTold
    <3>2. EnrolledOnceInTurn'
      BY <3>1 DEF EnrolInv, EnrolledOnceInTurn
    <3>3. LooksTold'
      BY <2>2, <3>1 DEF EnrolInv, LooksTold
    <3>4. QED
      BY <3>2, <3>3 DEF EnrolInv
  <2>3. QED
    BY <2>1, <2>2
<1>5. ASSUME NEW w \in Windows, EnrollEmployeeInsert(w)
      PROVE  EnrolInv'
  <2>1. PICK new : new = [row |-> Cardinality(employees) + 1, email |-> form[w].email,
                          active |-> TRUE]
    OBVIOUS
  <2>2. /\ employees' = employees \cup {new} /\ new.email = form[w].email
        /\ form'[w].call = "none"
        /\ \A v \in Windows \ {w} : form'[v] = form[v]
        /\ DOMAIN form' = Windows
        /\ twoAtOnce' = twoAtOnce
    BY <1>5, <2>1 DEF EnrollEmployeeInsert, Reply, EnrolInv, LooksTold
  <2>3. \/ form[w].email \in twoAtOnce
        \/ /\ \A e \in employees : e.email # form[w].email
           /\ \A v \in Windows \ {w} :
                form[v].call = "enroll" => form[v].email # form[w].email
    BY <1>5 DEF EnrollEmployeeInsert, EnrolInv, LooksTold
  <2>4. EnrolledOnceInTurn'
    BY <2>2, <2>3 DEF EnrolInv, EnrolledOnceInTurn
  <2>5. LooksTold'
    BY <2>2, <2>3 DEF EnrolInv, LooksTold
  <2>6. QED
    BY <2>4, <2>5 DEF EnrolInv
<1>6. ASSUME NEW w \in Windows, NEW x \in form[w].view.employees, SetEmployeeActive(w, x)
      PROVE  EnrolInv'
  <2>1. employees' = employees
    BY <1>6 DEF SetEmployeeActive, Updatable, EnrolledPolicies
  <2>2. QED
    BY <1>6, <2>1, Replied DEF SetEmployeeActive
<1>7. CASE UNCHANGED employerVars
  BY <1>7 DEF employerVars, EnrolInv, LooksTold, EnrolledOnceInTurn
<1>8. QED
  BY <1>1, <1>2, <1>3, <1>4, <1>5, <1>6, <1>7 DEF EmployerNext

\* enrollEmployee: an e-mail is enrolled twice only if two tabs looked together.
THEOREM EnrolledOnce == EmployerSpec => []EnrolledOnceInTurn
<1>1. ASSUME EmployerInit PROVE EnrolInv
  <2>1. DOMAIN form = Windows /\ employees = {} /\ \A w \in Windows : form[w].call = "none"
    BY <1>1 DEF EmployerInit, Shown
  <2>2. QED
    BY <2>1 DEF EnrolInv, LooksTold, EnrolledOnceInTurn
<1>2. EnrolInv => EnrolledOnceInTurn
  BY DEF EnrolInv
<1>3. QED
  BY <1>1, <1>2, EnrolStep, PTL DEF EmployerSpec

----------------------------------------------------------------------------
(* The login limiter, for every number of e-mails and of attempts under    *)
(* way, every number of failures allowed and every length of the window.   *)

\* The attempts that will still tell the limiter how they went.
Pending(e) ==
  {a \in Attempts : attempt[a].at \in {"looked", "verifying"} /\ attempt[a].email = e}

\* Each attempt under way may still add one failure; and only a lockout, which keeps
\* new attempts out, stands on as many failures as are allowed.
PendingCounted ==
  \A e \in Emails :
    /\ bucket[e].failures + Cardinality(Pending(e)) < MaxFailures + Cardinality(Attempts)
    /\ ~ bucket[e].locked => bucket[e].failures < MaxFailures

SignInInv == SignInTypeOK /\ PendingCounted

----------------------------------------------------------------------------
LEMMA PendingFinite ==
  ASSUME NEW e \in Emails
  PROVE  /\ IsFiniteSet(Pending(e))
         /\ Cardinality(Pending(e)) \in Nat /\ Cardinality(Attempts) \in Nat
         /\ Cardinality(Pending(e)) <= Cardinality(Attempts)
<1>1. Pending(e) \subseteq Attempts
  BY DEF Pending
<1>2. QED
  BY <1>1, FS_Subset, FS_CardinalityType, SignInAssumption

\* Looking at the limiter leaves a bucket with room for a failure, unless it is
\* locked out.
LEMMA LookedAtRoom ==
  ASSUME SignInInv, NEW e \in Emails, ~ LockedOut(e)
  PROVE  /\ LookedAt(e) \in [failures : Nat, locked : BOOLEAN, left : 0..Window]
         /\ LookedAt(e).failures < MaxFailures
         /\ ~ LookedAt(e).locked
BY SignInAssumption
   DEF SignInInv, SignInTypeOK, PendingCounted, LookedAt, LockedOut, Empty

LEMMA RecordedType ==
  ASSUME NEW b \in [failures : Nat, locked : BOOLEAN, left : 0..Window]
  PROVE  /\ Recorded(b) \in [failures : Nat, locked : BOOLEAN, left : 0..Window]
         /\ Recorded(b).failures = b.failures + 1
         /\ ~ Recorded(b).locked => Recorded(b).failures < MaxFailures
BY SignInAssumption DEF Recorded

\* What an attempt past the limiter looks like, and what its end does to the count.
LEMMA PendingAttempt ==
  ASSUME SignInInv, NEW a \in Attempts, attempt[a].at \in {"looked", "verifying"}
  PROVE  /\ attempt[a] \in [at : {"looked", "verifying"}, email : Emails, knows : BOOLEAN]
         /\ attempt[a].email \in Emails
         /\ a \in Pending(attempt[a].email)
BY DEF SignInInv, SignInTypeOK, Idle, Pending

LEMMA PendingEnds ==
  ASSUME SignInInv, NEW a \in Attempts, attempt[a].at \in {"looked", "verifying"},
         NEW e, e = attempt[a].email, Becomes(a, Idle)
  PROVE  /\ \A f \in Emails \ {e} : Pending(f)' = Pending(f)
         /\ Pending(e)' = Pending(e) \ {a}
         /\ Cardinality(Pending(e)') = Cardinality(Pending(e)) - 1
<1>1. e \in Emails /\ a \in Pending(e)
  BY PendingAttempt
<1>2. \A b \in Attempts : attempt'[b] = IF b = a THEN Idle ELSE attempt[b]
  BY DEF Becomes, SignInInv, SignInTypeOK
<1>3. \A f \in Emails : Pending(f)' = Pending(f) \ {a}
  BY <1>2 DEF Pending, Idle
<1>4. \A f \in Emails \ {e} : a \notin Pending(f)
  BY DEF Pending
<1>5. IsFiniteSet(Pending(e))
  BY <1>1, PendingFinite
<1>6. Cardinality(Pending(e) \ {a}) = Cardinality(Pending(e)) - 1
  BY <1>1, <1>5, FS_RemoveElement
<1>7. \A f \in Emails \ {e} : Pending(f)' = Pending(f)
  BY <1>3, <1>4
<1>8. Pending(e)' = Pending(e) \ {a}
  BY <1>1, <1>3
<1>9. QED
  BY <1>6, <1>7, <1>8

\* Where the buckets and the attempts past the limiter stay, so does the count.
LEMMA CountKept ==
  ASSUME PendingCounted, bucket' = bucket, \A e \in Emails : Pending(e)' = Pending(e)
  PROVE  PendingCounted'
BY DEF PendingCounted

\* An attempt gets past the limiter.
LEMMA LookStep ==
  ASSUME SignInInv, SignInTypeOK', NEW a \in Attempts, NEW e \in Emails, NEW knows \in BOOLEAN,
         attempt[a].at \notin {"looked", "verifying"}, ~ LockedOut(e),
         bucket' = [bucket EXCEPT ![e] = LookedAt(e)],
         Becomes(a, [at |-> "looked", email |-> e, knows |-> knows])
  PROVE  PendingCounted'
<1>1. ASSUME NEW f \in Emails, f # e
      PROVE  bucket'[f] = bucket[f] /\ Pending(f)' = Pending(f)
  BY <1>1 DEF Becomes, SignInInv, SignInTypeOK, Pending
<1>2. bucket'[e] = LookedAt(e)
  BY DEF SignInInv, SignInTypeOK
<1>3. /\ Cardinality(Pending(e)') \in Nat /\ Cardinality(Attempts) \in Nat
      /\ Cardinality(Pending(e)') <= Cardinality(Attempts)
  <2>1. Pending(e)' \subseteq Attempts
    BY DEF Pending
  <2>2. QED
    BY <2>1, FS_Subset, FS_CardinalityType, SignInAssumption
<1>4. LookedAt(e).failures \in Nat /\ LookedAt(e).failures < MaxFailures /\ ~ LookedAt(e).locked
  BY LookedAtRoom
<1>5. QED
  BY <1>1, <1>2, <1>3, <1>4, SignInAssumption DEF SignInInv, PendingCounted

\* An attempt is refused, and its failure recorded.
LEMMA FailureStep ==
  ASSUME SignInInv, NEW a \in Attempts, attempt[a].at \in {"looked", "verifying"},
         NEW e, e = attempt[a].email, RecordLoginFailure(e), Becomes(a, Idle)
  PROVE  PendingCounted'
<1>1. e \in Emails
  BY PendingAttempt
<1>2. \A f \in Emails \ {e} : bucket'[f] = bucket[f] /\ Pending(f)' = Pending(f)
  BY PendingEnds DEF RecordLoginFailure, SignInInv, SignInTypeOK
<1>3. bucket[e] \in [failures : Nat, locked : BOOLEAN, left : 0..Window]
  BY <1>1 DEF SignInInv, SignInTypeOK
<1>4. bucket'[e] = Recorded(bucket[e])
  BY <1>1 DEF RecordLoginFailure, SignInInv, SignInTypeOK
<1>5. /\ bucket'[e].failures = bucket[e].failures + 1
      /\ ~ bucket'[e].locked => bucket'[e].failures < MaxFailures
  BY <1>3, <1>4, RecordedType
<1>6. Cardinality(Pending(e)') = Cardinality(Pending(e)) - 1
  BY PendingEnds
<1>7. Cardinality(Pending(e)) \in Nat /\ Cardinality(Attempts) \in Nat
  BY <1>1, PendingFinite
<1>8. bucket[e].failures \in Nat
  BY <1>3
<1>9. bucket[e].failures + Cardinality(Pending(e)) < MaxFailures + Cardinality(Attempts)
  BY <1>1 DEF SignInInv, PendingCounted
<1>10. bucket'[e].failures + Cardinality(Pending(e)') < MaxFailures + Cardinality(Attempts)
  BY <1>5, <1>6, <1>7, <1>8, <1>9, SignInAssumption
<1>11. ASSUME NEW f \in Emails, f # e
       PROVE  /\ bucket'[f].failures + Cardinality(Pending(f)') < MaxFailures + Cardinality(Attempts)
              /\ ~ bucket'[f].locked => bucket'[f].failures < MaxFailures
  BY <1>2, <1>11 DEF SignInInv, PendingCounted
<1>12. QED
  BY <1>5, <1>10, <1>11 DEF PendingCounted

\* An attempt succeeds, and clears its e-mail's bucket.
LEMMA SuccessStep ==
  ASSUME SignInInv, NEW a \in Attempts, attempt[a].at \in {"looked", "verifying"},
         NEW e, e = attempt[a].email, ClearLoginFailures(e), Becomes(a, Idle)
  PROVE  PendingCounted'
<1>1. e \in Emails
  BY PendingAttempt
<1>2. \A f \in Emails \ {e} : bucket'[f] = bucket[f] /\ Pending(f)' = Pending(f)
  BY PendingEnds DEF ClearLoginFailures, SignInInv, SignInTypeOK
<1>3. bucket'[e] = Empty
  BY <1>1 DEF ClearLoginFailures, SignInInv, SignInTypeOK
<1>4. Cardinality(Pending(e)') = Cardinality(Pending(e)) - 1
  BY PendingEnds
<1>5. /\ Cardinality(Pending(e)) \in Nat /\ Cardinality(Attempts) \in Nat
      /\ Cardinality(Pending(e)) <= Cardinality(Attempts)
  BY <1>1, PendingFinite
<1>6. /\ bucket'[e].failures + Cardinality(Pending(e)') < MaxFailures + Cardinality(Attempts)
      /\ bucket'[e].failures < MaxFailures
  BY <1>3, <1>4, <1>5, SignInAssumption DEF Empty
<1>7. ASSUME NEW f \in Emails, f # e
      PROVE  /\ bucket'[f].failures + Cardinality(Pending(f)') < MaxFailures + Cardinality(Attempts)
             /\ ~ bucket'[f].locked => bucket'[f].failures < MaxFailures
  BY <1>2, <1>7 DEF SignInInv, PendingCounted
<1>8. QED
  BY <1>6, <1>7 DEF PendingCounted

----------------------------------------------------------------------------
LEMMA TypeStep ==
  ASSUME SignInTypeOK, SignInNext
  PROVE  SignInTypeOK'
<1> USE SignInAssumption DEF SignInTypeOK, Becomes, Idle, Empty
<1>1. ASSUME NEW a \in Attempts, NEW e \in Emails, NEW knows \in BOOLEAN, Authorize(a, e, knows)
      PROVE  SignInTypeOK'
  <2>1. LookedAt(e) \in [failures : Nat, locked : BOOLEAN, left : 0..Window]
    BY DEF LookedAt
  <2>2. QED
    BY <1>1, <2>1 DEF Authorize
<1>2. ASSUME NEW a \in Attempts, NEW e \in Emails, SignUp(a, e) \/ GoogleSignIn(a, e)
      PROVE  SignInTypeOK'
  BY <1>2 DEF SignUp, GoogleSignIn
<1>3. ASSUME NEW a \in Attempts, UserRead(a)
      PROVE  SignInTypeOK'
  <2>1. /\ attempt[a] \in [at : {"looked", "verifying"}, email : Emails, knows : BOOLEAN]
        /\ attempt[a].email \in Emails
    BY <1>3 DEF UserRead
  <2>2. Recorded(bucket[attempt[a].email]) \in [failures : Nat, locked : BOOLEAN, left : 0..Window]
    BY <2>1, RecordedType
  <2>3. CASE account[attempt[a].email] = "password"
    BY <1>3, <2>1, <2>3 DEF UserRead
  <2>4. CASE account[attempt[a].email] # "password"
    BY <1>3, <2>2, <2>4 DEF UserRead, RecordLoginFailure
  <2>5. QED
    BY <2>3, <2>4
<1>4. ASSUME NEW a \in Attempts, PasswordVerified(a)
      PROVE  SignInTypeOK'
  <2>1. attempt[a].email \in Emails
    BY <1>4 DEF PasswordVerified
  <2>2. Recorded(bucket[attempt[a].email]) \in [failures : Nat, locked : BOOLEAN, left : 0..Window]
    BY <2>1, RecordedType
  <2>3. CASE attempt[a].knows
    <3>1. bucket' = [bucket EXCEPT ![attempt[a].email] = Empty]
      BY <1>4, <2>3, Zenon DEF PasswordVerified, ClearLoginFailures
    <3>2. QED
      BY <1>4, <2>1, <3>1 DEF PasswordVerified
  <2>4. CASE ~ attempt[a].knows
    <3>1. bucket' = [bucket EXCEPT ![attempt[a].email] = Recorded(@)]
      BY <1>4, <2>4, Zenon DEF PasswordVerified, RecordLoginFailure
    <3>2. QED
      BY <1>4, <2>1, <2>2, <3>1 DEF PasswordVerified
  <2>5. QED
    BY <2>3, <2>4
<1>5. ASSUME NEW a \in Attempts, SignUpInsert(a)
      PROVE  SignInTypeOK'
  <2>1. attempt[a].email \in Emails
    BY <1>5 DEF SignUpInsert
  <2>2. LookedAt(attempt[a].email) \in [failures : Nat, locked : BOOLEAN, left : 0..Window]
    BY <2>1 DEF LookedAt
  <2>3. account' \in [Emails -> {"none", "password", "google"}]
    BY <1>5, <2>1 DEF SignUpInsert
  <2>4. bucket' \in [Emails -> [failures : Nat, locked : BOOLEAN, left : 0..Window]]
    BY <1>5, <2>1, <2>2 DEF SignUpInsert
  <2>5. \/ attempt' = [attempt EXCEPT ![a] = Idle]
        \/ attempt' = [attempt EXCEPT ![a] =
             [at |-> "looked", email |-> attempt[a].email, knows |-> TRUE]]
    BY <1>5 DEF SignUpInsert
  <2>6. [at |-> "looked", email |-> attempt[a].email, knows |-> TRUE]
          \in [at : {"looked", "verifying"}, email : Emails, knows : BOOLEAN]
    BY <2>1
  <2>7. QED
    BY <2>3, <2>4, <2>5, <2>6
<1>6. ASSUME NEW a \in Attempts, GoogleProvision(a)
      PROVE  SignInTypeOK'
  BY <1>6 DEF GoogleProvision
<1>7. CASE Tick
  BY <1>7 DEF Tick
<1>8. CASE ServerRestarts
  BY <1>8 DEF ServerRestarts
<1>9. QED
  BY <1>1, <1>2, <1>3, <1>4, <1>5, <1>6, <1>7, <1>8 DEF SignInNext

LEMMA CountStep ==
  ASSUME SignInInv, SignInTypeOK', SignInNext
  PROVE  PendingCounted'
<1>1. ASSUME NEW a \in Attempts, NEW e \in Emails, NEW knows \in BOOLEAN, Authorize(a, e, knows)
      PROVE  PendingCounted'
  <2>1. attempt[a].at \notin {"looked", "verifying"}
    BY <1>1 DEF Authorize, Idle
  <2>2. QED
    BY <1>1, <2>1, LookStep, Zenon DEF Authorize
<1>2. ASSUME NEW a \in Attempts, NEW e \in Emails, SignUp(a, e) \/ GoogleSignIn(a, e)
      PROVE  PendingCounted'
  <2>1. \A f \in Emails : Pending(f)' = Pending(f)
    BY <1>2 DEF SignUp, GoogleSignIn, Becomes, Pending, Idle, SignInInv, SignInTypeOK
  <2>2. QED
    BY <1>2, <2>1, CountKept DEF SignUp, GoogleSignIn, SignInInv
<1>3. ASSUME NEW a \in Attempts, UserRead(a)
      PROVE  PendingCounted'
  <2>1. CASE account[attempt[a].email] = "password"
    <3>1. \A f \in Emails : Pending(f)' = Pending(f)
      BY <1>3, <2>1 DEF UserRead, Becomes, Pending, Idle, SignInInv, SignInTypeOK
    <3>2. QED
      BY <1>3, <2>1, <3>1, CountKept DEF UserRead, SignInInv
  <2>2. CASE account[attempt[a].email] # "password"
    BY <1>3, <2>2, FailureStep DEF UserRead
  <2>3. QED
    BY <2>1, <2>2
<1>4. ASSUME NEW a \in Attempts, PasswordVerified(a)
      PROVE  PendingCounted'
  BY <1>4, SuccessStep, FailureStep DEF PasswordVerified
<1>5. ASSUME NEW a \in Attempts, SignUpInsert(a)
      PROVE  PendingCounted'
  <2> DEFINE e == attempt[a].email
  <2>1. e \in Emails
    BY <1>5 DEF SignUpInsert, SignInInv, SignInTypeOK, Idle
  <2>2. CASE account[e] = "none" /\ ~ LockedOut(e)
    BY <1>5, <2>1, <2>2, LookStep DEF SignUpInsert
  <2>3. CASE account[e] # "none" \/ LockedOut(e)
    <3>1. bucket' = bucket
      BY <1>5, <2>1, <2>3 DEF SignUpInsert, LookedAt, SignInInv, SignInTypeOK
    <3>2. \A f \in Emails : Pending(f)' = Pending(f)
      BY <1>5, <2>3 DEF SignUpInsert, Becomes, Pending, Idle, SignInInv, SignInTypeOK
    <3>3. QED
      BY <3>1, <3>2, CountKept DEF SignInInv
  <2>4. QED
    BY <2>2, <2>3
<1>6. ASSUME NEW a \in Attempts, GoogleProvision(a)
      PROVE  PendingCounted'
  <2>1. \A f \in Emails : Pending(f)' = Pending(f)
    BY <1>6 DEF GoogleProvision, Becomes, Pending, Idle, SignInInv, SignInTypeOK
  <2>2. QED
    BY <1>6, <2>1, CountKept DEF GoogleProvision, SignInInv
<1>7. CASE Tick
  <2>1. \A f \in Emails : Pending(f)' = Pending(f)
    BY <1>7 DEF Tick, Pending
  <2>2. \A f \in Emails : /\ bucket'[f].failures = bucket[f].failures
                          /\ bucket'[f].locked = bucket[f].locked
    BY <1>7 DEF Tick, SignInInv, SignInTypeOK
  <2>3. QED
    BY <2>1, <2>2 DEF SignInInv, PendingCounted
<1>8. CASE ServerRestarts
  <2>1. ASSUME NEW f \in Emails
        PROVE  /\ bucket'[f].failures = 0
               /\ Pending(f)' = {}
    BY <1>8 DEF ServerRestarts, Pending, Idle, Empty
  <2>2. Cardinality({}) = 0 /\ Cardinality(Attempts) \in Nat
    BY FS_EmptySet, FS_CardinalityType, SignInAssumption
  <2>3. ASSUME NEW f \in Emails
        PROVE  /\ bucket'[f].failures + Cardinality(Pending(f)') < MaxFailures + Cardinality(Attempts)
               /\ bucket'[f].failures < MaxFailures
    BY <2>1, <2>2, SignInAssumption
  <2>4. QED
    BY <2>3 DEF PendingCounted
<1>9. QED
  BY <1>1, <1>2, <1>3, <1>4, <1>5, <1>6, <1>7, <1>8 DEF SignInNext

----------------------------------------------------------------------------
\* The count of failures and of attempts under way is an invariant of every
\* behaviour, whatever attempts, sign-ups, expiries and restarts interleave.
THEOREM SignInInvariant == SignInSpec => []SignInInv
<1>1. SignInInit => SignInInv
  <2>1. SUFFICES ASSUME SignInInit PROVE SignInInv
    OBVIOUS
  <2>2. SignInTypeOK
    BY <2>1, SignInAssumption DEF SignInInit, SignInTypeOK, Idle, Empty
  <2>3. ASSUME NEW e \in Emails PROVE bucket[e].failures = 0 /\ Pending(e) = {}
    BY <2>1 DEF SignInInit, Pending, Idle, Empty
  <2>4. Cardinality({}) = 0 /\ Cardinality(Attempts) \in Nat
    BY FS_EmptySet, FS_CardinalityType, SignInAssumption
  <2>5. QED
    BY <2>2, <2>3, <2>4, SignInAssumption DEF SignInInv, PendingCounted
<1>2. SignInInv /\ [SignInNext]_signInVars => SignInInv'
  <2>1. SUFFICES ASSUME SignInInv, [SignInNext]_signInVars PROVE SignInInv'
    OBVIOUS
  <2>2. CASE SignInNext
    BY <2>1, <2>2, TypeStep, CountStep DEF SignInInv
  <2>3. CASE UNCHANGED signInVars
    BY <2>1, <2>3 DEF signInVars, SignInInv, SignInTypeOK, PendingCounted, Pending
  <2>4. QED
    BY <2>1, <2>2, <2>3
<1>3. QED
  BY <1>1, <1>2, PTL DEF SignInSpec

\* The lockout of rate-limit.ts, with authorize checking before the password and
\* recording after: the failures of an e-mail never pass what is allowed by more
\* than the attempts that were under way.
THEOREM GuessesStayBounded == SignInSpec => []GuessesBounded
<1>1. SignInInv => GuessesBounded
  BY PendingFinite, SignInAssumption DEF SignInInv, SignInTypeOK, PendingCounted, GuessesBounded
<1>2. QED
  BY <1>1, SignInInvariant, PTL

\* How near a lockout is to its end: the attempts that were past the limiter before it,
\* then what is left of its window.
RunsDown(e) ==
  \/ ~ LockedOut(e)'
  \/ Pending(e)' \subseteq Pending(e) /\ Pending(e)' # Pending(e)
  \/ /\ Pending(e)' = Pending(e)
     /\ bucket'[e].left <= bucket[e].left
     /\ Tick => bucket'[e].left < bucket[e].left

LockoutsRunDown == \A e \in Emails : LockedOut(e) => RunsDown(e)

LEMMA LeftStays ==
  ASSUME SignInInv, NEW e \in Emails, LockedOut(e),
         Pending(e)' = Pending(e), bucket'[e] = bucket[e]
  PROVE  RunsDown(e)
<1>1. bucket[e].left \in Nat /\ bucket[e].left > 0
  BY SignInAssumption DEF LockedOut, SignInInv, SignInTypeOK
<1>2. ~ Tick
  BY <1>1 DEF Tick, SignInInv, SignInTypeOK
<1>3. QED
  BY <1>1, <1>2 DEF RunsDown

\* Where an attempt is not past the limiter before the step nor after it, the attempts
\* that are past it stay.
LEMMA PendingStays ==
  ASSUME SignInInv, NEW a \in Attempts, NEW e \in Emails, NEW s, Becomes(a, s),
         a \in Pending(e) <=> s.at \in {"looked", "verifying"} /\ s.email = e
  PROVE  Pending(e)' = Pending(e)
<1>1. \A b \in Attempts : attempt'[b] = IF b = a THEN s ELSE attempt[b]
  BY DEF Becomes, SignInInv, SignInTypeOK
<1>2. QED
  BY <1>1 DEF Pending

LEMMA RunDownStep ==
  ASSUME SignInInv, [SignInNext]_signInVars, NEW e \in Emails, LockedOut(e)
  PROVE  RunsDown(e)
<1>1. ASSUME NEW a \in Attempts, NEW f \in Emails, NEW knows \in BOOLEAN, Authorize(a, f, knows)
      PROVE  RunsDown(e)
  <2>1. f # e /\ a \notin Pending(e)
    BY <1>1 DEF Authorize, Pending, Idle
  <2>2. PICK s : s = [at |-> "looked", email |-> f, knows |-> knows]
    OBVIOUS
  <2>3. Pending(e)' = Pending(e)
    BY <1>1, <2>1, <2>2, PendingStays DEF Authorize
  <2>4. bucket'[e] = bucket[e]
    BY <1>1, <2>1 DEF Authorize, SignInInv, SignInTypeOK
  <2>5. QED
    BY <2>3, <2>4, LeftStays
<1>2. ASSUME NEW a \in Attempts, NEW f \in Emails, SignUp(a, f) \/ GoogleSignIn(a, f)
      PROVE  RunsDown(e)
  <2>1. PICK s : Becomes(a, s) /\ s.at \notin {"looked", "verifying"}
    BY <1>2 DEF SignUp, GoogleSignIn
  <2>2. a \notin Pending(e)
    BY <1>2 DEF SignUp, GoogleSignIn, Pending, Idle
  <2>3. Pending(e)' = Pending(e)
    BY <2>1, <2>2, PendingStays
  <2>4. QED
    BY <1>2, <2>3, LeftStays DEF SignUp, GoogleSignIn
<1>3. ASSUME NEW a \in Attempts, UserRead(a) \/ PasswordVerified(a), Becomes(a, Idle)
      PROVE  RunsDown(e)
  <2>1. attempt[a].at \in {"looked", "verifying"}
    BY <1>3 DEF UserRead, PasswordVerified
  <2>2. PICK f : f = attempt[a].email
    OBVIOUS
  <2>3. /\ a \in Pending(f) /\ Pending(f)' = Pending(f) \ {a}
        /\ \A g \in Emails \ {f} : Pending(g)' = Pending(g)
    BY <1>3, <2>1, <2>2, PendingAttempt, PendingEnds
  <2>4. CASE e = f
    BY <2>3, <2>4 DEF RunsDown
  <2>5. CASE e # f
    <3>1. bucket'[e] = bucket[e]
      BY <1>3, <2>2, <2>5
         DEF UserRead, PasswordVerified, RecordLoginFailure, ClearLoginFailures, SignInInv, SignInTypeOK
    <3>2. QED
      BY <2>3, <2>5, <3>1, LeftStays
  <2>6. QED
    BY <2>4, <2>5
<1>4. ASSUME NEW a \in Attempts, UserRead(a), account[attempt[a].email] = "password"
      PROVE  RunsDown(e)
  <2>1. /\ attempt[a] \in [at : {"looked", "verifying"}, email : Emails, knows : BOOLEAN]
        /\ attempt[a].at = "looked"
    BY <1>4, PendingAttempt DEF UserRead
  <2>2. PICK s : s = [attempt[a] EXCEPT !.at = "verifying"]
    OBVIOUS
  <2>3. s.at = "verifying" /\ s.email = attempt[a].email
    BY <2>1, <2>2
  <2>4. Becomes(a, s) /\ bucket' = bucket
    BY <1>4, <2>2 DEF UserRead
  <2>5. a \in Pending(e) <=> attempt[a].email = e
    BY <2>1 DEF Pending
  <2>6. QED
    BY <2>3, <2>4, <2>5, PendingStays, LeftStays
<1>5. ASSUME NEW a \in Attempts, SignUpInsert(a)
      PROVE  RunsDown(e)
  <2>1. attempt[a].email \in Emails /\ a \notin Pending(e)
    BY <1>5 DEF SignUpInsert, Pending, SignInInv, SignInTypeOK, Idle
  <2>2. bucket'[e] = bucket[e]
    BY <1>5, <2>1 DEF SignUpInsert, LookedAt, SignInInv, SignInTypeOK
  <2>3. PICK s : /\ Becomes(a, s)
                     /\ ~ (s.at \in {"looked", "verifying"} /\ s.email = e)
    <3>1. CASE Becomes(a, Idle)
      BY <3>1 DEF Idle
    <3>2. CASE ~ Becomes(a, Idle)
      <4>1. /\ ~ LockedOut(attempt[a].email)
            /\ Becomes(a, [at |-> "looked", email |-> attempt[a].email, knows |-> TRUE])
        BY <1>5, <3>2 DEF SignUpInsert
      <4>2. PICK s : s = [at |-> "looked", email |-> attempt[a].email, knows |-> TRUE]
        OBVIOUS
      <4>3. s.email # e
        BY <4>1, <4>2
      <4>4. QED
        BY <4>1, <4>2, <4>3
    <3>3. QED
      BY <3>1, <3>2
  <2>4. Pending(e)' = Pending(e)
    BY <2>1, <2>3, PendingStays
  <2>5. QED
    BY <2>2, <2>4, LeftStays
<1>6. ASSUME NEW a \in Attempts, GoogleProvision(a)
      PROVE  RunsDown(e)
  <2>1. a \notin Pending(e) /\ Becomes(a, Idle) /\ bucket' = bucket
    BY <1>6 DEF GoogleProvision, Pending
  <2>2. Idle.at = "rest"
    BY DEF Idle
  <2>3. Pending(e)' = Pending(e)
    BY <2>1, <2>2, PendingStays
  <2>4. QED
    BY <2>1, <2>3, LeftStays
<1>7. CASE Tick
  <2>1. bucket[e].left \in Nat /\ bucket[e].left > 0
    BY SignInAssumption DEF LockedOut, SignInInv, SignInTypeOK
  <2>2. bucket'[e].left = bucket[e].left - 1
    BY <1>7, <2>1 DEF Tick, SignInInv, SignInTypeOK
  <2>3. Pending(e)' = Pending(e)
    BY <1>7 DEF Tick, Pending
  <2>4. QED
    BY <2>1, <2>2, <2>3 DEF RunsDown
<1>8. CASE ServerRestarts
  BY <1>8 DEF ServerRestarts, RunsDown, LockedOut, Empty
<1>9. CASE UNCHANGED signInVars
  BY <1>9, LeftStays DEF signInVars, Pending
<1>10. ASSUME NEW a \in Attempts, UserRead(a) \/ PasswordVerified(a)
       PROVE  RunsDown(e)
  BY <1>3, <1>4, <1>10 DEF UserRead, PasswordVerified
<1>11. QED
  BY <1>1, <1>2, <1>5, <1>6, <1>7, <1>8, <1>9, <1>10 DEF SignInNext

\* The safety half of LockoutEnds, what rate-limit.ts's late failures can and cannot do:
\* as long as an e-mail is locked out every step takes away one of the attempts that were
\* under way before, or leaves them and never gives the window more time; and every tick
\* of the clock leaves it less.  A window is started again by such an attempt's end only.
THEOREM LockoutOnlyRunsDown == SignInSpec => [][LockoutsRunDown]_signInVars
<1>1. ASSUME SignInInv, [SignInNext]_signInVars
      PROVE  LockoutsRunDown
  BY <1>1, RunDownStep DEF LockoutsRunDown
<1>2. QED
  BY <1>1, SignInInvariant, PTL DEF SignInSpec

----------------------------------------------------------------------------
(* The pool of connections.                                                *)

InLine == {"first", "second", "inside"}

\* Who waits is in line, once, and nobody else is.
LineIsTheWaiting ==
  /\ \A c \in Clients : stage[c] \in InLine <=> \E i \in 1..Len(queue) : queue[i] = c
  /\ \A i, j \in 1..Len(queue) : queue[i] = queue[j] => i = j

\* Only a resolution asks with a connection in hand.
OnlyResolutionsNest == \A c \in Clients : stage[c] \in {"inside", "inner"} => c \in Resolving

Holders == {c \in Clients : Holds(c) >= 1}
Doubles == {c \in Clients : Holds(c) = 2}

\* No more connections are out than there are.
PoolKept == IsFiniteSet(Holders) /\ InUse <= PoolSize

PoolInv == PoolTypeOK /\ LineIsTheWaiting /\ OnlyResolutionsNest /\ PoolKept

\* Something the server does by itself is still possible.
ServerCanGoOn ==
  \/ queue # <<>> /\ InUse < PoolSize
  \/ \E c \in Clients : stage[c] \in {"own", "between", "notice", "inner"}

\* The only way everybody can end up waiting.
OnlyResolutionsStandStill ==
  (\E c \in Clients : stage[c] # "rest") => ServerCanGoOn \/ AllWaitOnEachOther

\* Once they do nobody is answered any more.
NobodyAnswered ==
  /\ AllWaitOnEachOther'
  /\ \A c \in Clients : stage[c] # "rest" => stage'[c] # "rest"

LEMMA InUseIs == InUse = Cardinality(Holders) + Cardinality(Doubles) /\ Doubles \subseteq Holders
BY DEF InUse, Holders, Doubles

LEMMA FewerInUse ==
  ASSUME NEW H, NEW D, NEW H2, NEW D2,
         IsFiniteSet(H), D \subseteq H, H2 \subseteq H, D2 \subseteq D
  PROVE  /\ IsFiniteSet(H2) /\ Cardinality(H2) \in Nat /\ Cardinality(D2) \in Nat
         /\ Cardinality(H2) + Cardinality(D2) <= Cardinality(H) + Cardinality(D)
<1>1. IsFiniteSet(D)
  BY FS_Subset
<1>2. IsFiniteSet(H2) /\ Cardinality(H2) <= Cardinality(H)
  BY FS_Subset
<1>3. IsFiniteSet(D2) /\ Cardinality(D2) <= Cardinality(D)
  BY <1>1, FS_Subset
<1>4. /\ Cardinality(H) \in Nat /\ Cardinality(D) \in Nat
      /\ Cardinality(H2) \in Nat /\ Cardinality(D2) \in Nat
  BY <1>1, <1>2, <1>3, FS_CardinalityType
<1>5. QED
  BY <1>2, <1>3, <1>4

LEMMA OneMoreInUse ==
  ASSUME NEW S, IsFiniteSet(S), NEW c
  PROVE  /\ IsFiniteSet(S \cup {c})
         /\ Cardinality(S) \in Nat /\ Cardinality(S \cup {c}) \in Nat
         /\ Cardinality(S \cup {c}) <= Cardinality(S) + 1
<1>1. IsFiniteSet(S \cup {c}) /\ Cardinality(S) \in Nat
  BY FS_AddElement, FS_CardinalityType
<1>2. Cardinality(S \cup {c}) = Cardinality(S) \/ Cardinality(S \cup {c}) = Cardinality(S) + 1
  BY FS_AddElement
<1>3. QED
  BY <1>1, <1>2

\* A step that hands out nothing.
LEMMA NothingHandedOut ==
  ASSUME PoolKept, Holders' \subseteq Holders, Doubles' \subseteq Doubles
  PROVE  PoolKept'
<1>1. /\ IsFiniteSet(Holders') /\ Cardinality(Holders') \in Nat /\ Cardinality(Doubles') \in Nat
      /\ Cardinality(Holders') + Cardinality(Doubles') <= Cardinality(Holders) + Cardinality(Doubles)
  BY FewerInUse, InUseIs DEF PoolKept
<1>2. /\ IsFiniteSet(Holders) /\ Cardinality(Holders) \in Nat /\ Cardinality(Doubles) \in Nat
  BY FewerInUse, InUseIs DEF PoolKept
<1>3. InUse' = Cardinality(Holders') + Cardinality(Doubles')
  BY InUseIs DEF InUse, Holders, Doubles
<1>4. InUse' <= InUse /\ InUse \in Nat /\ InUse' \in Nat
  BY <1>1, <1>2, <1>3, InUseIs
<1>5. QED
  BY <1>1, <1>4, PoolAssumption DEF PoolKept

\* Who has no connection, or only its own, is what the stages say.
LEMMA HoldsAre ==
  ASSUME PoolTypeOK
  PROVE  /\ Holders = {c \in Clients : stage[c] \in {"own", "notice", "inside", "inner"}}
         /\ Doubles = {c \in Clients : stage[c] = "inner"}
<1>1. \A c \in Clients :
        /\ Holds(c) >= 1 <=> stage[c] \in {"own", "notice", "inside", "inner"}
        /\ Holds(c) = 2 <=> stage[c] = "inner"
  BY DEF Holds
<1>2. QED
  BY <1>1 DEF Holders, Doubles

LEMMA HoldsAreNext ==
  ASSUME PoolTypeOK'
  PROVE  /\ Holders' = {c \in Clients : stage'[c] \in {"own", "notice", "inside", "inner"}}
         /\ Doubles' = {c \in Clients : stage'[c] = "inner"}
<1>1. \A c \in Clients :
        /\ Holds(c)' >= 1 <=> stage'[c] \in {"own", "notice", "inside", "inner"}
        /\ Holds(c)' = 2 <=> stage'[c] = "inner"
  BY DEF Holds
<1>2. QED
  BY <1>1 DEF Holders, Doubles

\* A step that puts c in line.
LEMMA JoinsTheLine ==
  ASSUME PoolTypeOK, LineIsTheWaiting, NEW c \in Clients, stage[c] \notin InLine,
         NEW s \in InLine, stage' = [stage EXCEPT ![c] = s], queue' = Append(queue, c)
  PROVE  PoolTypeOK' /\ LineIsTheWaiting'
<1>1. PoolTypeOK'
  BY DEF PoolTypeOK, InLine, Stages
<1>2. /\ Len(queue) \in Nat /\ Len(queue') = Len(queue) + 1
      /\ \A i \in 1..Len(queue) : queue'[i] = queue[i] /\ i \in 1..Len(queue')
      /\ queue'[Len(queue) + 1] = c /\ Len(queue) + 1 \in 1..Len(queue')
      /\ \A i \in 1..Len(queue') : i \in 1..Len(queue) \/ i = Len(queue) + 1
  BY AppendProperties, LenProperties DEF PoolTypeOK
<1>3. \A i \in 1..Len(queue) : queue[i] # c
  BY DEF LineIsTheWaiting
<1>4. stage'[c] \in InLine /\ \A d \in Clients \ {c} : stage'[d] = stage[d]
  BY DEF PoolTypeOK
<1>5. \A d \in Clients : stage'[d] \in InLine <=> \E i \in 1..Len(queue') : queue'[i] = d
  <2> TAKE d \in Clients
  <2>1. CASE d = c
    BY <2>1, <1>2, <1>4
  <2>2. CASE d # c
    <3>1. (\E i \in 1..Len(queue') : queue'[i] = d) <=> \E i \in 1..Len(queue) : queue[i] = d
      BY <1>2, <2>2
    <3>2. QED
      BY <3>1, <2>2, <1>4 DEF LineIsTheWaiting
  <2>3. QED
    BY <2>1, <2>2
<1>6. \A i, j \in 1..Len(queue') : queue'[i] = queue'[j] => i = j
  BY <1>2, <1>3 DEF LineIsTheWaiting
<1>7. QED
  BY <1>1, <1>5, <1>6 DEF LineIsTheWaiting

\* A step of one who is not in line and does not join it.
LEMMA LineStays ==
  ASSUME PoolTypeOK, LineIsTheWaiting, NEW c \in Clients, stage[c] \notin InLine,
         NEW s \in Stages \ InLine, stage' = [stage EXCEPT ![c] = s], queue' = queue
  PROVE  PoolTypeOK' /\ LineIsTheWaiting'
<1>1. PoolTypeOK'
  BY DEF PoolTypeOK
<1>2. stage'[c] \notin InLine /\ \A d \in Clients \ {c} : stage'[d] = stage[d]
  BY DEF PoolTypeOK
<1>3. QED
  BY <1>1, <1>2 DEF LineIsTheWaiting

\* The first in line leaves it.
LEMMA LineMovesUp ==
  ASSUME PoolTypeOK, LineIsTheWaiting, queue # <<>>, NEW s \in Stages \ InLine,
         stage' = [stage EXCEPT ![Head(queue)] = s], queue' = Tail(queue)
  PROVE  PoolTypeOK' /\ LineIsTheWaiting'
<1> DEFINE c == Head(queue)
<1>1. /\ Len(queue) \in Nat \ {0} /\ c = queue[1] /\ c \in Clients
      /\ queue' \in Seq(Clients) /\ Len(queue') = Len(queue) - 1
      /\ \A i \in 1..Len(queue') : queue'[i] = queue[i + 1] /\ i + 1 \in 1..Len(queue)
  BY HeadTailProperties, LenProperties, EmptySeq, ElementOfSeq DEF PoolTypeOK
<1>2. PoolTypeOK'
  BY <1>1 DEF PoolTypeOK
<1>3. stage'[c] \notin InLine /\ \A d \in Clients \ {c} : stage'[d] = stage[d]
  BY <1>1 DEF PoolTypeOK
<1>4. \A i, j \in 1..Len(queue') : queue'[i] = queue'[j] => i = j
  <2> TAKE i, j \in 1..Len(queue')
  <2> HAVE queue'[i] = queue'[j]
  <2>1. i + 1 = j + 1
    BY <1>1 DEF LineIsTheWaiting
  <2>2. QED
    BY <2>1
<1>5. \A d \in Clients : stage'[d] \in InLine <=> \E i \in 1..Len(queue') : queue'[i] = d
  <2> TAKE d \in Clients
  <2>1. CASE d = c
    <3>1. \A i \in 1..Len(queue') : queue'[i] # c
      <4> SUFFICES ASSUME NEW i \in 1..Len(queue'), queue'[i] = c PROVE FALSE
        OBVIOUS
      <4>1. queue[i + 1] = queue[1] /\ i + 1 \in 1..Len(queue) /\ 1 \in 1..Len(queue)
        BY <1>1
      <4>2. i + 1 = 1
        BY <4>1 DEF LineIsTheWaiting
      <4>3. QED
        BY <4>2
    <3>2. QED
      BY <3>1, <2>1, <1>3
  <2>2. CASE d # c
    <3>1. (\E i \in 1..Len(queue') : queue'[i] = d) => \E i \in 1..Len(queue) : queue[i] = d
      BY <1>1
    <3>2. ASSUME NEW i \in 1..Len(queue), queue[i] = d
          PROVE  \E j \in 1..Len(queue') : queue'[j] = d
      <4>1. i - 1 \in 1..Len(queue') /\ (i - 1) + 1 = i
        BY <3>2, <2>2, <1>1
      <4>2. QED
        BY <4>1, <3>2, <1>1
    <3>3. QED
      BY <3>1, <3>2, <2>2, <1>3 DEF LineIsTheWaiting
  <2>3. QED
    BY <2>1, <2>2
<1>6. QED
  BY <1>2, <1>4, <1>5 DEF LineIsTheWaiting

LEMMA PoolInvInit == PoolInit => PoolInv
<1> SUFFICES ASSUME PoolInit PROVE PoolInv
  OBVIOUS
<1>1. PoolTypeOK /\ LineIsTheWaiting /\ OnlyResolutionsNest
  BY EmptySeq DEF PoolInit, PoolTypeOK, Stages, LineIsTheWaiting, InLine, OnlyResolutionsNest
<1>2. Holders = {} /\ Doubles = {}
  BY <1>1, HoldsAre DEF PoolInit
<1>3. QED
  BY <1>1, <1>2, InUseIs, FS_EmptySet, PoolAssumption DEF PoolInv, PoolKept

LEMMA GrantKeepsPool ==
  ASSUME PoolInv, Grant
  PROVE  PoolInv'
<1> DEFINE c == Head(queue)
<1>1. PoolTypeOK /\ LineIsTheWaiting /\ OnlyResolutionsNest /\ PoolKept
  BY DEF PoolInv
<1>2. c \in Clients /\ stage[c] \in InLine
  <2>1. c = queue[1] /\ 1 \in 1..Len(queue) /\ c \in Clients
    BY <1>1, HeadTailProperties, LenProperties, EmptySeq, ElementOfSeq DEF PoolTypeOK, Grant
  <2>2. QED
    BY <1>1, <2>1 DEF LineIsTheWaiting
<1>3. PICK s \in Stages \ InLine :
        /\ stage' = [stage EXCEPT ![c] = s]
        /\ \/ stage[c] = "inside" /\ s = "inner"
           \/ stage[c] # "inside" /\ s \in {"own", "notice"}
  <2> DEFINE s == CASE stage[c] = "first" -> "own" [] stage[c] = "second" -> "notice"
                    [] stage[c] = "inside" -> "inner"
  <2>1. stage' = [stage EXCEPT ![c] = s]
    BY <1>1 DEF Grant, PoolTypeOK
  <2>2. /\ s \in Stages \ InLine
        /\ \/ stage[c] = "inside" /\ s = "inner"
           \/ stage[c] # "inside" /\ s \in {"own", "notice"}
    BY <1>2 DEF InLine, Stages
  <2> HIDE DEF s
  <2>3. QED
    BY <2>1, <2>2
<1>4. PoolTypeOK' /\ LineIsTheWaiting'
  BY <1>1, <1>3, LineMovesUp DEF Grant
<1>5. stage'[c] = s /\ \A d \in Clients \ {c} : stage'[d] = stage[d]
  BY <1>1, <1>2, <1>3 DEF PoolTypeOK
<1>6. OnlyResolutionsNest'
  BY <1>1, <1>2, <1>3, <1>5 DEF OnlyResolutionsNest
<1>7. IsFiniteSet(Holders) /\ IsFiniteSet(Doubles)
  BY <1>1, InUseIs, FS_Subset DEF PoolKept
<1>8. \/ Holders' = Holders \cup {c} /\ Doubles' = Doubles
      \/ Holders' = Holders /\ Doubles' = Doubles \cup {c}
  <2> DEFINE H == {d \in Clients : stage[d] \in {"own", "notice", "inside", "inner"}}
             D == {d \in Clients : stage[d] = "inner"}
             H2 == {d \in Clients : stage'[d] \in {"own", "notice", "inside", "inner"}}
             D2 == {d \in Clients : stage'[d] = "inner"}
  <2>1. Holders = H /\ Doubles = D /\ Holders' = H2 /\ Doubles' = D2
    BY <1>1, <1>4, HoldsAre, HoldsAreNext
  <2>2. CASE stage[c] = "inside" /\ s = "inner"
    <3>1. H2 = H /\ D2 = D \cup {c}
      BY <2>2, <1>2, <1>5
    <3>2. QED
      BY <3>1, <2>1, Zenon
  <2>3. CASE stage[c] # "inside" /\ s \in {"own", "notice"}
    <3>1. H2 = H \cup {c} /\ D2 = D
      BY <2>3, <1>2, <1>5 DEF InLine
    <3>2. QED
      BY <3>1, <2>1, Zenon
  <2>4. QED
    BY <2>2, <2>3, <1>3
<1>9. /\ Cardinality(Holders) \in Nat /\ Cardinality(Doubles) \in Nat
      /\ Cardinality(Holders') \in Nat /\ Cardinality(Doubles') \in Nat
      /\ IsFiniteSet(Holders')
      /\ Cardinality(Holders') + Cardinality(Doubles') <= Cardinality(Holders) + Cardinality(Doubles) + 1
  <2>1. /\ Cardinality(Holders) \in Nat /\ Cardinality(Doubles) \in Nat
        /\ IsFiniteSet(Holders \cup {c})
        /\ Cardinality(Holders \cup {c}) \in Nat /\ Cardinality(Doubles \cup {c}) \in Nat
        /\ Cardinality(Holders \cup {c}) <= Cardinality(Holders) + 1
        /\ Cardinality(Doubles \cup {c}) <= Cardinality(Doubles) + 1
    BY <1>7, OneMoreInUse
  <2>2. CASE Holders' = Holders \cup {c} /\ Doubles' = Doubles
    <3>1. /\ IsFiniteSet(Holders') /\ Cardinality(Holders') = Cardinality(Holders \cup {c})
          /\ Cardinality(Doubles') = Cardinality(Doubles)
      BY <2>1, <2>2, Zenon
    <3>2. QED
      BY <3>1, <2>1
  <2>3. CASE Holders' = Holders /\ Doubles' = Doubles \cup {c}
    <3>1. /\ IsFiniteSet(Holders') /\ Cardinality(Doubles') = Cardinality(Doubles \cup {c})
          /\ Cardinality(Holders') = Cardinality(Holders)
      BY <1>7, <2>3, Zenon
    <3>2. QED
      BY <3>1, <2>1
  <2>4. QED
    BY <1>8, <2>2, <2>3
<1>10. InUse' = Cardinality(Holders') + Cardinality(Doubles')
  BY DEF InUse, Holders, Doubles
<1>11. PoolKept'
  BY <1>9, <1>10, InUseIs, PoolAssumption DEF PoolKept, Grant
<1>12. QED
  BY <1>4, <1>6, <1>11 DEF PoolInv

LEMMA PoolInvNext == PoolInv /\ [PoolNext]_poolVars => PoolInv'
<1> SUFFICES ASSUME PoolInv, [PoolNext]_poolVars PROVE PoolInv'
  OBVIOUS
<1>1. PoolTypeOK /\ LineIsTheWaiting /\ OnlyResolutionsNest /\ PoolKept
  BY DEF PoolInv
<1>2. ASSUME NEW c \in Clients, NEW s \in Stages,
             stage' = [stage EXCEPT ![c] = s],
             PoolTypeOK', LineIsTheWaiting', s # "inner",
             s = "inside" => c \in Resolving,
             s \in {"own", "notice", "inside"} => stage[c] \in {"own", "notice", "inside", "inner"}
      PROVE  PoolInv'
  <2>1. stage'[c] = s /\ \A d \in Clients \ {c} : stage'[d] = stage[d]
    BY <1>1, <1>2 DEF PoolTypeOK
  <2>2. OnlyResolutionsNest'
    BY <1>1, <1>2, <2>1 DEF OnlyResolutionsNest
  <2>3. Holders' \subseteq Holders /\ Doubles' \subseteq Doubles
    BY <1>1, <1>2, <2>1, HoldsAre, HoldsAreNext
  <2>4. QED
    BY <1>1, <1>2, <2>2, <2>3, NothingHandedOut DEF PoolInv
<1>3. CASE Grant
  BY <1>3, GrantKeepsPool
<1>4. ASSUME NEW c \in Clients, Begin(c) PROVE PoolInv'
  <2>1. PoolTypeOK' /\ LineIsTheWaiting'
    BY <1>1, <1>4, JoinsTheLine DEF Begin, InLine
  <2>2. QED
    BY <1>2, <1>4, <2>1 DEF Begin, Stages
<1>5. ASSUME NEW c \in Clients, CommitFirst(c) PROVE PoolInv'
  <2>1. PoolTypeOK' /\ LineIsTheWaiting'
    BY <1>1, <1>5, LineStays DEF CommitFirst, InLine, Stages
  <2>2. QED
    BY <1>2, <1>5, <2>1 DEF CommitFirst, Stages
<1>6. ASSUME NEW c \in Clients, NotifyAfter(c) PROVE PoolInv'
  <2>1. PoolTypeOK' /\ LineIsTheWaiting'
    BY <1>1, <1>6, JoinsTheLine DEF NotifyAfter, InLine
  <2>2. QED
    BY <1>2, <1>6, <2>1 DEF NotifyAfter, Stages
<1>7. ASSUME NEW c \in Clients, NotifyInside(c) PROVE PoolInv'
  <2>1. PoolTypeOK' /\ LineIsTheWaiting'
    BY <1>1, <1>7, JoinsTheLine DEF NotifyInside, InLine
  <2>2. QED
    BY <1>2, <1>7, <2>1 DEF NotifyInside, Stages
<1>8. ASSUME NEW c \in Clients, Answer(c) PROVE PoolInv'
  <2>1. PoolTypeOK' /\ LineIsTheWaiting'
    BY <1>1, <1>8, LineStays DEF Answer, InLine, Stages
  <2>2. QED
    BY <1>2, <1>8, <2>1 DEF Answer, Stages
<1>9. CASE UNCHANGED poolVars
  BY <1>1, <1>9 DEF poolVars, PoolInv, PoolTypeOK, LineIsTheWaiting, OnlyResolutionsNest,
     PoolKept, InUse, Holders, Holds
<1>10. QED
  BY <1>3, <1>4, <1>5, <1>6, <1>7, <1>8, <1>9 DEF PoolNext

\* What is handed out, to whom, and who waits, for any pool and any clients.
THEOREM PoolInvariant == PoolSpec => []PoolInv
<1>1. QED
  BY PoolInvInit, PoolInvNext, PTL DEF PoolSpec

\* Every connection out is held by a resolution that waits for another.
LEMMA AllHeldInside ==
  ASSUME PoolInv, AllWaitOnEachOther
  PROVE  /\ Holders = {c \in Resolving : stage[c] = "inside"}
         /\ Doubles = {}
         /\ ~ InUse < PoolSize
<1> DEFINE Inside == {c \in Resolving : stage[c] = "inside"}
<1>1. PoolTypeOK /\ OnlyResolutionsNest /\ IsFiniteSet(Holders) /\ InUse <= PoolSize
  BY DEF PoolInv, PoolKept
<1>2. Inside \subseteq Holders /\ Doubles \subseteq Holders
  BY <1>1, HoldsAre DEF Clients
<1>3. /\ IsFiniteSet(Inside) /\ IsFiniteSet(Doubles)
      /\ Cardinality(Inside) \in Nat /\ Cardinality(Doubles) \in Nat
      /\ Cardinality(Holders) \in Nat /\ Cardinality(Inside) <= Cardinality(Holders)
  BY <1>1, <1>2, FS_Subset, FS_CardinalityType
<1>4. Cardinality(Inside) >= PoolSize /\ PoolSize \in Nat
  BY PoolAssumption DEF AllWaitOnEachOther
<1>5. InUse = Cardinality(Holders) + Cardinality(Doubles)
  BY InUseIs
<1> HIDE DEF Inside
<1>6. Cardinality(Doubles) = 0 /\ Cardinality(Holders) = Cardinality(Inside)
  BY <1>1, <1>3, <1>4, <1>5
<1>7. Doubles = {}
  BY <1>3, <1>6, FS_EmptySet
<1>8. Holders = Inside
  BY <1>1, <1>2, <1>3, <1>6, FS_Subset
<1>9. ~ InUse < PoolSize
  BY <1>3, <1>4, <1>5, <1>6
<1>10. QED
  BY <1>7, <1>8, <1>9 DEF Inside

\* Unless every connection is held by a resolution that waits for another one,
\* somebody who is under way can go on: actions that notify after their commit
\* (onBookingRequested and its like) never block each other, however many there
\* are and however small the pool.
THEOREM OnlyResolutionsBlock == PoolSpec => []OnlyResolutionsStandStill
<1>1. PoolInv => OnlyResolutionsStandStill
  <2> SUFFICES ASSUME PoolInv, NEW c \in Clients, stage[c] # "rest", ~ ServerCanGoOn
               PROVE  AllWaitOnEachOther
    BY DEF OnlyResolutionsStandStill
  <2>1. PoolTypeOK /\ LineIsTheWaiting /\ OnlyResolutionsNest /\ IsFiniteSet(Holders)
    BY DEF PoolInv, PoolKept
  <2>2. \A d \in Clients : stage[d] \in {"rest", "first", "second", "inside"}
    BY <2>1 DEF ServerCanGoOn, PoolTypeOK, Stages
  <2>3. queue # <<>>
    <3>1. PICK i \in 1..Len(queue) : queue[i] = c
      BY <2>1, <2>2 DEF LineIsTheWaiting, InLine
    <3>2. QED
      BY <3>1
  <2>4. ~ InUse < PoolSize
    BY <2>3 DEF ServerCanGoOn
  <2>5. Holders = {d \in Resolving : stage[d] = "inside"} /\ Doubles = {}
    BY <2>1, <2>2, HoldsAre DEF OnlyResolutionsNest, Clients
  <2>6. InUse = Cardinality(Holders) + 0 /\ Cardinality(Holders) \in Nat
    BY <2>1, <2>5, InUseIs, FS_EmptySet, FS_CardinalityType
  <2>7. Cardinality(Holders) >= PoolSize
    BY <2>4, <2>6, PoolAssumption
  <2>8. QED
    BY <2>5, <2>7 DEF AllWaitOnEachOther
<1>2. QED
  BY <1>1, PoolInvariant, PTL

\* Once that happens nobody is answered any more: a connection is given back when a
\* resolution ends, and none can.
THEOREM StandsStillForGood ==
  PoolSpec => [][AllWaitOnEachOther => NobodyAnswered]_poolVars
<1>1. ASSUME PoolInv, PoolInv', PoolNext, AllWaitOnEachOther PROVE NobodyAnswered
  <2> DEFINE Inside == {c \in Resolving : stage[c] = "inside"}
  <2>1. PoolTypeOK /\ Holders = Inside /\ Doubles = {} /\ ~ InUse < PoolSize
    BY <1>1, AllHeldInside DEF PoolInv
  <2>2. \A c \in Clients : stage[c] \in {"own", "notice", "inside", "inner"} => c \in Inside
    BY <2>1, HoldsAre
  <2>3. \A c \in Clients : stage[c] \notin {"own", "notice", "inner"}
    BY <2>2
  <2>4. PICK c \in Clients : Begin(c) \/ NotifyAfter(c)
    BY <1>1, <2>1, <2>3 DEF PoolNext, Grant, CommitFirst, NotifyInside, Answer
  <2>5. /\ stage[c] \in {"rest", "between"}
        /\ \A d \in Clients \ {c} : stage'[d] = stage[d]
        /\ stage'[c] \in {"first", "second"}
    BY <2>1, <2>4 DEF Begin, NotifyAfter, PoolTypeOK
  <2>6. {d \in Resolving : stage'[d] = "inside"} = Inside
    BY <2>5 DEF Clients
  <2>7. QED
    BY <1>1, <2>5, <2>6 DEF NobodyAnswered, AllWaitOnEachOther
<1>2. QED
  <2>1. PoolInv /\ PoolInv' /\ [PoolNext]_poolVars
          => [AllWaitOnEachOther => NobodyAnswered]_poolVars
    BY <1>1
  <2>2. QED
    BY <2>1, PoolInvariant, PTL DEF PoolSpec
=============================================================================
