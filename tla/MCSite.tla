------------------------------- MODULE MCSite -------------------------------
(* Parts of the program that share no row a property here is about: the demo *)
(* seed, the connection pool, signing in, a family's children, a caregiver's *)
(* calendar and an employer's account.  They are checked side by side: one   *)
(* of them moves while the others rest in their initial state.               *)
EXTENDS Seed, ConnectionPool, SignIn, FamilyChildren, CaregiverCalendar, EmployerAccounts,
        Search, BookingButtons, TLC

CONSTANTS o1, o2, r1, r2, a1, a2, x1, x2, t1, t2, w1, w2, mon, d1

\* The seeded documents of every level compute to that level.
ASSUME SeedLevels ==
  \A level \in Levels :
    ComputeLevel({DocsForLevel(level)[i] : i \in 1..Len(DocsForLevel(level))}) = level

MCDayOf == [d \in Dates |-> mon]

Day(enabled, from, to) == [d \in Days |-> [enabled |-> enabled, from |-> from, to |-> to]]

\* A day that is off, on, or ends before it starts; a blocked date whose row still
\* shows hours, one that is open longer, and a row whose date is not chosen yet.
MCDrafts ==
  LET blocked == Override(d1, 10, 9, FALSE)
      longer  == Override(d1, 8, 20, TRUE)
      undated == Override("", 9, 17, TRUE)
  IN  {[week |-> Day(FALSE, 9, 17), overrides |-> {}],
       [week |-> Day(TRUE, 9, 17),  overrides |-> {blocked, undated}],
       [week |-> Day(TRUE, 17, 9),  overrides |-> {longer}],
       [week |-> Day(TRUE, 10, 18), overrides |-> {blocked, longer}]}

\* The readers of a calendar agree: a window is covered when one open range of its
\* date holds it, an open range covers itself, and the request form warns of
\* exactly what the server will refuse.
ASSUME ReadersAgree ==
  \A draft \in Drafts, date \in Dates :
    LET slots == BuildSlots(draft)
    IN  /\ \A r \in OpenRangesForDate(slots, date) : InsideCalendar(slots, date, r[1], r[2])
        /\ \A from, to \in {8, 9, 10, 17, 18, 20} :
             WindowCovered(slots, date, from, to) <=>
               \E r \in OpenRangesForDate(slots, date) : r[1] <= from /\ to <= r[2]
        /\ \A from, to \in {8, 9, 10, 17, 18, 20} :
             OutsideAvailability(slots, date, from, to) <=> ~ InsideCalendar(slots, date, from, to)

\* Both lists offer nothing the state machine would refuse; the family's offers all
\* of it, the caregiver's everything but to call off a session it has accepted.
ASSUME ButtonsPermitted ==
  \A status \in BookingStatuses :
    /\ FamilyOffers[status] = Permitted(status, "family")
    /\ CaregiverOffers[status] =
         Permitted(status, "caregiver") \ (IF status = "confirmed" THEN {"cancelled"} ELSE {})
    /\ \A reviewed \in BOOLEAN : OffersReview(status, reviewed) => FamilyOffers[status] = {}

Carer(city, rate, level, stars, embedded) ==
  [careTypes |-> {"nanny"}, cities |-> {city}, hourlyRate |-> rate, level |-> level,
   avgRating |-> stars, completed |-> 1, embedded |-> embedded]
Carers == {Carer("rabat", 5000, "unverified", 5, TRUE), Carer("rabat", 6000, "id_checked", 4, FALSE),
           Carer("sale", 8000, "certified", 3, TRUE), Carer("sale", 5000, "cin_verified", 2, TRUE)}
Tied   == {[c EXCEPT !.avgRating = 0] : c \in Carers}
Asking == {[careType |-> ct, typed |-> towns # {}, cities |-> towns, maxRate |-> rate, level |-> lv,
            page |-> 1] :
             ct \in {"", "nanny", "daya"}, towns \in {{}, {"sale"}}, rate \in {-1, 60},
             lv \in {"", "id_checked", "certified"}}

\* Walking the pages by their links lists every match once, in order, when no two
\* caregivers tie; a higher rung asked for never adds a match; and relevance lists
\* only matches whose embedding is stored.
ASSUME PagesListEveryMatch ==
  \A f \in Asking :
    LET found == {c \in Carers : Keeps(f, c)} IN
    /\ \A rows \in BrowseOrders(f, Carers) :
         /\ FlattenSeq([p \in 1..TotalPages(Len(rows)) |->
                           BrowsePage([f EXCEPT !.page = p], rows)]) = rows
         /\ BrowsePage([f EXCEPT !.page = -1], rows) = BrowsePage(f, rows)
         /\ \A p \in 1..TotalPages(Len(rows)) :
              Links(p, Len(rows)) = {p - 1, p + 1} \cap (1..TotalPages(Len(rows)))
    /\ Cardinality(BrowseOrders(f, Carers)) = 1
    /\ {c \in Carers : Keeps([f EXCEPT !.level = "certified"], c)} \subseteq found
    /\ \A rows \in RelevanceOrders(f, Carers, [c \in Carers |-> c.hourlyRate]) :
         /\ ToSet(rows) \subseteq {c \in found : c.embedded}
         /\ \A gone \in Carers :
              ToSet(RelevancePage(rows, Carers \ {gone})) = ToSet(rows) \ {gone}

\* With ties each request may order the rows anew: two pages read one after the
\* other can show a caregiver twice and another not at all.
ASSUME TiesCanHide ==
  LET f == [careType |-> "", typed |-> FALSE, cities |-> {}, maxRate |-> 0, level |-> "", page |-> 1]
  IN  \E first, second \in BrowseOrders(f, Tied) :
        ToSet(PageOf(first, 1)) \cup ToSet(PageOf(second, 2)) # Tied

vars == <<seedVars, poolVars, signInVars, childVars, calendarVars, employerVars>>

Init ==
  /\ SeedInit /\ PoolInit /\ SignInInit /\ ChildrenInit /\ CalendarInit /\ EmployerInit

\* Which of the parts has moved: the others have not.
Next ==
  \/ /\ SeedNext
     /\ PoolInit /\ SignInInit /\ ChildrenInit /\ CalendarInit /\ EmployerInit
     /\ UNCHANGED <<poolVars, signInVars, childVars, calendarVars, employerVars>>
  \/ /\ PoolNext
     /\ SeedInit /\ SignInInit /\ ChildrenInit /\ CalendarInit /\ EmployerInit
     /\ UNCHANGED <<seedVars, signInVars, childVars, calendarVars, employerVars>>
  \/ /\ SignInNext
     /\ SeedInit /\ PoolInit /\ ChildrenInit /\ CalendarInit /\ EmployerInit
     /\ UNCHANGED <<seedVars, poolVars, childVars, calendarVars, employerVars>>
  \/ /\ ChildrenNext
     /\ SeedInit /\ PoolInit /\ SignInInit /\ CalendarInit /\ EmployerInit
     /\ UNCHANGED <<seedVars, poolVars, signInVars, calendarVars, employerVars>>
  \/ /\ CalendarNext
     /\ SeedInit /\ PoolInit /\ SignInInit /\ ChildrenInit /\ EmployerInit
     /\ UNCHANGED <<seedVars, poolVars, signInVars, childVars, employerVars>>
  \/ /\ EmployerNext
     /\ SeedInit /\ PoolInit /\ SignInInit /\ ChildrenInit /\ CalendarInit
     /\ UNCHANGED <<seedVars, poolVars, signInVars, childVars, calendarVars>>

Spec == Init /\ [][Next]_vars /\ PoolFairness /\ SignInFairness

============================================================================
