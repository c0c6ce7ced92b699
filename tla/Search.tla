------------------------------- MODULE Search -------------------------------
(***************************************************************************)
(* The public search page (search/page.tsx): which caregivers a filter     *)
(* keeps, the orders the query may return them in, and the pages a reader  *)
(* walks.  A caregiver is its columns: the care types and cities it        *)
(* serves, its hourly rate in centimes, level, rating, finished bookings   *)
(* and whether its embedding is stored.  Pure: no state.                   *)
(***************************************************************************)
EXTENDS Levels, SequencesExt

CONSTANT PageSize     \* caregivers a page lists
ASSUME PageSizeAssumption == PageSize \in Nat \ {0}

CareTypes == {"daya", "nanny", "after_school", "nursery_assistant", "babysitter"}

\* What the address line asks for, as raw as a reader may type it: a care type, a
\* level and a rate the page does not know count as not asked; "cities" are the
\* cities the typed text is part of.
AsksCareType(f) == f.careType \in CareTypes
AsksLevel(f)    == f.level \in Levels
AsksRate(f)     == f.maxRate > 0
PageAsked(f)    == IF f.page > 1 THEN f.page ELSE 1

\* The WHERE clause: every filter asked holds; the level is a rung to reach.
Keeps(f, c) ==
  /\ AsksCareType(f) => f.careType \in c.careTypes
  /\ f.typed => f.cities \cap c.cities # {}
  /\ AsksRate(f) => c.hourlyRate <= f.maxRate * 100
  /\ AsksLevel(f) => LevelRank(c.level) >= LevelRank(f.level)

Ahead(c, d) ==
  \/ c.avgRating > d.avgRating
  \/ c.avgRating = d.avgRating /\ c.completed > d.completed

\* The orders one run of the browse query may return: rows that tie come in any.
BrowseOrders(f, profiles) ==
  {rows \in SetToSeqs({c \in profiles : Keeps(f, c)}) :
     \A i, j \in 1..Len(rows) : i < j => ~ Ahead(rows[j], rows[i])}

\* LIMIT and OFFSET, and the links under the list: the page before unless this is
\* the first, the page after while there is one.
PageOf(rows, page) == SubSeq(rows, (page - 1) * PageSize + 1,
                             IF page * PageSize > Len(rows) THEN Len(rows) ELSE page * PageSize)
BrowsePage(f, rows) == PageOf(rows, PageAsked(f))
TotalPages(n) == IF n = 0 THEN 1 ELSE (n + PageSize - 1) \div PageSize
Links(page, n) ==
  {p \in {page - 1} : page > 1} \cup {p \in {page + 1} : page < TotalPages(n)}

\* With a text, relevance replaces the order: the closest caregivers with a stored
\* embedding that the filters keep, one page of them and no other.
RelevanceOrders(f, profiles, closeness) ==
  LET found == {c \in profiles : c.embedded /\ Keeps(f, c)}
  IN  {SubSeq(rows, 1, IF Len(rows) < PageSize THEN Len(rows) ELSE PageSize) :
         rows \in {s \in SetToSeqs(found) :
                     \A i, j \in 1..Len(s) : i < j => closeness[s[i]] >= closeness[s[j]]}}

\* The cards are read anew: those still there, in the order of their relevance.
RelevancePage(order, profiles) == SelectSeq(order, LAMBDA c : c \in profiles)

============================================================================
