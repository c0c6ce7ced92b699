SPECIFICATION Spec
CONSTANTS
  MaxRuns = 3
  o1 = o1
  o2 = o2
  r1 = r1
  r2 = r2
  PoolSize = 2
  Ordinary = {o1, o2}
  Resolving = {r1, r2}
  a1 = a1
  a2 = a2
  Emails = {e1}
  Attempts = {a1, a2}
  MaxFailures = 2
  Window = 2
  x1 = x1
  x2 = x2
  Edits = {x1, x2}
  MaxChildren = 2
  MaxChildIds = 3
  mon = mon
  d1 = d1
  Days = {mon}
  Dates = {d1}
  DayOf <- MCDayOf
  Drafts <- MCDrafts
  t1 = t1
  t2 = t2
  Tabs = {t1, t2}
  MaxSaves = 2
  w1 = w1
  w2 = w2
  Windows = {w1, w2}
  Budgets = {50000}
  Staff = {p1, p2}
  MaxEmployees = 2
  PageSize = 2
INVARIANTS
  NoRowTwice
  Seeded
  GuessesBounded
  ChildLimit
  ChildrenKeptInTurn
  LastSaveStands
  RoundTrip
  EnrolledOnceInTurn
PROPERTIES
  Answered
  LockoutEnds
CHECK_DEADLOCK FALSE
