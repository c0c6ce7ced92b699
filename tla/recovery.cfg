\* One booking, one server action at a time, two sweeps, crashes, fairness.
CONSTANTS
  b1 = b1
  b2 = b2
  r1 = r1
  r2 = r2
  w1 = w1
  w2 = w2
  NoBooking = NoBooking
  Bookings = {b1}
  Requests = {r1}
  Workers = {w1, w2}
  Clashes = {}
  FamilyOf <- OwnFamily
  FamilyPays = 2
  CaregiverPayout = 1
  Fees = {0, 1, 3}
  CanCrash = TRUE
  TakeTurns = TRUE
SPECIFICATION FairSpec
INVARIANTS
  TypeOK
PROPERTIES
  KeepsPromise
  OpenWindowSettles
CHECK_DEADLOCK FALSE
