\* Two clashing bookings, each with at most one server action in flight.
CONSTANTS
  b1 = b1
  b2 = b2
  r1 = r1
  r2 = r2
  w1 = w1
  w2 = w2
  NoBooking = NoBooking
  Bookings = {b1, b2}
  Requests = {r1, r2}
  Workers = {w1}
  Clashes <- OneClash
  FamilyOf <- OwnFamily
  FamilyPays = 2
  CaregiverPayout = 1
  Fees = {0, 1, 3}
  CanCrash = FALSE
  TakeTurns = TRUE
SPECIFICATION Spec
SYMMETRY RequestSymmetry
PROPERTY ConfirmationsKept
INVARIANTS
  BooksAgree
  BothReviewedReleases
  NoDoubleBooking
CHECK_DEADLOCK FALSE
