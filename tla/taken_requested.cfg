\* Two clashing bookings of two families: the second asks for a time that is taken.
CONSTANTS
  b1 = b1
  b2 = b2
  r1 = r1
  r2 = r2
  w1 = w1
  w2 = w2
  NoBooking = NoBooking
  Bookings = {b1, b2}
  Requests = {r1}
  Workers = {w1}
  Clashes <- OneClash
  FamilyOf <- OwnFamily
  FamilyPays = 1
  CaregiverPayout = 1
  Fees = {0}
  CanCrash = FALSE
  TakeTurns = FALSE
SPECIFICATION Spec
PROPERTIES
  RequestsFreeTime
CHECK_DEADLOCK FALSE
