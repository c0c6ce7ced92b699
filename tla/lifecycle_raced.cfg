\* Two server actions on one booking: the lifecycle's terminal statuses are left.
CONSTANTS
  b1 = b1
  b2 = b2
  r1 = r1
  r2 = r2
  w1 = w1
  w2 = w2
  NoBooking = NoBooking
  Bookings = {b1}
  Requests = {r1, r2}
  Workers = {w1}
  Clashes = {}
  FamilyOf <- OwnFamily
  FamilyPays = 1
  CaregiverPayout = 1
  Fees = {0}
  CanCrash = FALSE
  TakeTurns = FALSE
SPECIFICATION Spec
PROPERTIES
  LegalBookingSteps
CHECK_DEADLOCK FALSE
