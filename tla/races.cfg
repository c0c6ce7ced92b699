\* One booking, two server actions in flight, one sweep, crashes.
CONSTANTS
  b1 = b1
  b2 = b2
  r1 = r1
  r2 = r2
  w1 = w1
  w2 = w2
  NoBooking = NoBooking
  Bookings = {b1}
  Requests = {r1, r2}
  Workers = {w1}
  Clashes = {}
  FamilyOf <- OwnFamily
  FamilyPays = 2
  CaregiverPayout = 1
  Fees = {0, 1}
  CanCrash = TRUE
  TakeTurns = FALSE
SPECIFICATION Spec
SYMMETRY RequestSymmetry
INVARIANTS
  PaidOnlyFromCharge
  EscrowFollowsCare
  PaidOnlyForCare
  RefundMatchesFee
PROPERTIES
  OnlyPermittedActors
  GatewayContract
CHECK_DEADLOCK FALSE
