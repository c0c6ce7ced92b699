SPECIFICATION Spec
CONSTANTS
  acme = acme
  atlas = atlas
  salma = salma
  b1 = b1
  b2 = b2
  none = none
  Employers = {acme, atlas}
  Families = {salma}
  Bookings = {b1, b2}
  FamilyOf <- MCFamilyOf
  MonthOf <- MCMonthOf
  Minutes <- MCMinutes
  Rates <- MCRates
  Policy <- MCPolicy
  Benefits <- MCBenefits
  LastMonth = 2
  MaxEnrolled = 2
  NoEmployer = none
SYMMETRY Symmetry
INVARIANTS
  TypeOK
  SplitAddsUp
  BudgetIsTotal
  BenefitKeptInTurn
  InvoiceCoversMonth
PROPERTY SettledStaysSettled
CHECK_DEADLOCK FALSE
