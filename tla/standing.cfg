SPECIFICATION Spec
CONSTANTS
  amina = amina
  nadia = nadia
  cin = cin
  police = police
  health = health
  reference = reference
  Caregivers = {amina, nadia}
  Admin = admin
  Documents = {cin, police, health, reference}
  OwnerOf <- MCOwnerOf
  TypeOf <- MCTypeOf
  FileOf <- MCFileOf
  s1 = s1
  s2 = s2
  f1 = f1
  f2 = f2
  Slots = {s1, s2}
  Viewed <- MCViewed
  MaxUrls = 1
  Sessions = {b1, b2}
  Stars = {2, 5}
  Submits = {f1, f2}
  MaxReviews = 4
  h1 = h1
  h2 = h2
  j1 = j1
  j2 = j2
  w1 = w1
  w2 = w2
  Visits = {v1}
  Handlers = {h1, h2}
  Jobs = {j1, j2}
  Payers = {w1, w2}
INVARIANTS
  VerificationTypeOK
  LevelEarned
  LevelCurrentInTurn
  UrlsOnRecord
  RatingsTypeOK
  RatingCurrentInTurn
  RatingBacked
  ToldOnce
  MarkedMeansReminded
  RemindedOnceInTurn
PROPERTY RowAfterObject
SYMMETRY MCSymmetry
CHECK_DEADLOCK FALSE
