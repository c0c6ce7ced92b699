------------------------------ MODULE Ratings ------------------------------
(***************************************************************************)
(* The reviews a family leaves of a caregiver, and the rating computed     *)
(* from them.  One review per booking and party is enforced by a read      *)
(* before the insert; there is no unique index.  The rating and the count  *)
(* are recomputed in the transaction of the review, which does not see the *)
(* reviews of transactions in flight beside it.                            *)
(***************************************************************************)
EXTENDS Integers, Sequences, FiniteSets

CONSTANTS
  Sessions,    \* completed bookings of one caregiver
  Stars,       \* the ratings families give
  Submits,     \* review forms that may be in flight at once
  MaxReviews   \* bound: rows there may be

ASSUME StarsAssumption == Stars \subseteq 1..5

VARIABLES
  rows,      \* reviews: <<session, stars>> of the family's reviews, in order
  rating,    \* caregiver_profiles: [avgRating, reviewCount]
  submit,    \* the review each form is sending
  entwined   \* history: did two reviews of the caregiver overlap?

ratingVars == <<rows, rating, submit, entwined>>

----------------------------------------------------------------------------
NotSending == [at |-> "rest"]

RatingsTypeOK ==
  /\ rows \in Seq(Sessions \X Stars)
  /\ rating \in [avgRating : 0..500, reviewCount : Nat]
  /\ submit \in [Submits ->
       {NotSending}
         \cup [at : {"insert"}, of : Sessions, stars : Stars]
         \cup [at : {"commit"}, of : Sessions, stars : Stars,
               rating : [avgRating : 0..500, reviewCount : Nat]]]
  /\ entwined \in BOOLEAN

RatingsInit ==
  /\ rows = <<>>
  /\ rating = [avgRating |-> 0, reviewCount |-> 0]
  /\ submit = [f \in Submits |-> NotSending]
  /\ entwined = FALSE

\* The sum of the stars of a sequence of rows.
StarsOf(s) ==
  LET sum[i \in 0..Len(s)] == IF i = 0 THEN 0 ELSE sum[i - 1] + s[i][2]
  IN  sum[Len(s)]

\* A bug: the sum is divided by the reviews there were before.
RecomputedShort(s) ==
  [avgRating   |-> IF Len(s) < 2 THEN 0 ELSE (200 * StarsOf(s)) \div (2 * (Len(s) - 1)),
   reviewCount |-> Len(s)]

\* A bug: the review being inserted is counted a second time.
RecomputedTwice(s) ==
  [avgRating   |-> IF s = <<>> THEN 0 ELSE (200 * StarsOf(s) + Len(s)) \div (2 * Len(s)),
   reviewCount |-> Len(s) + 1]

\* recomputeRating: 100 times the average, rounded half up, and the count.
Recomputed(s) ==
  [avgRating   |-> IF s = <<>> THEN 0 ELSE (200 * StarsOf(s) + Len(s)) \div (2 * Len(s)),
   reviewCount |-> Len(s)]

InFlight == {f \in Submits : submit[f].at # "rest"}

\* A bug: nothing asks whether the session is reviewed already.
CheckReviewNever(f, b, n) ==
  /\ submit[f] = NotSending
  /\ Len(rows) + Cardinality(InFlight) < MaxReviews
  /\ submit' = [submit EXCEPT ![f] = [at |-> "insert", of |-> b, stars |-> n]]
  /\ entwined' = (entwined \/ InFlight # {})
  /\ UNCHANGED <<rows, rating>>

\* submitReview up to the insert: no review of this session is there yet.
CheckReview(f, b, n) ==
  /\ submit[f] = NotSending
  /\ Len(rows) + Cardinality(InFlight) < MaxReviews
  /\ \A i \in 1..Len(rows) : rows[i][1] # b
  /\ submit' = [submit EXCEPT ![f] = [at |-> "insert", of |-> b, stars |-> n]]
  /\ entwined' = (entwined \/ InFlight # {})
  /\ UNCHANGED <<rows, rating>>

\* The insert, and the rating recomputed over the rows this transaction sees.
InsertRating(f) ==
  /\ submit[f].at = "insert"
  /\ submit' = [submit EXCEPT ![f] =
       [at |-> "commit", of |-> @.of, stars |-> @.stars,
        rating |-> Recomputed(Append(rows, <<@.of, @.stars>>))]]
  /\ UNCHANGED <<rows, rating, entwined>>

CommitRating(f) ==
  /\ submit[f].at = "commit"
  /\ rows' = Append(rows, <<submit[f].of, submit[f].stars>>)
  /\ rating' = submit[f].rating
  /\ submit' = [submit EXCEPT ![f] = NotSending]
  /\ UNCHANGED entwined

SubmitFails(f) ==
  /\ submit[f] # NotSending
  /\ submit' = [submit EXCEPT ![f] = NotSending]
  /\ UNCHANGED <<rows, rating, entwined>>

RatingsNext ==
  \E f \in Submits :
    \/ \E b \in Sessions, n \in Stars : CheckReview(f, b, n)
    \/ InsertRating(f) \/ CommitRating(f) \/ SubmitFails(f)

RatingsSpec == RatingsInit /\ [][RatingsNext]_ratingVars

----------------------------------------------------------------------------
(* Properties.                                                             *)

\* While reviews come one at a time, a session is reviewed once by the family
\* and the caregiver shows exactly the rating of the reviews there are.
RatingCurrentInTurn ==
  ~ entwined =>
    /\ rating = Recomputed(rows)
    /\ \A i, j \in 1..Len(rows) : rows[i][1] = rows[j][1] => i = j

\* However reviews overlap or fail, the caregiver never shows more reviews than
\* there are, and a reviewed caregiver never shows an empty rating.
RatingBacked ==
  /\ rating.reviewCount <= Len(rows)
  /\ rows # <<>> => rating.reviewCount > 0 /\ rating.avgRating >= 100

============================================================================
