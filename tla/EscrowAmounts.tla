--------------------------- MODULE EscrowAmounts ---------------------------
(***************************************************************************)
(* The money of one booking: the price of the session, the two platform    *)
(* fees, the employer's subsidy and the cancellation fee, in centimes.     *)
(*                                                                         *)
(* The code multiplies in floating point and rounds.  For the platform     *)
(* fees (12 and 8 percent), the cancellation fee and sessions of whole     *)
(* quarter hours the result is exactly the half-up rounding written here.  *)
(***************************************************************************)
EXTENDS Integers

Lesser(a, b) == IF a <= b THEN a ELSE b
Greater(a, b) == IF a >= b THEN a ELSE b

\* What money() accepts; it throws on anything else.
IsMoney(amount) == amount \in Nat

\* Math.round(amount * part / whole).
Rounded(amount, part, whole) == (2 * amount * part + whole) \div (2 * whole)

FamilyFeePercent == 12
CaregiverFeePercent == 8

PlatformFeeFromFamily(gross) == Rounded(gross, FamilyFeePercent, 100)
PlatformFeeFromCaregiver(gross) == Rounded(gross, CaregiverFeePercent, 100)

\* What the family owes before any subsidy.
FamilyGross(gross) == gross + PlatformFeeFromFamily(gross)

\* A bug: the payout is rounded down on its own, not derived from the fee.
EscrowSplitTwice(gross, subsidy) ==
  [gross           |-> gross,
   familyFee       |-> PlatformFeeFromFamily(gross),
   caregiverFee    |-> PlatformFeeFromCaregiver(gross),
   caregiverPayout |-> (gross * (100 - CaregiverFeePercent)) \div 100,
   subsidy         |-> subsidy,
   familyPays      |-> FamilyGross(gross) - subsidy]

\* computeEscrowAmounts, for a subsidy it accepts.
EscrowSplit(gross, subsidy) ==
  [gross           |-> gross,
   familyFee       |-> PlatformFeeFromFamily(gross),
   caregiverFee    |-> PlatformFeeFromCaregiver(gross),
   caregiverPayout |-> gross - PlatformFeeFromCaregiver(gross),
   subsidy         |-> subsidy,
   familyPays      |-> FamilyGross(gross) - subsidy]

\* computeEscrowAmounts throws on a subsidy above what the family owes.
SplitAccepts(gross, subsidy) == IsMoney(subsidy) /\ subsidy <= FamilyGross(gross)

CapSubsidy(desired, availableBudget, familyGross) ==
  Greater(0, Lesser(desired, Lesser(availableBudget, familyGross)))

----------------------------------------------------------------------------
\* A caregiver's rate is hourly or daily; a day is eight hours, and one
\* session never costs more than a day.
DayMinutes == 8 * 60

BookingAmount(rate, minutes) ==
  CASE rate.per = "hour" -> Rounded(rate.amount, minutes, 60)
    [] rate.per = "day"  -> Rounded(rate.amount, Lesser(minutes, DayMinutes), DayMinutes)
    [] OTHER             -> 0

\* A policy is free `freeHours` or more before the start, and takes
\* `feePercent` of the gross after that.
CancellationFee(policy, gross, minutesBefore) ==
  IF minutesBefore >= 60 * policy.freeHours THEN 0
  ELSE Lesser(gross, Rounded(gross, Lesser(100, Greater(0, policy.feePercent)), 100))

============================================================================
