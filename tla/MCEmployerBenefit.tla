------------------------- MODULE MCEmployerBenefit -------------------------
(* Two employers and one family that both may enrol, with two bookings in the *)
(* first month, so that the second finds a benefit partly used; the clock     *)
(* runs over two months, so that the first is invoiced and over.              *)
EXTENDS EmployerBenefit, TLC

CONSTANTS none, acme, atlas, salma, b1, b2

MCFamilyOf == b1 :> salma @@ b2 :> salma
MCMonthOf == b1 :> 1 @@ b2 :> 1
MCMinutes == b1 :> 60 @@ b2 :> 90
MCRates == {[per |-> "hour", amount |-> 55], [per |-> "day", amount |-> 450]}
MCPolicy == [freeHours |-> 24, feePercent |-> 50]
MCBenefits == {70}

\* Nothing distinguishes the employers, in their constants or in the steps.
Symmetry == Permutations({acme, atlas})

============================================================================
