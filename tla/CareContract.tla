---------------------------- MODULE CareContract ----------------------------
(***************************************************************************)
(* What a booking promises its two parties: the care and the money that    *)
(* pays for it move together.  The abstract specification of the server    *)
(* actions on a booking, with no requests, no transactions, no worker and  *)
(* no gateway: care moves along the booking lifecycle, and money, which may *)
(* lag behind care but never leads it, moves only in the stage of care      *)
(* that justifies the move.                                                *)
(***************************************************************************)
EXTENDS StateMachines

CONSTANT Bookings

VARIABLES
  care,    \* the status of each booking, "none" before it is requested
  money    \* the status of each booking's escrow, "none" before there is one

Init ==
  /\ care = [b \in Bookings |-> "none"]
  /\ money = [b \in Bookings |-> "none"]

CareMoves(b, from, to) ==
  /\ care[b] \in from
  /\ care' = [care EXCEPT ![b] = to]
  /\ UNCHANGED money

MoneyMoves(b, stage, from, to) ==
  /\ care[b] = stage
  /\ money[b] = from
  /\ money' = [money EXCEPT ![b] = to]
  /\ UNCHANGED care

Ask(b) == CareMoves(b, {"none"}, "requested")
Accept(b) == CareMoves(b, {"requested"}, "confirmed")
Start(b) == CareMoves(b, {"confirmed"}, "in_progress")
Finish(b) == CareMoves(b, {"in_progress"}, "completed")
Contest(b) == CareMoves(b, {"in_progress"}, "disputed")
Cancel(b) == CareMoves(b, {"requested", "confirmed"}, "cancelled")

Hold(b) == MoneyMoves(b, "confirmed", "none", "authorized")
Charge(b) == MoneyMoves(b, "in_progress", "authorized", "captured")
Freeze(b) == MoneyMoves(b, "disputed", "captured", "disputed")
Pay(b) == MoneyMoves(b, "completed", "captured", "released")
GiveBack(b) == MoneyMoves(b, "cancelled", "authorized", "refunded")

\* The admin decides care and money in one step; money that was never charged
\* can only be given back.
Resolve(b) ==
  /\ care[b] = "disputed"
  /\ \/ /\ money[b] \in {"captured", "disputed"}
        /\ care' = [care EXCEPT ![b] = "completed"]
        /\ money' = [money EXCEPT ![b] = "released"]
     \/ /\ money[b] \in {"authorized", "captured", "disputed"}
        /\ care' = [care EXCEPT ![b] = "cancelled"]
        /\ money' = [money EXCEPT ![b] = "refunded"]

Next ==
  \E b \in Bookings :
    \/ Ask(b) \/ Accept(b) \/ Start(b) \/ Finish(b) \/ Contest(b) \/ Cancel(b)
    \/ Hold(b) \/ Charge(b) \/ Freeze(b) \/ Pay(b) \/ GiveBack(b) \/ Resolve(b)

Spec == Init /\ [][Next]_<<care, money>>
=============================================================================
