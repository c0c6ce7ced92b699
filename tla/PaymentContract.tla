-------------------------- MODULE PaymentContract --------------------------
(***************************************************************************)
(* What the payment gateway may see of one booking, whatever the web       *)
(* server, the worker and their crashes do: an abstract specification of   *)
(* the calls made through packages/payments/src/gateway.ts.                *)
(*                                                                         *)
(* The ledger of a booking is the set of <<call, amount>> pairs the        *)
(* gateway has accepted for it.  A repeated call carries the same          *)
(* idempotency reference, so it adds nothing: the ledger is a set.         *)
(***************************************************************************)
EXTENDS Integers

CONSTANTS
  Bookings,         \* the bookings
  FamilyPays,       \* what the family owes for one booking, in centimes
  CaregiverPayout   \* what the caregiver receives for one booking

VARIABLE ledger

Calls ==
  {<<"authorize", FamilyPays>>} \cup {<<"payout", CaregiverPayout>>}
    \cup {<<"capture", n>> : n \in 0..FamilyPays}
    \cup {<<"refund", n>> : n \in 0..FamilyPays}

Init == ledger = [b \in Bookings |-> {}]

Accepts(b, call) == ledger' = [ledger EXCEPT ![b] = @ \cup {call}]

Authorize(b) == Accepts(b, <<"authorize", FamilyPays>>)

\* Money is taken, or given back, only on a card that was pre-authorized, and
\* never more than the family owes.
Capture(b) ==
  /\ <<"authorize", FamilyPays>> \in ledger[b]
  /\ \E n \in 0..FamilyPays : Accepts(b, <<"capture", n>>)

Refund(b) ==
  /\ <<"authorize", FamilyPays>> \in ledger[b]
  /\ \E n \in 0..FamilyPays : Accepts(b, <<"refund", n>>)

\* The caregiver is paid only out of a charge captured in full.
Payout(b) ==
  /\ <<"capture", FamilyPays>> \in ledger[b]
  /\ Accepts(b, <<"payout", CaregiverPayout>>)

Next == \E b \in Bookings : Authorize(b) \/ Capture(b) \/ Refund(b) \/ Payout(b)

Spec == Init /\ [][Next]_ledger
============================================================================
