-------------------------- MODULE MCBookingEscrow --------------------------
(* Small instances of BookingEscrow for TLC.                               *)
EXTENDS BookingEscrow, TLC

CONSTANTS b1, b2, r1, r2, w1, w2

\* Two bookings of one caregiver at the same time.
OneClash == {{b1, b2}}

\* Every booking is asked for by a family of its own.
OwnFamily == [b \in Bookings |-> b]

\* Server actions in flight are interchangeable.
RequestSymmetry == Permutations(Requests)
============================================================================
