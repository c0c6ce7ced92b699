--------------------------- MODULE StateMachines ---------------------------
(***************************************************************************)
(* The two transition tables of the system: the booking lifecycle          *)
(* (packages/booking/src/state-machine.ts) and the escrow lifecycle        *)
(* (packages/payments/src/state-machine.ts).  Both are pure tables that    *)
(* the server actions consult before they write a status.                  *)
(***************************************************************************)

BookingStatuses ==
  {"requested", "confirmed", "in_progress", "completed", "cancelled", "disputed"}

\* Legal next statuses of a booking.
BookingTransitions ==
  [requested   |-> {"confirmed", "cancelled"},
   confirmed   |-> {"in_progress", "cancelled"},
   in_progress |-> {"completed", "disputed"},
   completed   |-> {},
   cancelled   |-> {},
   disputed    |-> {"completed", "cancelled"}]

CanTransition(from, to) == to \in BookingTransitions[from]

TransitionActors == {"family", "caregiver", "system", "admin"}

\* TRANSITION_ACTORS: the <<from, to>> pairs each actor may drive; admin may
\* drive all of them.
FamilyTransitions ==
  {<<"requested", "cancelled">>, <<"confirmed", "in_progress">>,
   <<"confirmed", "cancelled">>, <<"in_progress", "completed">>,
   <<"in_progress", "disputed">>}

CaregiverTransitions ==
  {<<"requested", "confirmed">>, <<"requested", "cancelled">>,
   <<"confirmed", "cancelled">>, <<"in_progress", "completed">>,
   <<"in_progress", "disputed">>}

ActorCanTransition(from, to, actor) ==
  /\ CanTransition(from, to)
  /\ \/ actor = "admin"
     \/ actor = "family" /\ <<from, to>> \in FamilyTransitions
     \/ actor = "caregiver" /\ <<from, to>> \in CaregiverTransitions
     \/ actor = "system" /\ <<from, to>> = <<"in_progress", "completed">>

EscrowStatuses ==
  {"pending", "authorized", "captured", "released", "refunded", "disputed"}

\* Legal next statuses of an escrow.
EscrowTransitions ==
  [pending    |-> {"authorized", "refunded"},
   authorized |-> {"captured", "refunded"},
   captured   |-> {"released", "disputed", "refunded"},
   disputed   |-> {"released", "refunded"},
   released   |-> {},
   refunded   |-> {}]

CanTransitionEscrow(from, to) == to \in EscrowTransitions[from]
============================================================================
