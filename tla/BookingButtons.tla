--------------------------- MODULE BookingButtons ---------------------------
(***************************************************************************)
(* What the two booking lists offer on a booking in each status: the       *)
(* family's tracker (bookings-tracker.tsx) and the caregiver's inbox       *)
(* (bookings-inbox.tsx).  A button is named by the status it drives to;    *)
(* confirming the end drives to "completed" once both sides have.  A       *)
(* refused click shows the error and leaves the list as it was read, so a  *)
(* button may be pressed on a booking that has moved on since.             *)
(***************************************************************************)
EXTENDS StateMachines

FamilyOffers ==
  [requested   |-> {"cancelled"},
   confirmed   |-> {"in_progress", "cancelled"},
   in_progress |-> {"completed", "disputed"},
   completed   |-> {},
   cancelled   |-> {},
   disputed    |-> {}]

CaregiverOffers ==
  [requested   |-> {"confirmed", "cancelled"},
   confirmed   |-> {},
   in_progress |-> {"completed", "disputed"},
   completed   |-> {},
   cancelled   |-> {},
   disputed    |-> {}]

\* The review form, on either list.
OffersReview(status, reviewed) == status = "completed" /\ ~ reviewed

\* What the state machine lets a role do with a booking in a status.
Permitted(status, actor) ==
  {to \in BookingStatuses : ActorCanTransition(status, to, actor)}

============================================================================
