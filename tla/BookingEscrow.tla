--------------------------- MODULE BookingEscrow ---------------------------
(***************************************************************************)
(* The booking lifecycle and its escrow.                                   *)
(*                                                                         *)
(* Every server action runs as a request: one transaction on the bookings  *)
(* row (read without a lock, UPDATE, audit row, commit), then, in a second *)
(* transaction, the escrow effect (read, gateway call, UPDATE, audit row,  *)
(* commit).  PostgreSQL runs READ COMMITTED: a plain SELECT takes no lock, *)
(* an UPDATE "where id = ..." overwrites whatever is there when it gets    *)
(* the row, an UPDATE "where id = ... and status = ..." looks again.  A    *)
(* request therefore is a process whose reads, gateway calls and commits   *)
(* interleave with those of every other request and of the worker's sweep. *)
(* It can end early between any two steps: the server dies or a call       *)
(* throws.                                                                 *)
(***************************************************************************)
EXTENDS Integers, FiniteSets, StateMachines

CONSTANTS
  Bookings,         \* ids of the bookings that may be made
  Requests,         \* server actions that may be in flight at once
  Workers,          \* runs of the escrow.sweep job that may overlap
  Clashes,          \* pairs {b, c} of one caregiver's bookings that overlap in time
  FamilyOf,         \* the family that asks for each booking
  FamilyPays,       \* what the family owes for a booking (after the subsidy)
  CaregiverPayout,  \* what the caregiver receives for a booking
  Fees,             \* results of computeCancellationFee
  NoBooking,        \* the id an idle request or sweep works on
  CanCrash,         \* may a request or a sweep end between two of its steps?
  TakeTurns         \* do the requests on one booking come one at a time?

ASSUME AmountsAssumption ==
  FamilyPays \in Nat /\ CaregiverPayout \in Nat /\ Fees \subseteq Nat /\ 0 \in Fees

ASSUME SwitchAssumption == CanCrash \in BOOLEAN /\ TakeTurns \in BOOLEAN

ASSUME NoBookingAssumption == NoBooking \notin Bookings

ASSUME ClashesAssumption == Clashes \subseteq SUBSET Bookings

VARIABLES
  booking,   \* bookings: [status, familyEnded, caregiverEnded] of each id
  escrow,    \* escrows: [status, window, fee] of each booking's escrow
  reviews,   \* reviews: the roles that have reviewed each booking
  audit,     \* audit_logs: the rows written about each booking and its escrow
  gateway,   \* the calls the payment gateway accepted for each booking
  request,   \* the server action each slot is running
  sweep      \* the sweep each worker is running

db == <<booking, escrow, reviews, audit>>
vars == <<booking, escrow, reviews, audit, gateway, request, sweep>>

----------------------------------------------------------------------------
Sides == {"family", "caregiver"}
Both == Sides

BookingRows ==
  [status : BookingStatuses \cup {"none"},
   familyEnded : BOOLEAN, caregiverEnded : BOOLEAN]

\* "none": no row yet.  window: disputeWindowEndsAt is null, ahead or behind.
EscrowRows ==
  [status : EscrowStatuses \cup {"none"},
   window : {"none", "open", "elapsed"}, fee : 0..FamilyPays]

AuditRows ==
  [entity : {"booking", "escrow"},
   before : BookingStatuses \cup EscrowStatuses \cup {"none"},
   after : BookingStatuses \cup EscrowStatuses \cup {"window"}]

NoRow == [status |-> "none", familyEnded |-> FALSE, caregiverEnded |-> FALSE]
NoEscrow == [status |-> "none", window |-> "none", fee |-> 0]

\* confirmEnd, dispute and review are run by either party; release and refund
\* are the two resolutions of resolveDispute.
Ops == {"accept", "decline", "start", "confirmEnd", "cancel", "dispute",
        "review", "release", "refund"}

\* Where a request stands: what it does next.
Steps == {"book", "escrow", "authorize", "capture", "payout", "refund", "fee",
          "rest", "write", "insert", "one", "both"}

Idle == [op |-> "idle", actor |-> "none", on |-> NoBooking, at |-> "idle",
         saw |-> NoRow, escrowSaw |-> "none", fee |-> 0]

RunningRequests ==
  [op : Ops, actor : Sides \cup {"admin"}, on : Bookings, at : Steps,
   saw : BookingRows, escrowSaw : EscrowStatuses \cup {"none"}, fee : Nat]

GatewayCalls == {"authorize", "capture", "refund", "payout"} \X Nat

Resting == [batch |-> {}, paying |-> NoBooking]

TypeOK ==
  /\ booking \in [Bookings -> BookingRows]
  /\ escrow \in [Bookings -> EscrowRows]
  /\ reviews \in [Bookings -> SUBSET Sides]
  /\ audit \in [Bookings -> SUBSET AuditRows]
  /\ gateway \in [Bookings -> SUBSET GatewayCalls]
  /\ request \in [Requests -> RunningRequests \cup {Idle}]
  /\ sweep \in [Workers -> [batch : SUBSET Bookings, paying : Bookings \cup {NoBooking}]]

Init ==
  /\ booking = [b \in Bookings |-> NoRow]
  /\ escrow = [b \in Bookings |-> NoEscrow]
  /\ reviews = [b \in Bookings |-> {}]
  /\ audit = [b \in Bookings |-> {}]
  /\ gateway = [b \in Bookings |-> {}]
  /\ request = [r \in Requests |-> Idle]
  /\ sweep = [w \in Workers |-> Resting]

----------------------------------------------------------------------------
(* The pieces the handlers are made of.                                    *)

\* Holding a caregiver's time, for checkAvailability and bookings_no_overlap.
Active == {"confirmed", "in_progress"}

\* No other confirmed or running booking of the caregiver overlaps b.
Available(b) ==
  \A c \in Bookings \ {b} : {b, c} \in Clashes => booking[c].status \notin Active

\* The same check on a family's connection: row-level security shows it no
\* booking but its own.
SeemsAvailable(b) ==
  \A c \in Bookings \ {b} :
    {b, c} \in Clashes /\ FamilyOf[c] = FamilyOf[b] => booking[c].status \notin Active

Row(entity, before, after) == [entity |-> entity, before |-> before, after |-> after]

Audited(b, rows) == audit' = [audit EXCEPT ![b] = @ \cup rows]

Called(b, call) == gateway' = [gateway EXCEPT ![b] = @ \cup {call}]

At(r, op, step) == request[r].op = op /\ request[r].at = step

Goto(r, step) == request' = [request EXCEPT ![r].at = step]

Done(r) == request' = [request EXCEPT ![r] = Idle]

\* No request is working on b.
Quiet(b) == \A r \in Requests : request[r].on # b

\* What the first transaction on booking b read, without a lock, before the
\* step it takes next.
Having(op, actor, b, step) ==
  [Idle EXCEPT !.op = op, !.actor = actor, !.on = b, !.at = step, !.saw = booking[b]]

\* A server action begins.
Begin(r, q) ==
  /\ request[r] = Idle
  /\ TakeTurns => Quiet(q.on)
  /\ request' = [request EXCEPT ![r] = q]
  /\ UNCHANGED <<db, gateway, sweep>>

\* The escrow transaction runs under withSystem: the role is forced to admin
\* and nothing read before is kept.
Elevated(q) == [q EXCEPT !.at = "escrow", !.actor = "admin", !.saw = NoRow]

\* Mutant: no exclusion constraint.
UpdateBookingUnconstrained(r, new, goOn) ==
  LET q == request[r]
  IN /\ booking' = [booking EXCEPT ![q.on] = new]
     /\ Audited(q.on, {Row("booking", q.saw.status, new.status)})
     /\ request' = [request EXCEPT ![r] = IF goOn THEN Elevated(q) ELSE Idle]

\* UPDATE bookings ... WHERE id = b, with its audit row, and COMMIT.  The
\* exclusion constraint fails the transaction, and so the request, when the
\* new row would overlap another active one.
UpdateBooking(r, new, goOn) ==
  LET q == request[r]
      fits == new.status \in Active => Available(q.on)
  IN \/ /\ fits
        /\ booking' = [booking EXCEPT ![q.on] = new]
        /\ Audited(q.on, {Row("booking", q.saw.status, new.status)})
        /\ request' = [request EXCEPT ![r] =
             IF goOn THEN Elevated(q) ELSE Idle]
     \/ /\ ~fits
        /\ Done(r)
        /\ UNCHANGED <<booking, audit>>

\* The same when only the status column is set.
UpdateStatus(r, status, goOn) ==
  /\ UpdateBooking(r, [booking[request[r].on] EXCEPT !.status = status], goOn)
  /\ UNCHANGED <<escrow, reviews, gateway, sweep>>

\* UPDATE escrows ... with its audit rows, COMMIT, and the action returns.
UpdateEscrow(r, new, before) ==
  LET q == request[r]
  IN /\ escrow' = [escrow EXCEPT ![q.on] = new]
     /\ Audited(q.on, {Row("escrow", before, new.status)})
     /\ Done(r)
     /\ UNCHANGED <<booking, reviews, gateway, sweep>>

\* Mutant: the status check forgotten.
ReadEscrowUnchecked(r, wanted, step) ==
  /\ request[r].at = "escrow"
  /\ Goto(r, step)
  /\ UNCHANGED <<db, gateway, sweep>>

\* The escrow transaction reads the row: go on when it is in the status the
\* helper works on, otherwise return without effect.
ReadEscrow(r, wanted, step) ==
  /\ request[r].at = "escrow"
  /\ \/ escrow[request[r].on].status = wanted /\ Goto(r, step)
     \/ escrow[request[r].on].status # wanted /\ Done(r)
  /\ UNCHANGED <<db, gateway, sweep>>

CallGateway(r, call, step) ==
  /\ Called(request[r].on, call)
  /\ Goto(r, step)
  /\ UNCHANGED <<db, sweep>>

----------------------------------------------------------------------------
(* requestBooking, on the family's connection.  The check and the INSERT   *)
(* are one step: a check gone stale only admits a request for a time since *)
(* taken, a state reached anyway when the other is confirmed later.        *)

RequestBooking(b) ==
  /\ booking[b].status = "none"
  /\ SeemsAvailable(b)
  /\ booking' = [booking EXCEPT ![b].status = "requested"]
  /\ Audited(b, {Row("booking", "none", "requested")})
  /\ UNCHANGED <<escrow, reviews, gateway, request, sweep>>

(* acceptBooking: requested -> confirmed, then authorizeEscrowForBooking.  *)

AcceptBooking(r, b) ==
  /\ booking[b].status = "requested"
  /\ Available(b)
  /\ Begin(r, Having("accept", "caregiver", b, "book"))

AcceptBookingCommit(r) ==
  At(r, "accept", "book") /\ UpdateStatus(r, "confirmed", TRUE)

AuthorizeEscrowRead(r) ==
  request[r].op = "accept" /\ ReadEscrow(r, "none", "authorize")

AuthorizeEscrowCall(r) ==
  /\ At(r, "accept", "authorize")
  /\ CallGateway(r, <<"authorize", FamilyPays>>, "write")

\* INSERT INTO escrows: booking_id is UNIQUE, so a second insert throws.
AuthorizeEscrowWrite(r) ==
  /\ At(r, "accept", "write")
  /\ \/ /\ escrow[request[r].on].status = "none"
        /\ UpdateEscrow(r, [NoEscrow EXCEPT !.status = "authorized"], "none")
     \/ /\ escrow[request[r].on].status # "none"
        /\ Done(r)
        /\ UNCHANGED <<db, gateway, sweep>>

(* declineBooking: requested -> cancelled; there is no escrow to unwind.   *)

DeclineBooking(r, b) ==
  /\ booking[b].status = "requested"
  /\ Begin(r, Having("decline", "caregiver", b, "book"))

DeclineBookingCommit(r) ==
  At(r, "decline", "book") /\ UpdateStatus(r, "cancelled", FALSE)

(* startSession: confirmed -> in_progress, then captureEscrowForBooking.   *)

StartSession(r, b) ==
  /\ booking[b].status = "confirmed"
  /\ Begin(r, Having("start", "family", b, "book"))

StartSessionCommit(r) ==
  At(r, "start", "book") /\ UpdateStatus(r, "in_progress", TRUE)

CaptureEscrowRead(r) ==
  request[r].op = "start" /\ ReadEscrow(r, "authorized", "capture")

CaptureEscrowCall(r) ==
  At(r, "start", "capture") /\ CallGateway(r, <<"capture", FamilyPays>>, "write")

\* The UPDATE names the row only: it does not look at the status again.
CaptureEscrowWrite(r) ==
  /\ At(r, "start", "write")
  /\ UpdateEscrow(r, [escrow[request[r].on] EXCEPT !.status = "captured"], "authorized")

(* familyConfirmEnd / caregiverConfirmEnd: confirmSessionEnd writes both   *)
(* ended columns from the row it read; the second confirmation completes   *)
(* the booking, and then openDisputeWindowForBooking runs.                 *)

ConfirmEnd(r, b, side) ==
  /\ booking[b].status = "in_progress"
  /\ Begin(r, Having("confirmEnd", side, b, "book"))

\* Mutant: only the column of the side that confirms is taken as set.
EndedAlone(q) ==
  [familyEnded |-> q.actor = "family", caregiverEnded |-> q.actor = "caregiver"]

Ended(q) ==
  [familyEnded |-> q.saw.familyEnded \/ q.actor = "family",
   caregiverEnded |-> q.saw.caregiverEnded \/ q.actor = "caregiver"]

BothConfirmed(q) == Ended(q).familyEnded /\ Ended(q).caregiverEnded

ConfirmEndCommit(r) ==
  LET q == request[r]
  IN /\ At(r, "confirmEnd", "book")
     /\ UpdateBooking(r,
          [status |-> IF BothConfirmed(q) THEN "completed" ELSE "in_progress",
           familyEnded |-> Ended(q).familyEnded,
           caregiverEnded |-> Ended(q).caregiverEnded],
          BothConfirmed(q))
     /\ UNCHANGED <<escrow, reviews, gateway, sweep>>

OpenDisputeWindowRead(r) ==
  LET e == escrow[request[r].on]
  IN /\ At(r, "confirmEnd", "escrow")
     /\ \/ e.status = "captured" /\ e.window = "none" /\ Goto(r, "write")
        \/ (e.status # "captured" \/ e.window # "none") /\ Done(r)
     /\ UNCHANGED <<db, gateway, sweep>>

OpenDisputeWindowWrite(r) ==
  LET q == request[r]
  IN /\ At(r, "confirmEnd", "write")
     /\ escrow' = [escrow EXCEPT ![q.on].window = "open"]
     /\ Audited(q.on, {Row("escrow", "none", "window")})
     /\ Done(r)
     /\ UNCHANGED <<booking, reviews, gateway, sweep>>

(* cancelBooking: requested | confirmed -> cancelled; a confirmed booking  *)
(* may owe a fee, and then refundEscrowForBooking unwinds the escrow.      *)

\* Mutant: any booking not yet over may be cancelled.
CancelBookingAnytime(r, b) ==
  /\ booking[b].status \in {"requested", "confirmed", "in_progress", "disputed"}
  /\ \E fee \in Fees : Begin(r, [Having("cancel", "family", b, "book") EXCEPT !.fee = fee])

CancelBooking(r, b) ==
  /\ booking[b].status \in {"requested", "confirmed"}
  /\ \E fee \in IF booking[b].status = "confirmed" THEN Fees ELSE {0} :
       Begin(r, [Having("cancel", "family", b, "book") EXCEPT !.fee = fee])

\* Mutant: the escrow of a confirmed booking is not unwound.
CancelBookingCommitOnly(r) == At(r, "cancel", "book") /\ UpdateStatus(r, "cancelled", FALSE)

CancelBookingCommit(r) ==
  /\ At(r, "cancel", "book")
  /\ UpdateStatus(r, "cancelled", request[r].saw.status = "confirmed")

\* The part of the fee the family's payment covers.
CoveredFeeUncapped(fee) == fee   \* mutant: Math.min forgotten

CoveredFee(fee) == IF fee <= FamilyPays THEN fee ELSE FamilyPays

RefundEscrowRead(r) ==
  LET q == request[r]
  IN /\ At(r, "cancel", "escrow")
     /\ \/ /\ escrow[q.on].status = "authorized"
           /\ request' = [request EXCEPT ![r] =
                [q EXCEPT !.fee = CoveredFee(@), !.at = "fee"]]
        \/ escrow[q.on].status # "authorized" /\ Done(r)
     /\ UNCHANGED <<db, gateway, sweep>>

RefundEscrowFeeCall(r) ==
  LET q == request[r]
  IN /\ At(r, "cancel", "fee")
     /\ \/ q.fee > 0 /\ Called(q.on, <<"capture", q.fee>>)
        \/ q.fee = 0 /\ UNCHANGED gateway
     /\ Goto(r, "rest")
     /\ UNCHANGED <<db, sweep>>

\* Mutant: the rest is given back only when no fee was kept.
RefundEscrowRestCallFeeless(r) ==
  LET q == request[r]
  IN /\ At(r, "cancel", "rest")
     /\ \/ q.fee = 0 /\ Called(q.on, <<"refund", FamilyPays>>)
        \/ q.fee > 0 /\ UNCHANGED gateway
     /\ Goto(r, "write")
     /\ UNCHANGED <<db, sweep>>

RefundEscrowRestCall(r) ==
  LET q == request[r]
      rest == FamilyPays - q.fee
  IN /\ At(r, "cancel", "rest")
     /\ \/ rest > 0 /\ Called(q.on, <<"refund", rest>>)
        \/ rest <= 0 /\ UNCHANGED gateway
     /\ Goto(r, "write")
     /\ UNCHANGED <<db, sweep>>

\* Again no look at the status.
RefundEscrowWrite(r) ==
  LET q == request[r]
  IN /\ At(r, "cancel", "write")
     /\ UpdateEscrow(r, [escrow[q.on] EXCEPT !.status = "refunded", !.fee = q.fee],
                     "authorized")

(* raiseDispute: in_progress -> disputed, then holdEscrowForDispute.       *)

\* Mutant: a completed booking can still be disputed.
RaiseDisputeLate(r, b, side) ==
  /\ booking[b].status \in {"in_progress", "completed"}
  /\ Begin(r, Having("dispute", side, b, "book"))

RaiseDispute(r, b, side) ==
  /\ booking[b].status = "in_progress"
  /\ Begin(r, Having("dispute", side, b, "book"))

RaiseDisputeCommit(r) ==
  At(r, "dispute", "book") /\ UpdateStatus(r, "disputed", TRUE)

HoldEscrowRead(r) ==
  request[r].op = "dispute" /\ ReadEscrow(r, "captured", "write")

\* The UPDATE is guarded; the audit row is written whether or not it matched.
HoldEscrowWrite(r) ==
  LET e == escrow[request[r].on]
      q == request[r]
  IN /\ At(r, "dispute", "write")
     /\ \/ e.status = "captured" /\ escrow' = [escrow EXCEPT ![q.on].status = "disputed"]
        \/ e.status # "captured" /\ UNCHANGED escrow
     /\ Audited(q.on, {Row("escrow", "captured", "disputed")})
     /\ Done(r)
     /\ UNCHANGED <<booking, reviews, gateway, sweep>>

(* leaveReview: submitReview inserts the review, then looks for the other  *)
(* party's among the committed rows and its own; when both have reviewed,  *)
(* releaseEscrowForBooking runs.                                           *)

\* Mutant: a review does not wait for completion.
LeaveReviewEarly(r, b, side) ==
  /\ booking[b].status \in {"in_progress", "completed"}
  /\ side \notin reviews[b]
  /\ Begin(r, Having("review", side, b, "insert"))

LeaveReview(r, b, side) ==
  /\ booking[b].status = "completed"
  /\ side \notin reviews[b]
  /\ Begin(r, Having("review", side, b, "insert"))

\* Mutant: the other party's review counts only once it and this one are stored.
InsertReviewOwnUnseen(r) ==
  LET q == request[r]
  IN /\ At(r, "review", "insert")
     /\ Goto(r, IF reviews[q.on] = Both THEN "both" ELSE "one")
     /\ UNCHANGED <<db, gateway, sweep>>

InsertReview(r) ==
  LET q == request[r]
  IN /\ At(r, "review", "insert")
     /\ Goto(r, IF reviews[q.on] \cup {q.actor} = Both THEN "both" ELSE "one")
     /\ UNCHANGED <<db, gateway, sweep>>

LeaveReviewCommit(r) ==
  LET q == request[r]
  IN /\ q.op = "review"
     /\ \/ /\ q.at = "both"
           /\ request' = [request EXCEPT ![r] = Elevated(q)]
        \/ q.at = "one" /\ Done(r)
     /\ reviews' = [reviews EXCEPT ![q.on] = @ \cup {q.actor}]
     /\ UNCHANGED <<booking, escrow, audit, gateway, sweep>>

ReleaseEscrowRead(r) ==
  request[r].op = "review" /\ ReadEscrow(r, "captured", "payout")

\* The caregiver is paid before the guarded UPDATE.
ReleaseEscrowCall(r) ==
  At(r, "review", "payout") /\ CallGateway(r, <<"payout", CaregiverPayout>>, "write")

ReleaseEscrowWrite(r) ==
  LET e == escrow[request[r].on]
  IN /\ At(r, "review", "write")
     /\ \/ /\ e.status = "captured"
           /\ UpdateEscrow(r, [e EXCEPT !.status = "released"], "captured")
        \/ /\ e.status # "captured"
           /\ Done(r)
           /\ UNCHANGED <<db, gateway, sweep>>

(* resolveDispute: one transaction on both rows, by an admin.              *)

Outcome(resolution) == IF resolution = "release" THEN "released" ELSE "refunded"

\* Mutant: assertEscrowTransition forgotten.
ResolveDisputeUnasserted(r, b, resolution) ==
  /\ booking[b].status = "disputed"
  /\ escrow[b].status # "none"
  /\ Begin(r, [Having(resolution, "admin", b,
                      IF resolution = "release" THEN "payout" ELSE "refund")
               EXCEPT !.escrowSaw = escrow[b].status])

ResolveDispute(r, b, resolution) ==
  /\ booking[b].status = "disputed"
  /\ escrow[b].status # "none"
  /\ CanTransitionEscrow(escrow[b].status, Outcome(resolution))
  /\ Begin(r, [Having(resolution, "admin", b,
                      IF resolution = "release" THEN "payout" ELSE "refund")
               EXCEPT !.escrowSaw = escrow[b].status])

ResolveDisputeCall(r) ==
  \/ /\ At(r, "release", "payout")
     /\ CallGateway(r, <<"payout", CaregiverPayout>>, "write")
  \/ /\ At(r, "refund", "refund")
     /\ CallGateway(r, <<"refund", FamilyPays>>, "write")

\* Neither UPDATE looks at a status again.  The audit row records both
\* changes; it is written here as one row for each entity.
ResolveDisputeCommit(r, resolution) ==
  LET q == request[r]
      money == Outcome(resolution)
      care == IF resolution = "release" THEN "completed" ELSE "cancelled"
  IN /\ At(r, resolution, "write")
     /\ escrow' = [escrow EXCEPT ![q.on].status = money]
     /\ booking' = [booking EXCEPT ![q.on].status = care]
     /\ Audited(q.on, {Row("escrow", q.escrowSaw, money),
                       Row("booking", q.saw.status, care)})
     /\ Done(r)
     /\ UNCHANGED <<reviews, gateway, sweep>>

(* A request ends early: the server stops, or a call throws.  Transactions *)
(* that did not commit leave no trace; what committed before stays.        *)

RequestFails(r) ==
  /\ CanCrash
  /\ request[r] # Idle
  /\ Done(r)
  /\ UNCHANGED <<db, gateway, sweep>>

----------------------------------------------------------------------------
(* The worker's escrow.sweep job, and the clock of the dispute window.     *)

WindowElapses(b) ==
  /\ escrow[b].window = "open"
  /\ escrow' = [escrow EXCEPT ![b].window = "elapsed"]
  /\ UNCHANGED <<booking, reviews, audit, gateway, request, sweep>>

\* Mutants: a window not looked at, a comparison the wrong way round.
DueAnyWindow == {b \in Bookings : escrow[b].status = "captured"}
DueStillOpen == {b \in Bookings : escrow[b].status = "captured" /\ escrow[b].window = "open"}

Due == {b \in Bookings : escrow[b].status = "captured" /\ escrow[b].window = "elapsed"}

SweepRead(w) ==
  /\ sweep[w] = Resting
  /\ Due # {}
  /\ sweep' = [sweep EXCEPT ![w].batch = Due]
  /\ UNCHANGED <<db, gateway, request>>

SweepPayout(w, b) ==
  /\ b \in sweep[w].batch
  /\ sweep[w].paying = NoBooking
  /\ Called(b, <<"payout", CaregiverPayout>>)
  /\ sweep' = [sweep EXCEPT ![w].paying = b]
  /\ UNCHANGED <<db, request>>

\* Guarded; the audit row is attributed to the payee.
SweepWrite(w) ==
  LET b == sweep[w].paying
  IN /\ b \in Bookings
     /\ sweep' = [sweep EXCEPT ![w] = [batch |-> @.batch \ {b}, paying |-> NoBooking]]
     /\ \/ /\ escrow[b].status = "captured"
           /\ escrow' = [escrow EXCEPT ![b].status = "released"]
           /\ Audited(b, {Row("escrow", "captured", "released")})
        \/ /\ escrow[b].status # "captured"
           /\ UNCHANGED <<escrow, audit>>
     /\ UNCHANGED <<booking, reviews, gateway, request>>

SweepFails(w) ==
  /\ CanCrash
  /\ sweep[w] # Resting
  /\ sweep' = [sweep EXCEPT ![w] = Resting]
  /\ UNCHANGED <<db, gateway, request>>

----------------------------------------------------------------------------
\* The transaction that opens a request.
Opens(r, b) ==
  \/ AcceptBooking(r, b)
  \/ DeclineBooking(r, b)
  \/ StartSession(r, b)
  \/ \E side \in Sides : ConfirmEnd(r, b, side)
  \/ CancelBooking(r, b)
  \/ \E side \in Sides : RaiseDispute(r, b, side)
  \/ \E side \in Sides : LeaveReview(r, b, side)
  \/ \E resolution \in {"release", "refund"} : ResolveDispute(r, b, resolution)

\* A step of a request in flight.
Proceeds(r) ==
  \/ AcceptBookingCommit(r) \/ AuthorizeEscrowRead(r)
  \/ AuthorizeEscrowCall(r) \/ AuthorizeEscrowWrite(r)
  \/ DeclineBookingCommit(r)
  \/ StartSessionCommit(r) \/ CaptureEscrowRead(r)
  \/ CaptureEscrowCall(r) \/ CaptureEscrowWrite(r)
  \/ ConfirmEndCommit(r) \/ OpenDisputeWindowRead(r) \/ OpenDisputeWindowWrite(r)
  \/ CancelBookingCommit(r) \/ RefundEscrowRead(r) \/ RefundEscrowFeeCall(r)
  \/ RefundEscrowRestCall(r) \/ RefundEscrowWrite(r)
  \/ RaiseDisputeCommit(r) \/ HoldEscrowRead(r) \/ HoldEscrowWrite(r)
  \/ InsertReview(r) \/ LeaveReviewCommit(r) \/ ReleaseEscrowRead(r)
  \/ ReleaseEscrowCall(r) \/ ReleaseEscrowWrite(r)
  \/ ResolveDisputeCall(r)
  \/ \E resolution \in {"release", "refund"} : ResolveDisputeCommit(r, resolution)

Sweeps(w) ==
  SweepRead(w) \/ SweepWrite(w) \/ (\E b \in Bookings : SweepPayout(w, b))

Next ==
  \/ \E b \in Bookings : RequestBooking(b) \/ WindowElapses(b)
  \/ \E r \in Requests, b \in Bookings : Opens(r, b)
  \/ \E r \in Requests : Proceeds(r) \/ RequestFails(r)
  \/ \E w \in Workers : Sweeps(w) \/ SweepFails(w)

Spec == Init /\ [][Next]_vars
----------------------------------------------------------------------------
(* What holds whatever requests, sweeps and crashes interleave.            *)

Recorded(b, from, to) ==
  \E row \in audit[b] : row.entity = "booking" /\ row.before \in from /\ row.after = to

Accepted(b) == Recorded(b, {"requested"}, "confirmed")
Started(b) == Recorded(b, {"confirmed"}, "in_progress")
Completed(b) == Recorded(b, {"in_progress", "disputed"}, "completed")
Contested(b) == Recorded(b, {"in_progress"}, "disputed")

\* The caregiver is paid only out of a charge taken in full, whichever of the
\* three payout paths (both reviews, sweep, admin) pays and however late:
\* "Payout happens only from the CAPTURED state" (escrow-sweep.ts).
PaidOnlyFromCharge ==
  \A b \in Bookings : <<"payout", CaregiverPayout>> \in gateway[b] =>
                        <<"capture", FamilyPays>> \in gateway[b]

\* The escrow never runs ahead of the care: it exists only for a booking a
\* caregiver accepted, is captured only for a session that started, is frozen
\* only by a dispute, and is released only after a recorded completion.  Each
\* escrow effect commits after, and apart from, the transition that causes it.
EscrowFollowsCare ==
  \A b \in Bookings :
    /\ escrow[b].status # "none" => Accepted(b)
    /\ escrow[b].status \in {"captured", "disputed", "released"} => Started(b)
    /\ escrow[b].status = "disputed" => Contested(b)
    /\ escrow[b].status = "released" \/ escrow[b].window # "none" => Completed(b)

\* No payout order reaches the gateway for care that nobody declared ended and
\* nobody disputed (the order is sent before the commit that justifies it).
PaidOnlyForCare ==
  \A b \in Bookings : <<"payout", CaregiverPayout>> \in gateway[b] =>
                        Completed(b) \/ Contested(b)

\* A refunded escrow is money given back: the whole charge by an admin, or the
\* rest after exactly the cancellation fee the row records was captured.
RefundMatchesFee ==
  \A b \in Bookings : escrow[b].status = "refunded" =>
    \/ <<"refund", FamilyPays>> \in gateway[b]
    \/ /\ escrow[b].fee > 0
       /\ <<"capture", escrow[b].fee>> \in gateway[b]
       /\ escrow[b].fee < FamilyPays =>
            <<"refund", FamilyPays - escrow[b].fee>> \in gateway[b]
    \/ FamilyPays = 0

\* No party drives a transition that TRANSITION_ACTORS does not give it.  The
\* server actions never consult that table: each is open to one role and guards
\* on the status it read.
OnlyPermittedActors ==
  [][\A r \in Requests :
       LET q == request[r]
           to == booking'[q.on].status
       IN q.on \in Bookings /\ request'[r] # q /\ booking' # booking =>
            q.saw.status = to \/ ActorCanTransition(q.saw.status, to, q.actor)]_vars

\* A caregiver never holds two overlapping confirmed or running bookings,
\* though accept checks availability before it writes and start does not check.
NoDoubleBooking ==
  \A b, c \in Bookings : b # c /\ {b, c} \in Clashes =>
    ~(booking[b].status \in Active /\ booking[c].status \in Active)

\* `in_progress -> completed` requires both confirmations and "fires the moment the
\* second confirmation lands": while actions take turns on a booking, no other
\* action takes a confirmation back, and with both the session is not in progress.
ConfirmationsKept ==
  [][\A b \in Bookings :
       /\ booking[b].familyEnded => booking'[b].familyEnded
       /\ booking[b].caregiverEnded => booking'[b].caregiverEnded
       /\ booking'[b].familyEnded /\ booking'[b].caregiverEnded
            => booking'[b].status # "in_progress"]_vars

\* The calls the gateway accepts keep to the abstract contract.
Contract == INSTANCE PaymentContract WITH ledger <- gateway
GatewayContract == Contract!Spec

----------------------------------------------------------------------------
(* Fairness: a request in flight goes on, a dispute window elapses, and    *)
(* the worker keeps sweeping; crashes do not strike for ever at the same   *)
(* point of a sweep.  Nobody is forced to open a request.                  *)

Fairness ==
  /\ \A r \in Requests : WF_vars(Proceeds(r))
  /\ \A b \in Bookings : WF_vars(WindowElapses(b))
  /\ \A w \in Workers : WF_vars(SweepRead(w)) /\ SF_vars(SweepWrite(w))
  /\ \A w \in Workers, b \in Bookings : SF_vars(SweepPayout(w, b))

FairSpec == Spec /\ Fairness

\* "Releases every captured escrow whose 24h dispute window has elapsed": once
\* the window is open, a captured escrow is eventually released, or an admin or
\* a racing request decides otherwise.
OpenWindowSettles ==
  \A b \in Bookings : (escrow[b].status = "captured" /\ escrow[b].window # "none")
                          ~> escrow[b].status # "captured"

----------------------------------------------------------------------------
(* What holds when requests come one at a time.                            *)

Moves(rows, b) == rows[b].status # rows'[b].status

\* Every change of a booking's status is one the lifecycle allows.
LegalBookingSteps ==
  [][\A b \in Bookings : Moves(booking, b) =>
       IF booking[b].status = "none" THEN booking'[b].status = "requested"
       ELSE CanTransition(booking[b].status, booking'[b].status)]_vars

\* Every change of an escrow's status is one its lifecycle allows.
LegalEscrowSteps ==
  [][\A b \in Bookings : Moves(escrow, b) =>
       IF escrow[b].status = "none" THEN escrow'[b].status = "authorized"
       ELSE CanTransitionEscrow(escrow[b].status, escrow'[b].status)]_vars

\* Between requests, booking and escrow tell the same story.
BooksAgree ==
  \A b \in Bookings : Quiet(b) =>
    LET e == escrow[b].status
    IN CASE booking[b].status \in {"none", "requested"} -> e = "none"
         [] booking[b].status = "confirmed" -> e = "authorized"
         [] booking[b].status = "in_progress" -> e = "captured"
         [] booking[b].status = "disputed" -> e = "disputed"
         [] booking[b].status = "completed" ->
              e = "released" \/ (e = "captured" /\ escrow[b].window # "none")
         [] booking[b].status = "cancelled" -> e \in {"none", "refunded"}

\* When both parties have reviewed, the money is released at once.
BothReviewedReleases ==
  \A b \in Bookings : Quiet(b) /\ reviews[b] = Both => escrow[b].status = "released"

\* The lifecycle keeps the abstract promise, crashes included.
Promise == INSTANCE CareContract WITH
             care <- [b \in Bookings |-> booking[b].status],
             money <- [b \in Bookings |-> escrow[b].status]
KeepsPromise == Promise!Spec

----------------------------------------------------------------------------
(* What the source states and interleavings refute.                        *)

\* "both reviews OR 24h": a completed booking whose family was charged does not
\* keep the money for ever (review-service.ts, escrow-service.ts).
CompletedSettles ==
  \A b \in Bookings : (booking[b].status = "completed" /\ escrow[b].status = "captured")
                          ~> escrow[b].status # "captured"

\* "'available' means: [the range] does not overlap any of their CONFIRMED or
\* IN_PROGRESS bookings" (availability.ts): nobody asks for a time that is taken.
RequestsFreeTime ==
  [][\A b \in Bookings : booking[b].status = "none" /\ booking'[b].status = "requested"
                            => Available(b)]_vars
============================================================================
