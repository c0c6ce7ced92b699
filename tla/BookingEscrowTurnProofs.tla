---------------------- MODULE BookingEscrowTurnProofs ----------------------
(***************************************************************************)
(* What holds while the server actions on a booking take turns: that the   *)
(* lifecycle keeps the promise of CareContract, crashes included, that a   *)
(* confirmation is not taken back, and, where nothing crashes, that        *)
(* between actions booking and escrow tell the same story.                 *)
(*                                                                         *)
(* An action then finds, at each of its steps, what it found at the one    *)
(* before: the invariant says where each action in flight stands.  Only    *)
(* the sweep still runs beside it, and it touches nothing but bookings     *)
(* whose dispute window was opened, which are completed.                   *)
(***************************************************************************)
EXTENDS BookingEscrowMoneyProofs

\* Where the booking and its escrow stand while an action on it is at a step.
PlacedCare(q, row) ==
  /\ q.at = "book" => row = q.saw /\ q.op # "review"
  /\ q.at # "book" =>
       CASE q.op = "accept" -> row.status = "confirmed"
         [] q.op = "start" -> row.status = "in_progress"
         [] q.op \in {"confirmEnd", "review"} -> row.status = "completed"
         [] q.op = "cancel" -> row.status = "cancelled"
         [] q.op \in {"dispute", "release", "refund"} -> row.status = "disputed"
         [] OTHER -> FALSE

PlacedMoney(q, e) ==
  /\ q.op = "accept" /\ q.at \in {"authorize", "write"} => e.status = "none"
  /\ q.op = "start" /\ q.at \in {"capture", "write"} => e.status = "authorized"
  /\ q.op = "confirmEnd" /\ q.at = "write" => e.window = "none"
  /\ q.op = "cancel" /\ q.at \in {"fee", "rest", "write"} => e.status = "authorized"
  /\ q.op = "dispute" /\ q.at = "write" => e.status = "captured"
  /\ q.op \in {"release", "refund"} =>
       /\ e.status = q.escrowSaw /\ q.escrowSaw # "none"
       /\ CanTransitionEscrow(q.escrowSaw, Outcome(q.op))

Placed(q, row, e) == PlacedCare(q, row) /\ PlacedMoney(q, e)

\* A window is opened on a completed booking only, and no confirmation comes before the
\* start of the session or leaves both standing on a session not completed.
RowSound(row, e) ==
  /\ e.window # "none" => row.status = "completed"
  /\ e.status # "pending"
  /\ row.familyEnded \/ row.caregiverEnded =>
       row.status \notin {"none", "requested", "confirmed"}
  /\ row.familyEnded /\ row.caregiverEnded => row.status = "completed"

OneEach ==
  \A r, s \in Requests :
    request[r] # Idle /\ request[s] # Idle /\ request[r].on = request[s].on => r = s

SlotsPlaced ==
  \A r \in Requests :
    LET q == request[r]
    IN  q # Idle => Placed(q, booking[q.on], escrow[q.on])

SweepsTimely ==
  \A w \in Workers, b \in Bookings :
    b \in sweep[w].batch \/ sweep[w].paying = b => escrow[b].window = "elapsed"

TurnInv ==
  /\ OneEach
  /\ SlotsPlaced
  /\ \A b \in Bookings : RowSound(booking[b], escrow[b])
  /\ SweepsTimely

\* Booking and escrow tell the same story.
AgreeWith(row, e) ==
  CASE row.status \in {"none", "requested"} -> e.status = "none"
    [] row.status = "confirmed" -> e.status = "authorized"
    [] row.status = "in_progress" -> e.status = "captured"
    [] row.status = "disputed" -> e.status = "disputed"
    [] row.status = "completed" ->
         e.status = "released" \/ (e.status = "captured" /\ e.window # "none")
    [] row.status = "cancelled" -> e.status \in {"none", "refunded"}

\* The story of a booking at rest, and of one an action is working on.
Rested(row, e, rev) ==
  /\ AgreeWith(row, e)
  /\ rev = Both => e.status = "released"

Underway(q, row, e, rev) ==
  /\ q.at = "book" \/ q.op \in {"release", "refund", "review"} => AgreeWith(row, e)
  /\ q.at # "book" =>
       /\ q.op = "accept" => e.status = "none"
       /\ q.op = "start" => e.status = "authorized"
       /\ q.op = "confirmEnd" => e.status = "captured" /\ e.window = "none"
       /\ q.op = "cancel" => e.status \in {"none", "authorized"}
       /\ q.op = "dispute" => e.status = "captured"
  /\ q.op # "review" => rev = {}
  /\ q.op = "review" /\ q.at \in {"insert", "one", "both"} => q.actor \notin rev
  /\ q.op = "review" /\ q.at = "one" => rev \cup {q.actor} # Both

AgreeInv ==
  /\ \A b \in Bookings : Quiet(b) => Rested(booking[b], escrow[b], reviews[b])
  /\ \A r \in Requests :
       LET q == request[r]
       IN  q # Idle => Underway(q, booking[q.on], escrow[q.on], reviews[q.on])
  /\ \A b \in Bookings : reviews[b] # {} => booking[b].status = "completed"

----------------------------------------------------------------------------
(* One step of one action.                                                 *)

\* A move that CareContract promises, of one booking's care and money.
PromisedMove(c, m, c2, m2) ==
  \/ c2 = c /\ m2 = m
  \/ /\ m2 = m
     /\ \/ c = "none" /\ c2 = "requested"
        \/ c = "requested" /\ c2 = "confirmed"
        \/ c = "confirmed" /\ c2 = "in_progress"
        \/ c = "in_progress" /\ c2 \in {"completed", "disputed"}
        \/ c \in {"requested", "confirmed"} /\ c2 = "cancelled"
  \/ /\ c2 = c
     /\ \/ c = "confirmed" /\ m = "none" /\ m2 = "authorized"
        \/ c = "in_progress" /\ m = "authorized" /\ m2 = "captured"
        \/ c = "disputed" /\ m = "captured" /\ m2 = "disputed"
        \/ c = "completed" /\ m = "captured" /\ m2 = "released"
        \/ c = "cancelled" /\ m = "authorized" /\ m2 = "refunded"
  \/ /\ c = "disputed"
     /\ \/ m \in {"captured", "disputed"} /\ c2 = "completed" /\ m2 = "released"
        \/ m \in {"authorized", "captured", "disputed"} /\ c2 = "cancelled" /\ m2 = "refunded"

\* What a step may make of one booking's rows.
MovedWell(row, e, row2, e2) ==
  /\ PromisedMove(row.status, e.status, row2.status, e2.status)
  /\ RowSound(row2, e2)
  /\ row.familyEnded => row2.familyEnded
  /\ row.caregiverEnded => row2.caregiverEnded
  /\ e.window # "none" => e2.window # "none"
  /\ e.window = "elapsed" => e2.window = "elapsed"

OnlyRow(b) ==
  \A c \in Bookings \ {b} : booking'[c] = booking[c] /\ escrow'[c] = escrow[c]

Handled(r, x) ==
  LET b == request[r].on
  IN  /\ request' = [request EXCEPT ![r] = x]
      /\ x = Idle \/ (x.on = b /\ Placed(x, booking'[b], escrow'[b]))
      /\ OnlyRow(b)
      /\ MovedWell(booking[b], escrow[b], booking'[b], escrow'[b])

HandledBy(r) == \E x : Handled(r, x)

LEMMA SlotStands ==
  ASSUME TypeInv, TurnInv, NEW r \in Requests, request[r].op \in Ops
  PROVE  /\ request[r] \in RunningRequests /\ request[r] # Idle
         /\ request[r].on \in Bookings
         /\ booking[request[r].on] \in BookingRows
         /\ escrow[request[r].on] \in EscrowRows
         /\ Placed(request[r], booking[request[r].on], escrow[request[r].on])
         /\ RowSound(booking[request[r].on], escrow[request[r].on])
<1>1. request[r] \in RunningRequests /\ request[r] # Idle
  BY SlotTypes DEF TypeInv, Idle, Ops
<1>2. request[r].on \in Bookings
  BY <1>1 DEF RunningRequests
<1>3. QED
  BY <1>1, <1>2 DEF TypeInv, TypeOK, TurnInv, SlotsPlaced

\* A step that leaves the rows alone.
LEMMA HandledAside ==
  ASSUME TypeInv, TurnInv, NEW r \in Requests, request[r].op \in Ops,
         UNCHANGED <<booking, escrow>>, NEW x,
         request' = [request EXCEPT ![r] = x],
         \/ x = Idle
         \/ /\ x.on = request[r].on
            /\ Placed(x, booking[request[r].on], escrow[request[r].on])
  PROVE  Handled(r, x)
<1>1. RowSound(booking[request[r].on], escrow[request[r].on])
  BY SlotStands
<1>2. QED
  BY <1>1 DEF Handled, OnlyRow, MovedWell, PromisedMove

LEMMA HandledReturn ==
  ASSUME TypeInv, TurnInv, NEW r \in Requests, request[r].op \in Ops,
         UNCHANGED <<booking, escrow>>, Done(r)
  PROVE  HandledBy(r)
BY HandledAside DEF Done, HandledBy

LEMMA HandledMove ==
  ASSUME TypeInv, TurnInv, NEW r \in Requests, request[r].op \in Ops,
         UNCHANGED <<booking, escrow>>, NEW step, step # "book", Goto(r, step),
         request[r].at # "book",
         LET q == request[r]
             e == escrow[q.on]
         IN  /\ q.op = "accept" /\ step \in {"authorize", "write"} => e.status = "none"
             /\ q.op = "start" /\ step \in {"capture", "write"} => e.status = "authorized"
             /\ q.op = "confirmEnd" /\ step = "write" => e.window = "none"
             /\ q.op = "cancel" /\ step \in {"fee", "rest", "write"} => e.status = "authorized"
             /\ q.op = "dispute" /\ step = "write" => e.status = "captured"
  PROVE  HandledBy(r)
<1>1. PICK q \in RunningRequests : q = request[r]
  BY SlotStands
<1>2. PICK x : x = [q EXCEPT !.at = step]
  OBVIOUS
<1>3. x.op = q.op /\ x.at = step /\ x.on = q.on /\ x.escrowSaw = q.escrowSaw
  BY <1>2 DEF RunningRequests
<1>4. Placed(q, booking[q.on], escrow[q.on])
  BY <1>1, SlotStands
<1>5. PlacedCare(x, booking[q.on])
  BY <1>1, <1>3, <1>4 DEF Placed, PlacedCare
<1>6. PlacedMoney(x, escrow[q.on])
  BY <1>1, <1>3, <1>4 DEF Placed, PlacedMoney
<1>7. request' = [request EXCEPT ![r] = x]
  BY <1>1, <1>2 DEF Goto
<1>8. QED
  BY <1>1, <1>3, <1>5, <1>6, <1>7, HandledAside DEF Placed, HandledBy

\* A commit of the booking transaction.
LEMMA HandledCommit ==
  ASSUME TypeInv, TurnInv, NEW r \in Requests, request[r].op \in Ops,
         UNCHANGED escrow, NEW new, NEW goOn \in BOOLEAN, UpdateBooking(r, new, goOn),
         LET q == request[r]
             row == booking[q.on]
             e == escrow[q.on]
         IN  /\ row = q.saw => MovedWell(row, e, new, e)
             /\ q.at = "book"
             /\ goOn => PlacedCare([op |-> q.op, at |-> "escrow"], new)
             /\ q.op \notin {"release", "refund"}
  PROVE  HandledBy(r)
<1>1. PICK q \in RunningRequests : q = request[r]
  BY SlotStands
<1>2. CASE Done(r) /\ UNCHANGED booking
  BY <1>2, HandledReturn
<1>3. CASE /\ booking' = [booking EXCEPT ![q.on] = new]
           /\ request' = [request EXCEPT ![r] = IF goOn THEN Elevated(q) ELSE Idle]
  <2>1. PICK x : x = IF goOn THEN Elevated(q) ELSE Idle
    OBVIOUS
  <2>2. goOn => x.op = q.op /\ x.at = "escrow" /\ x.on = q.on
    BY <2>1 DEF Elevated, RunningRequests
  <2>3. q.on \in Bookings /\ booking[q.on] = q.saw
    BY <1>1, SlotStands DEF Placed, PlacedCare
  <2>4. booking'[q.on] = new /\ OnlyRow(q.on) /\ escrow'[q.on] = escrow[q.on]
    BY <1>3, <2>3 DEF TypeInv, TypeOK, OnlyRow
  <2>5. goOn => Placed(x, new, escrow[q.on])
    BY <1>1, <2>2 DEF Placed, PlacedCare, PlacedMoney
  <2>6. MovedWell(booking[q.on], escrow[q.on], new, escrow[q.on])
    BY <1>1, <2>3
  <2>7. request' = [request EXCEPT ![r] = x] /\ (x = Idle \/ goOn)
    BY <1>3, <2>1
  <2>8. QED
    BY <1>1, <2>2, <2>4, <2>5, <2>6, <2>7 DEF Handled, HandledBy
<1>4. QED
  BY <1>1, <1>2, <1>3 DEF UpdateBooking

\* A write of the escrow with which the action ends.
LEMMA HandledWrite ==
  ASSUME TypeInv, TurnInv, NEW r \in Requests, request[r].op \in Ops,
         UNCHANGED booking, Done(r), NEW e,
         escrow' = [escrow EXCEPT ![request[r].on] = e],
         MovedWell(booking[request[r].on], escrow[request[r].on], booking[request[r].on], e)
  PROVE  HandledBy(r)
<1>1. PICK b \in Bookings : b = request[r].on
  BY SlotStands
<1>2. escrow'[b] = e /\ OnlyRow(b) /\ booking'[b] = booking[b]
  BY <1>1 DEF TypeInv, TypeOK, OnlyRow
<1>3. Handled(r, Idle)
  BY <1>1, <1>2 DEF Handled, Done
<1>4. QED
  BY <1>3 DEF HandledBy

\* The moves of one booking, status by status.
LEMMA CommitMoves ==
  ASSUME NEW row \in BookingRows, NEW e \in EscrowRows, RowSound(row, e),
         NEW from, NEW to, row.status = from,
         \/ from = "requested" /\ to \in {"confirmed", "cancelled"}
         \/ from = "confirmed" /\ to \in {"in_progress", "cancelled"}
         \/ from = "in_progress" /\ to = "disputed",
         NEW new, new = [row EXCEPT !.status = to]
  PROVE  MovedWell(row, e, new, e)
<1>1. /\ new.status = to /\ new.familyEnded = row.familyEnded
      /\ new.caregiverEnded = row.caregiverEnded
  BY DEF BookingRows
<1>2. QED
  BY <1>1 DEF MovedWell, PromisedMove, RowSound

LEMMA MoneyMoves ==
  ASSUME NEW row \in BookingRows, NEW e \in EscrowRows, RowSound(row, e), NEW e2,
         e2.window = e.window,
         \/ e2.status = e.status
         \/ row.status = "confirmed" /\ e.status = "none" /\ e2.status = "authorized"
         \/ row.status = "in_progress" /\ e.status = "authorized" /\ e2.status = "captured"
         \/ row.status = "disputed" /\ e.status = "captured" /\ e2.status = "disputed"
         \/ row.status = "completed" /\ e.status = "captured" /\ e2.status = "released"
         \/ row.status = "cancelled" /\ e.status = "authorized" /\ e2.status = "refunded"
  PROVE  MovedWell(row, e, row, e2)
BY DEF MovedWell, PromisedMove, RowSound

\* The requests leave the sweeps alone.
LEMMA ProceedsLeavesSweep ==
  ASSUME NEW r \in Requests, Proceeds(r)
  PROVE  UNCHANGED sweep
BY DEF Proceeds, AcceptBookingCommit, DeclineBookingCommit, StartSessionCommit, ConfirmEndCommit,
       CancelBookingCommit, RaiseDisputeCommit, UpdateStatus, AuthorizeEscrowRead,
       CaptureEscrowRead, OpenDisputeWindowRead, RefundEscrowRead, HoldEscrowRead,
       ReleaseEscrowRead, ReadEscrow, InsertReview, LeaveReviewCommit, AuthorizeEscrowCall,
       CaptureEscrowCall, RefundEscrowFeeCall, RefundEscrowRestCall, ReleaseEscrowCall,
       ResolveDisputeCall, CallGateway, AuthorizeEscrowWrite, CaptureEscrowWrite,
       OpenDisputeWindowWrite, RefundEscrowWrite, HoldEscrowWrite, ReleaseEscrowWrite,
       UpdateEscrow, ResolveDisputeCommit

LEMMA ProceedsRuns ==
  ASSUME NEW r \in Requests, Proceeds(r)
  PROVE  request[r].op \in Ops
BY DEF Proceeds, AcceptBookingCommit, DeclineBookingCommit, StartSessionCommit, ConfirmEndCommit,
       CancelBookingCommit, RaiseDisputeCommit, AuthorizeEscrowRead, CaptureEscrowRead,
       OpenDisputeWindowRead, RefundEscrowRead, HoldEscrowRead, ReleaseEscrowRead,
       InsertReview, LeaveReviewCommit, AuthorizeEscrowCall, CaptureEscrowCall,
       RefundEscrowFeeCall, RefundEscrowRestCall, ReleaseEscrowCall, ResolveDisputeCall,
       AuthorizeEscrowWrite, CaptureEscrowWrite, OpenDisputeWindowWrite, RefundEscrowWrite,
       HoldEscrowWrite, ReleaseEscrowWrite, ResolveDisputeCommit, At, Ops

LEMMA ProceedsHandled ==
  ASSUME TypeInv, RefundInv, TurnInv, NEW r \in Requests, Proceeds(r)
  PROVE  HandledBy(r)
<1>2. PICK q : q = request[r]
  OBVIOUS
<1>3. PICK row, e : row = booking[q.on] /\ e = escrow[q.on]
  OBVIOUS
<1>4. q.op \in Ops =>
        /\ q \in RunningRequests /\ q # Idle /\ q.on \in Bookings
        /\ row \in BookingRows /\ e \in EscrowRows /\ RowSound(row, e)
        /\ PlacedCare(q, row) /\ PlacedMoney(q, e) /\ BegunBy(q)
  BY <1>2, <1>3, SlotStands DEF Placed, RefundInv, SlotSound
\* The commits of the booking transaction.
<1>5. ASSUME NEW to, NEW goOn \in BOOLEAN, UpdateStatus(r, to, goOn), q.op \in Ops, q.at = "book",
             \/ q.saw.status = "requested" /\ to \in {"confirmed", "cancelled"}
             \/ q.saw.status = "confirmed" /\ to \in {"in_progress", "cancelled"}
             \/ q.saw.status = "in_progress" /\ to = "disputed",
             goOn => \/ q.op = "accept" /\ to = "confirmed"
                     \/ q.op = "start" /\ to = "in_progress"
                     \/ q.op = "cancel" /\ to = "cancelled"
                     \/ q.op = "dispute" /\ to = "disputed",
             q.op \notin {"release", "refund"}
      PROVE  HandledBy(r)
  <2>1. PICK new : new = [row EXCEPT !.status = to]
    OBVIOUS
  <2>2. row = q.saw
    BY <1>4, <1>5 DEF PlacedCare
  <2>3. MovedWell(row, e, new, e)
    BY <1>4, <1>5, <2>1, <2>2, CommitMoves
  <2>4. new.status = to
    BY <1>4, <1>5, <2>1 DEF BookingRows
  <2>5. goOn => PlacedCare([op |-> q.op, at |-> "escrow"], new)
    BY <1>5, <2>4 DEF PlacedCare
  <2>6. UpdateBooking(r, new, goOn) /\ UNCHANGED escrow
    BY <1>2, <1>3, <1>5, <2>1 DEF UpdateStatus
  <2>7. QED
    BY <1>2, <1>3, <1>5, <2>3, <2>5, <2>6, HandledCommit
<1>6. CASE AcceptBookingCommit(r)
  BY <1>2, <1>4, <1>5, <1>6 DEF AcceptBookingCommit, At, Ops, BegunBy
<1>7. CASE DeclineBookingCommit(r)
  BY <1>2, <1>4, <1>5, <1>7 DEF DeclineBookingCommit, At, Ops, BegunBy
<1>8. CASE StartSessionCommit(r)
  BY <1>2, <1>4, <1>5, <1>8 DEF StartSessionCommit, At, Ops, BegunBy
<1>9. CASE CancelBookingCommit(r)
  BY <1>2, <1>4, <1>5, <1>9 DEF CancelBookingCommit, At, Ops, BegunBy
<1>10. CASE RaiseDisputeCommit(r)
  BY <1>2, <1>4, <1>5, <1>10 DEF RaiseDisputeCommit, At, Ops, BegunBy
<1>11. CASE ConfirmEndCommit(r)
  <2>1. PICK new : new = [status |-> IF BothConfirmed(q) THEN "completed" ELSE "in_progress",
                          familyEnded |-> Ended(q).familyEnded,
                          caregiverEnded |-> Ended(q).caregiverEnded]
    OBVIOUS
  <2>2. /\ q.op = "confirmEnd" /\ q.at = "book" /\ q.op \in Ops
        /\ UpdateBooking(r, new, BothConfirmed(q)) /\ UNCHANGED escrow
    BY <1>2, <1>11, <2>1 DEF ConfirmEndCommit, At, Ops
  <2>3. /\ row = q.saw /\ row.status = "in_progress" /\ e.window = "none"
        /\ e.status # "pending"
    BY <1>4, <2>2 DEF PlacedCare, BegunBy, RowSound
  <2>4. /\ new.familyEnded = Ended(q).familyEnded
        /\ new.caregiverEnded = Ended(q).caregiverEnded
        /\ BothConfirmed(q) => new.status = "completed"
        /\ ~ BothConfirmed(q) => new.status = "in_progress"
        /\ BothConfirmed(q) \in BOOLEAN
    BY <2>1 DEF BothConfirmed
  <2>5. /\ row.familyEnded => new.familyEnded
        /\ row.caregiverEnded => new.caregiverEnded
        /\ new.familyEnded /\ new.caregiverEnded => BothConfirmed(q)
    BY <2>3, <2>4, Zenon DEF Ended, BothConfirmed
  <2>6. MovedWell(row, e, new, e)
    BY <2>3, <2>4, <2>5 DEF MovedWell, PromisedMove, RowSound
  <2>7. BothConfirmed(q) => PlacedCare([op |-> q.op, at |-> "escrow"], new)
    BY <2>2, <2>4 DEF PlacedCare
  <2>8. QED
    BY <1>2, <1>3, <2>2, <2>4, <2>6, <2>7, HandledCommit
\* The reads of the escrow.
<1>12. ASSUME NEW wanted, NEW step, ReadEscrow(r, wanted, step), q.op \in Ops,
              step # "book", q.at # "book",
              \/ q.op = "accept" /\ wanted = "none"
              \/ q.op = "start" /\ wanted = "authorized"
              \/ q.op = "dispute" /\ wanted = "captured"
              \/ q.op = "review"
       PROVE  HandledBy(r)
  <2>1. UNCHANGED <<booking, escrow>>
    BY <1>12 DEF ReadEscrow, db
  <2>2. CASE Done(r)
    BY <1>2, <1>12, <2>1, <2>2, HandledReturn
  <2>3. CASE e.status = wanted /\ Goto(r, step)
    BY <1>2, <1>3, <1>12, <2>1, <2>3, HandledMove
  <2>4. QED
    BY <1>2, <1>3, <1>12, <2>2, <2>3 DEF ReadEscrow
<1>13. CASE AuthorizeEscrowRead(r)
  BY <1>2, <1>12, <1>13 DEF AuthorizeEscrowRead, ReadEscrow, Ops
<1>14. CASE CaptureEscrowRead(r)
  BY <1>2, <1>12, <1>14 DEF CaptureEscrowRead, ReadEscrow, Ops
<1>15. CASE HoldEscrowRead(r)
  BY <1>2, <1>12, <1>15 DEF HoldEscrowRead, ReadEscrow, Ops
<1>16. CASE ReleaseEscrowRead(r)
  BY <1>2, <1>12, <1>16 DEF ReleaseEscrowRead, ReadEscrow, Ops
<1>17. CASE OpenDisputeWindowRead(r)
  <2>1. /\ UNCHANGED <<booking, escrow>> /\ q.op = "confirmEnd" /\ q.at = "escrow"
        /\ q.op \in Ops
    BY <1>2, <1>17 DEF OpenDisputeWindowRead, db, At, Ops
  <2>2. CASE Done(r)
    BY <1>2, <2>1, <2>2, HandledReturn
  <2>3. CASE e.window = "none" /\ Goto(r, "write")
    BY <1>2, <1>3, <2>1, <2>3, HandledMove
  <2>4. QED
    BY <1>2, <1>3, <1>17, <2>2, <2>3 DEF OpenDisputeWindowRead
<1>18. CASE RefundEscrowRead(r)
  <2>1. /\ UNCHANGED <<booking, escrow>> /\ q.op = "cancel" /\ q.at = "escrow"
        /\ q.op \in Ops
    BY <1>2, <1>18 DEF RefundEscrowRead, db, At, Ops
  <2>2. CASE Done(r)
    BY <1>2, <2>1, <2>2, HandledReturn
  <2>3. CASE /\ e.status = "authorized"
             /\ request' = [request EXCEPT ![r] = [q EXCEPT !.fee = CoveredFee(@), !.at = "fee"]]
    <3>1. PICK x : x = [q EXCEPT !.fee = CoveredFee(@), !.at = "fee"]
      OBVIOUS
    <3>2. x.op = "cancel" /\ x.at = "fee" /\ x.on = q.on
      BY <1>4, <2>1, <3>1 DEF RunningRequests
    <3>3. Placed(x, row, e)
      BY <1>4, <2>1, <2>3, <3>2 DEF Placed, PlacedCare, PlacedMoney
    <3>4. QED
      BY <1>2, <1>3, <2>1, <2>3, <3>1, <3>2, <3>3, HandledAside DEF HandledBy
  <2>4. QED
    BY <1>2, <1>3, <1>18, <2>2, <2>3 DEF RefundEscrowRead
\* The calls of the gateway, which are sent before the write.
<1>19. ASSUME NEW step, step \in {"rest", "write"}, Goto(r, step), UNCHANGED <<booking, escrow>>,
              q.op \in Ops \ {"confirmEnd"},
              q.at \in {"authorize", "capture", "fee", "rest", "payout", "refund"},
              q.op = "accept" => q.at = "authorize",
              q.op = "start" => q.at = "capture",
              q.op = "cancel" => q.at \in {"fee", "rest"},
              q.op # "dispute"
       PROVE  HandledBy(r)
  <2>1. /\ q.op = "accept" => e.status = "none"
        /\ q.op \in {"start", "cancel"} => e.status = "authorized"
    BY <1>4, <1>19 DEF PlacedMoney
  <2>2. QED
    BY <1>2, <1>3, <1>19, <2>1, HandledMove
<1>20. CASE AuthorizeEscrowCall(r)
  BY <1>2, <1>19, <1>20 DEF AuthorizeEscrowCall, CallGateway, At, Ops, db
<1>21. CASE CaptureEscrowCall(r)
  BY <1>2, <1>19, <1>21 DEF CaptureEscrowCall, CallGateway, At, Ops, db
<1>22. CASE RefundEscrowFeeCall(r)
  BY <1>2, <1>19, <1>22 DEF RefundEscrowFeeCall, At, Ops, db
<1>23. CASE RefundEscrowRestCall(r)
  BY <1>2, <1>19, <1>23 DEF RefundEscrowRestCall, At, Ops, db
<1>24. CASE ReleaseEscrowCall(r)
  BY <1>2, <1>19, <1>24 DEF ReleaseEscrowCall, CallGateway, At, Ops, db
<1>25. CASE ResolveDisputeCall(r)
  BY <1>2, <1>19, <1>25 DEF ResolveDisputeCall, CallGateway, At, Ops, db
\* The writes of the escrow.
<1>26. ASSUME NEW e2, escrow' = [escrow EXCEPT ![q.on] = e2], UNCHANGED booking, Done(r),
              q.op \in Ops, e2.window = e.window,
              \/ e2.status = e.status
              \/ row.status = "confirmed" /\ e.status = "none" /\ e2.status = "authorized"
              \/ row.status = "in_progress" /\ e.status = "authorized" /\ e2.status = "captured"
              \/ row.status = "disputed" /\ e.status = "captured" /\ e2.status = "disputed"
              \/ row.status = "completed" /\ e.status = "captured" /\ e2.status = "released"
              \/ row.status = "cancelled" /\ e.status = "authorized" /\ e2.status = "refunded"
       PROVE  HandledBy(r)
  <2>1. MovedWell(row, e, row, e2)
    BY <1>4, <1>26, MoneyMoves
  <2>2. QED
    BY <1>2, <1>3, <1>26, <2>1, HandledWrite
<1>27. CASE AuthorizeEscrowWrite(r)
  <2>1. q.op = "accept" /\ q.at = "write" /\ q.op \in Ops
    BY <1>2, <1>27 DEF AuthorizeEscrowWrite, At, Ops
  <2>2. row.status = "confirmed" /\ e.status = "none" /\ e.window = "none"
    BY <1>4, <2>1 DEF PlacedCare, PlacedMoney, RowSound
  <2>3. PICK e2 : e2 = [NoEscrow EXCEPT !.status = "authorized"]
    OBVIOUS
  <2>4. e2.status = "authorized" /\ e2.window = "none"
    BY <2>3 DEF NoEscrow
  <2>5. escrow' = [escrow EXCEPT ![q.on] = e2] /\ UNCHANGED booking /\ Done(r)
    BY <1>2, <1>3, <1>27, <2>2, <2>3 DEF AuthorizeEscrowWrite, UpdateEscrow
  <2>6. QED
    BY <1>26, <2>1, <2>2, <2>4, <2>5
<1>28. CASE CaptureEscrowWrite(r)
  <2>1. q.op = "start" /\ q.at = "write" /\ q.op \in Ops
    BY <1>2, <1>28 DEF CaptureEscrowWrite, At, Ops
  <2>2. row.status = "in_progress" /\ e.status = "authorized"
    BY <1>4, <2>1 DEF PlacedCare, PlacedMoney
  <2>3. PICK e2 : e2 = [e EXCEPT !.status = "captured"]
    OBVIOUS
  <2>4. e2.status = "captured" /\ e2.window = e.window
    BY <1>4, <2>1, <2>3 DEF EscrowRows
  <2>5. escrow' = [escrow EXCEPT ![q.on] = e2] /\ UNCHANGED booking /\ Done(r)
    BY <1>2, <1>3, <1>28, <2>3 DEF CaptureEscrowWrite, UpdateEscrow
  <2>6. QED
    BY <1>26, <2>1, <2>2, <2>4, <2>5
<1>29. CASE RefundEscrowWrite(r)
  <2>1. q.op = "cancel" /\ q.at = "write" /\ q.op \in Ops
    BY <1>2, <1>29 DEF RefundEscrowWrite, At, Ops
  <2>2. row.status = "cancelled" /\ e.status = "authorized"
    BY <1>4, <2>1 DEF PlacedCare, PlacedMoney
  <2>3. PICK e2 : e2 = [e EXCEPT !.status = "refunded", !.fee = q.fee]
    OBVIOUS
  <2>4. e2.status = "refunded" /\ e2.window = e.window
    BY <1>4, <2>1, <2>3 DEF EscrowRows
  <2>5. escrow' = [escrow EXCEPT ![q.on] = e2] /\ UNCHANGED booking /\ Done(r)
    BY <1>2, <1>3, <1>29, <2>3 DEF RefundEscrowWrite, UpdateEscrow
  <2>6. QED
    BY <1>26, <2>1, <2>2, <2>4, <2>5
<1>30. CASE HoldEscrowWrite(r)
  <2>1. q.op = "dispute" /\ q.at = "write" /\ q.op \in Ops
    BY <1>2, <1>30 DEF HoldEscrowWrite, At, Ops
  <2>2. row.status = "disputed" /\ e.status = "captured"
    BY <1>4, <2>1 DEF PlacedCare, PlacedMoney
  <2>3. PICK e2 : e2 = [e EXCEPT !.status = "disputed"]
    OBVIOUS
  <2>4. e2.status = "disputed" /\ e2.window = e.window
    BY <1>4, <2>1, <2>3 DEF EscrowRows
  <2>5. escrow' = [escrow EXCEPT ![q.on] = e2] /\ UNCHANGED booking /\ Done(r)
    BY <1>2, <1>3, <1>30, <2>2, <2>3 DEF HoldEscrowWrite
  <2>6. QED
    BY <1>26, <2>1, <2>2, <2>4, <2>5
<1>31. CASE ReleaseEscrowWrite(r)
  <2>1. q.op = "review" /\ q.at = "write" /\ q.op \in Ops
    BY <1>2, <1>31 DEF ReleaseEscrowWrite, At, Ops
  <2>2. row.status = "completed"
    BY <1>4, <2>1 DEF PlacedCare
  <2>3. CASE Done(r) /\ UNCHANGED <<booking, escrow>>
    BY <1>2, <2>1, <2>3, HandledReturn
  <2>4. CASE e.status = "captured" /\ UpdateEscrow(r, [e EXCEPT !.status = "released"], "captured")
    <3>1. PICK e2 : e2 = [e EXCEPT !.status = "released"]
      OBVIOUS
    <3>2. e2.status = "released" /\ e2.window = e.window
      BY <1>4, <2>1, <3>1 DEF EscrowRows
    <3>3. escrow' = [escrow EXCEPT ![q.on] = e2] /\ UNCHANGED booking /\ Done(r)
      BY <1>2, <2>4, <3>1 DEF UpdateEscrow
    <3>4. QED
      BY <1>26, <2>1, <2>2, <2>4, <3>2, <3>3
  <2>5. QED
    BY <1>2, <1>3, <1>31, <2>3, <2>4 DEF ReleaseEscrowWrite, db
<1>32. CASE OpenDisputeWindowWrite(r)
  <2>1. q.op = "confirmEnd" /\ q.at = "write" /\ q.op \in Ops
    BY <1>2, <1>32 DEF OpenDisputeWindowWrite, At, Ops
  <2>2. row.status = "completed" /\ e.window = "none"
    BY <1>4, <2>1 DEF PlacedCare, PlacedMoney
  <2>3. PICK e2 : e2 = [e EXCEPT !.window = "open"]
    OBVIOUS
  <2>4. e2.status = e.status /\ e2.window = "open"
    BY <1>4, <2>1, <2>3 DEF EscrowRows
  <2>5. escrow' = [escrow EXCEPT ![q.on] = e2] /\ UNCHANGED booking /\ Done(r)
    BY <1>2, <1>3, <1>32, <2>3 DEF OpenDisputeWindowWrite
  <2>6. MovedWell(row, e, row, e2)
    BY <1>4, <2>1, <2>2, <2>4 DEF MovedWell, PromisedMove, RowSound
  <2>7. QED
    BY <1>2, <1>3, <2>1, <2>5, <2>6, HandledWrite
\* A review, and the two sides of a resolution.
<1>33. CASE InsertReview(r)
  <2>1. PICK step \in {"both", "one"} : Goto(r, step)
    BY <1>33 DEF InsertReview
  <2>2. q.op = "review" /\ q.at = "insert" /\ q.op \in Ops /\ UNCHANGED <<booking, escrow>>
    BY <1>2, <1>33 DEF InsertReview, At, Ops, db
  <2>3. QED
    BY <1>2, <2>1, <2>2, HandledMove
<1>34. CASE LeaveReviewCommit(r)
  <2>1. q.op = "review" /\ q.op \in Ops /\ q.at # "book" /\ UNCHANGED <<booking, escrow>>
    BY <1>2, <1>34 DEF LeaveReviewCommit, Ops
  <2>2. CASE Done(r)
    BY <1>2, <2>1, <2>2, HandledReturn
  <2>3. CASE request' = [request EXCEPT ![r] = Elevated(q)]
    <3>1. PICK x : x = Elevated(q)
      OBVIOUS
    <3>2. x.op = "review" /\ x.at = "escrow" /\ x.on = q.on
      BY <1>4, <2>1, <3>1 DEF Elevated, RunningRequests
    <3>3. Placed(x, row, e)
      BY <1>4, <2>1, <3>2 DEF Placed, PlacedCare, PlacedMoney
    <3>4. QED
      BY <1>2, <1>3, <2>1, <2>3, <3>1, <3>2, <3>3, HandledAside DEF HandledBy
  <2>4. QED
    BY <1>2, <1>34, <2>2, <2>3 DEF LeaveReviewCommit
<1>35. ASSUME NEW resolution \in {"release", "refund"}, ResolveDisputeCommit(r, resolution)
       PROVE  HandledBy(r)
  <2>1. q.op = resolution /\ q.at = "write" /\ q.op \in Ops /\ Done(r)
    BY <1>2, <1>35 DEF ResolveDisputeCommit, At, Ops
  <2>2. PICK care, money :
          /\ money = Outcome(resolution)
          /\ resolution = "release" => care = "completed" /\ money = "released"
          /\ resolution = "refund" => care = "cancelled" /\ money = "refunded"
          /\ escrow' = [escrow EXCEPT ![q.on].status = money]
          /\ booking' = [booking EXCEPT ![q.on].status = care]
    BY <1>2, <1>35 DEF ResolveDisputeCommit, Outcome
  <2>3. /\ row.status = "disputed" /\ e.status # "pending"
        /\ e.window = "none" /\ ~ (row.familyEnded /\ row.caregiverEnded)
    BY <1>4, <2>1 DEF PlacedCare, RowSound
  <2>4. /\ money = "released" => e.status \in {"captured", "disputed"}
        /\ money = "refunded" => e.status \in {"authorized", "captured", "disputed"}
    <3>1. CanTransitionEscrow(e.status, money)
      BY <1>4, <2>1, <2>2 DEF PlacedMoney
    <3>2. e.status \in EscrowStatuses \cup {"none"} /\ e.status # "none"
      BY <1>4, <2>1 DEF EscrowRows, PlacedMoney
    <3>3. QED
      BY <2>2, <2>3, <3>1, <3>2, ResolvableEscrows
  <2>5. PICK row2, e2 : row2 = [row EXCEPT !.status = care] /\ e2 = [e EXCEPT !.status = money]
    OBVIOUS
  <2>6. /\ row2.status = care /\ row2.familyEnded = row.familyEnded
        /\ row2.caregiverEnded = row.caregiverEnded
        /\ e2.status = money /\ e2.window = e.window
    BY <1>4, <2>1, <2>5 DEF BookingRows, EscrowRows
  <2>7. MovedWell(row, e, row2, e2)
    BY <2>2, <2>3, <2>4, <2>6 DEF MovedWell, PromisedMove, RowSound
  <2>8. booking'[q.on] = row2 /\ escrow'[q.on] = e2 /\ OnlyRow(q.on)
    BY <1>3, <1>4, <2>1, <2>2, <2>5 DEF TypeInv, TypeOK, OnlyRow
  <2>9. Handled(r, Idle)
    BY <1>2, <1>3, <2>1, <2>7, <2>8 DEF Handled, Done
  <2>10. QED
    BY <2>9 DEF HandledBy
<1>36. QED
  BY <1>6, <1>7, <1>8, <1>9, <1>10, <1>11, <1>13, <1>14, <1>15, <1>16, <1>17, <1>18,
     <1>20, <1>21, <1>22, <1>23, <1>24, <1>25, <1>27, <1>28, <1>29, <1>30, <1>31, <1>32,
     <1>33, <1>34, <1>35 DEF Proceeds

----------------------------------------------------------------------------
(* Every step keeps the invariant, and moves at most one booking, well.    *)

SweepsDue(sweeps) ==
  \A w \in Workers, b \in Bookings :
    b \in sweeps[w].batch \/ sweeps[w].paying = b => escrow[b].window = "elapsed"

\* A step that touches the rows of one booking, and only slots that work on it.
LEMMA TurnKept ==
  ASSUME TypeInv, TurnInv, NEW b \in Bookings, OnlyRow(b),
         MovedWell(booking[b], escrow[b], booking'[b], escrow'[b]),
         \A r, s \in Requests :
           request'[r] # Idle /\ request'[s] # Idle /\ request'[r].on = request'[s].on => r = s,
         \A s \in Requests : request'[s] # Idle =>
           IF request'[s].on = b THEN Placed(request'[s], booking'[b], escrow'[b])
           ELSE request'[s] = request[s],
         SweepsDue(sweep')
  PROVE  TurnInv'
<1>1. OneEach'
  BY DEF OneEach
<1>2. ASSUME NEW s \in Requests, request'[s] # Idle
      PROVE  Placed(request'[s], booking'[request'[s].on], escrow'[request'[s].on])
  <2>1. CASE request'[s].on = b
    BY <1>2, <2>1
  <2>2. CASE request'[s].on # b
    <3>1. request'[s] = request[s]
      BY <1>2, <2>2
    <3>2. request[s].on \in Bookings \ {b}
      BY <1>2, <2>2, <3>1 DEF TypeInv, TypeOK, RunningRequests
    <3>3. Placed(request[s], booking[request[s].on], escrow[request[s].on])
      BY <1>2, <3>1 DEF TurnInv, SlotsPlaced
    <3>4. QED
      BY <3>1, <3>2, <3>3 DEF OnlyRow
  <2>3. QED
    BY <2>1, <2>2
<1>3. SlotsPlaced'
  BY <1>2 DEF SlotsPlaced
<1>4. \A c \in Bookings : RowSound(booking'[c], escrow'[c])
  BY DEF TurnInv, OnlyRow, MovedWell
<1>5. \A c \in Bookings : escrow[c].window = "elapsed" => escrow'[c].window = "elapsed"
  BY DEF OnlyRow, MovedWell
<1>6. SweepsTimely'
  BY <1>5 DEF SweepsTimely, SweepsDue
<1>7. QED
  BY <1>1, <1>3, <1>4, <1>6 DEF TurnInv

LEMMA TurnKeptByRequest ==
  ASSUME TypeInv, TurnInv, NEW r \in Requests, NEW x, Handled(r, x), request[r].op \in Ops,
         UNCHANGED sweep
  PROVE  TurnInv'
<1>1. PICK b \in Bookings : b = request[r].on
  BY SlotStands
<1>2. request[r] # Idle
  BY DEF Idle, Ops
<1>3. \A s \in Requests : request'[s] = IF s = r THEN x ELSE request[s]
  BY DEF Handled, TypeInv, TypeOK
<1>4. x = Idle \/ (x.on = b /\ Placed(x, booking'[b], escrow'[b]))
  BY <1>1 DEF Handled
<1>5. \A s, t \in Requests :
        request'[s] # Idle /\ request'[t] # Idle /\ request'[s].on = request'[t].on => s = t
  BY <1>1, <1>2, <1>3, <1>4 DEF TurnInv, OneEach
<1>6. \A s \in Requests : request'[s] # Idle =>
        IF request'[s].on = b THEN Placed(request'[s], booking'[b], escrow'[b])
        ELSE request'[s] = request[s]
  BY <1>1, <1>2, <1>3, <1>4 DEF TurnInv, OneEach
<1>7. SweepsDue(sweep')
  BY DEF SweepsDue, TurnInv, SweepsTimely
<1>8. OnlyRow(b) /\ MovedWell(booking[b], escrow[b], booking'[b], escrow'[b])
  BY <1>1 DEF Handled
<1>9. QED
  BY <1>5, <1>6, <1>7, <1>8, TurnKept

\* A step of nobody's action, on the rows of one booking.
LEMMA TurnKeptAside ==
  ASSUME TypeInv, RefundInv, TurnInv, NEW b \in Bookings, OnlyRow(b), UNCHANGED request,
         MovedWell(booking[b], escrow[b], booking'[b], escrow'[b]), SweepsDue(sweep'),
         \A q \in RunningRequests :
           Placed(q, booking[b], escrow[b]) /\ BegunBy(q) => Placed(q, booking'[b], escrow'[b])
  PROVE  TurnInv'
<1>1. ASSUME NEW s \in Requests, request'[s] # Idle
      PROVE  IF request'[s].on = b THEN Placed(request'[s], booking'[b], escrow'[b])
             ELSE request'[s] = request[s]
  <2>1. /\ request[s] \in RunningRequests /\ BegunBy(request[s])
        /\ Placed(request[s], booking[request[s].on], escrow[request[s].on])
    BY <1>1 DEF TypeInv, TypeOK, RefundInv, SlotSound, TurnInv, SlotsPlaced
  <2>2. QED
    BY <2>1
<1>2. \A r, s \in Requests :
        request'[r] # Idle /\ request'[s] # Idle /\ request'[r].on = request'[s].on => r = s
  BY DEF TurnInv, OneEach
<1>3. QED
  BY <1>1, <1>2, TurnKept

\* A step that leaves rows and actions alone.
LEMMA TurnKeptStill ==
  ASSUME TurnInv, UNCHANGED <<booking, escrow, request>>, SweepsDue(sweep')
  PROVE  TurnInv'
BY DEF TurnInv, OneEach, SlotsPlaced, SweepsTimely, SweepsDue

\* What a step does to the rows: nothing, or one move of one booking.
RowsMove ==
  \/ UNCHANGED <<booking, escrow>>
  \/ \E b \in Bookings :
       OnlyRow(b) /\ MovedWell(booking[b], escrow[b], booking'[b], escrow'[b])

\* An action begins on a booking no other is working on.
LEMMA TurnKeptByBegin ==
  ASSUME TypeInv, TurnInv, TakeTurns, NEW r \in Requests, NEW q, Begin(r, q),
         NEW b \in Bookings, q.on = b, Placed(q, booking[b], escrow[b])
  PROVE  TurnInv' /\ RowsMove
<1>1. UNCHANGED <<booking, escrow, sweep>> /\ Quiet(b)
  BY DEF Begin, db
<1>2. \A s \in Requests : request'[s] = IF s = r THEN q ELSE request[s]
  BY DEF Begin, TypeInv, TypeOK
<1>3. \A s, t \in Requests :
        request'[s] # Idle /\ request'[t] # Idle /\ request'[s].on = request'[t].on => s = t
  BY <1>1, <1>2 DEF TurnInv, OneEach, Quiet
<1>4. \A s \in Requests : request'[s] # Idle =>
        IF request'[s].on = b THEN Placed(request'[s], booking'[b], escrow'[b])
        ELSE request'[s] = request[s]
  BY <1>1, <1>2 DEF Quiet
<1>5. SweepsDue(sweep')
  BY <1>1 DEF SweepsDue, TurnInv, SweepsTimely
<1>6. OnlyRow(b) /\ MovedWell(booking[b], escrow[b], booking'[b], escrow'[b])
  BY <1>1 DEF OnlyRow, MovedWell, PromisedMove, TurnInv
<1>7. QED
  BY <1>1, <1>3, <1>4, <1>5, <1>6, TurnKept DEF RowsMove

LEMMA OpensInTurn ==
  ASSUME TypeInv, TurnInv, TakeTurns, NEW r \in Requests, NEW b \in Bookings, Opens(r, b)
  PROVE  TurnInv' /\ RowsMove
<1>1. ASSUME NEW q, Begin(r, q), q.on = b, q.at = "book", q.saw = booking[b],
             q.op \notin {"review", "release", "refund"}
      PROVE  TurnInv' /\ RowsMove
  <2>1. Placed(q, booking[b], escrow[b])
    BY <1>1 DEF Placed, PlacedCare, PlacedMoney
  <2>2. QED
    BY <1>1, <2>1, TurnKeptByBegin
<1>2. CASE AcceptBooking(r, b)
  <2>1. PICK q : q = Having("accept", "caregiver", b, "book") OBVIOUS
  <2>2. QED
    BY <1>1, <1>2, <2>1, HavingFields DEF AcceptBooking
<1>3. CASE DeclineBooking(r, b)
  <2>1. PICK q : q = Having("decline", "caregiver", b, "book") OBVIOUS
  <2>2. QED
    BY <1>1, <1>3, <2>1, HavingFields DEF DeclineBooking
<1>4. CASE StartSession(r, b)
  <2>1. PICK q : q = Having("start", "family", b, "book") OBVIOUS
  <2>2. QED
    BY <1>1, <1>4, <2>1, HavingFields DEF StartSession
<1>5. ASSUME NEW side \in Sides, ConfirmEnd(r, b, side) PROVE TurnInv' /\ RowsMove
  <2>1. PICK q : q = Having("confirmEnd", side, b, "book") OBVIOUS
  <2>2. QED
    BY <1>1, <1>5, <2>1, HavingFields DEF ConfirmEnd
<1>6. CASE CancelBooking(r, b)
  <2>1. PICK fee : Begin(r, [Having("cancel", "family", b, "book") EXCEPT !.fee = fee])
    BY <1>6 DEF CancelBooking
  <2>2. PICK q : q = [Having("cancel", "family", b, "book") EXCEPT !.fee = fee] OBVIOUS
  <2>3. q.op = "cancel" /\ q.on = b /\ q.at = "book" /\ q.saw = booking[b]
    BY <2>2 DEF Having, Idle
  <2>4. QED
    BY <1>1, <2>1, <2>2, <2>3
<1>7. ASSUME NEW side \in Sides, RaiseDispute(r, b, side) PROVE TurnInv' /\ RowsMove
  <2>1. PICK q : q = Having("dispute", side, b, "book") OBVIOUS
  <2>2. QED
    BY <1>1, <1>7, <2>1, HavingFields DEF RaiseDispute
<1>8. ASSUME NEW side \in Sides, LeaveReview(r, b, side) PROVE TurnInv' /\ RowsMove
  <2>1. PICK q : q = Having("review", side, b, "insert") OBVIOUS
  <2>2. q.op = "review" /\ q.at = "insert" /\ q.on = b /\ Begin(r, q)
    BY <1>8, <2>1, HavingFields DEF LeaveReview
  <2>3. Placed(q, booking[b], escrow[b])
    BY <1>8, <2>2 DEF LeaveReview, Placed, PlacedCare, PlacedMoney
  <2>4. QED
    BY <2>2, <2>3, TurnKeptByBegin
<1>9. ASSUME NEW resolution \in {"release", "refund"}, ResolveDispute(r, b, resolution)
      PROVE  TurnInv' /\ RowsMove
  <2>1. PICK step \in {"payout", "refund"} :
          Begin(r, [Having(resolution, "admin", b, step) EXCEPT !.escrowSaw = escrow[b].status])
    BY <1>9 DEF ResolveDispute
  <2>2. PICK q : q = [Having(resolution, "admin", b, step) EXCEPT !.escrowSaw = escrow[b].status]
    OBVIOUS
  <2>3. /\ q.op = resolution /\ q.on = b /\ q.at = step /\ q.escrowSaw = escrow[b].status
        /\ Begin(r, q)
    BY <2>1, <2>2 DEF Having, Idle
  <2>4. Placed(q, booking[b], escrow[b])
    BY <1>9, <2>3 DEF ResolveDispute, Placed, PlacedCare, PlacedMoney
  <2>5. QED
    BY <2>3, <2>4, TurnKeptByBegin
<1>10. QED
  BY <1>2, <1>3, <1>4, <1>5, <1>6, <1>7, <1>8, <1>9 DEF Opens

LEMMA RequestInTurn ==
  ASSUME TypeInv, RefundInv, TurnInv, NEW b \in Bookings, RequestBooking(b)
  PROVE  TurnInv' /\ RowsMove
<1>1. PICK row \in BookingRows, e \in EscrowRows : row = booking[b] /\ e = escrow[b]
  BY DEF TypeInv, TypeOK
<1>2. row.status = "none" /\ RowSound(row, e)
  BY <1>1 DEF RequestBooking, TurnInv
<1>3. PICK row2 : row2 = [row EXCEPT !.status = "requested"]
  OBVIOUS
<1>4. /\ row2.status = "requested" /\ row2.familyEnded = row.familyEnded
      /\ row2.caregiverEnded = row.caregiverEnded
  BY <1>3 DEF BookingRows
<1>5. booking'[b] = row2 /\ escrow'[b] = e /\ OnlyRow(b)
  BY <1>1, <1>3 DEF RequestBooking, TypeInv, TypeOK, OnlyRow
<1>6. MovedWell(row, e, row2, e)
  BY <1>2, <1>4 DEF MovedWell, PromisedMove, RowSound
<1>7. \A q \in RunningRequests : ~ (Placed(q, row, e) /\ BegunBy(q))
  BY <1>2 DEF Placed, PlacedCare, BegunBy, RunningRequests, Ops
<1>8. UNCHANGED request /\ SweepsDue(sweep')
  BY DEF RequestBooking, SweepsDue, TurnInv, SweepsTimely
<1>9. QED
  BY <1>1, <1>5, <1>6, <1>7, <1>8, TurnKeptAside DEF RowsMove

\* The clock passes the end of a dispute window.
LEMMA ElapsesInTurn ==
  ASSUME TypeInv, RefundInv, TurnInv, NEW b \in Bookings, WindowElapses(b)
  PROVE  TurnInv' /\ RowsMove
<1>1. PICK row \in BookingRows, e \in EscrowRows : row = booking[b] /\ e = escrow[b]
  BY DEF TypeInv, TypeOK
<1>2. e.window = "open" /\ RowSound(row, e)
  BY <1>1 DEF WindowElapses, TurnInv
<1>3. PICK e2 : e2 = [e EXCEPT !.window = "elapsed"]
  OBVIOUS
<1>4. e2.window = "elapsed" /\ e2.status = e.status
  BY <1>3 DEF EscrowRows
<1>5. booking'[b] = row /\ escrow'[b] = e2 /\ OnlyRow(b)
  BY <1>1, <1>3 DEF WindowElapses, TypeInv, TypeOK, OnlyRow
<1>6. MovedWell(row, e, row, e2)
  BY <1>2, <1>4 DEF MovedWell, PromisedMove, RowSound
<1>7. \A q \in RunningRequests : Placed(q, row, e) => Placed(q, row, e2)
  BY <1>2, <1>4 DEF Placed, PlacedMoney
<1>8. UNCHANGED request /\ SweepsDue(sweep')
  BY DEF WindowElapses, SweepsDue, TurnInv, SweepsTimely
<1>9. QED
  BY <1>1, <1>5, <1>6, <1>7, <1>8, TurnKeptAside DEF RowsMove

\* The sweep releases what an action may be working on: a review alone.
LEMMA SweepWritesInTurn ==
  ASSUME TypeInv, RefundInv, TurnInv, NEW w \in Workers, SweepWrite(w)
  PROVE  TurnInv' /\ RowsMove
<1>1. PICK b \in Bookings : b = sweep[w].paying
  BY DEF SweepWrite
<1>2. SweepsDue(sweep')
  BY <1>1, NoBookingAssumption
  DEF SweepWrite, SweepsDue, TurnInv, SweepsTimely, TypeInv, TypeOK
<1>3. CASE UNCHANGED escrow
  BY <1>2, <1>3, TurnKeptStill DEF SweepWrite, RowsMove
<1>4. CASE escrow[b].status = "captured" /\ escrow' = [escrow EXCEPT ![b].status = "released"]
  <2>1. PICK row \in BookingRows, e \in EscrowRows : row = booking[b] /\ e = escrow[b]
    BY DEF TypeInv, TypeOK
  <2>2. e.status = "captured" /\ RowSound(row, e) /\ e.window # "none"
    BY <1>1, <1>4, <2>1 DEF TurnInv, SweepsTimely
  <2>3. row.status = "completed"
    BY <2>2 DEF RowSound
  <2>4. PICK e2 : e2 = [e EXCEPT !.status = "released"]
    OBVIOUS
  <2>5. e2.status = "released" /\ e2.window = e.window
    BY <2>4 DEF EscrowRows
  <2>6. booking'[b] = row /\ escrow'[b] = e2 /\ OnlyRow(b) /\ UNCHANGED request
    BY <1>4, <2>1, <2>4 DEF SweepWrite, TypeInv, TypeOK, OnlyRow
  <2>7. MovedWell(row, e, row, e2)
    BY <2>2, <2>3, <2>5, MoneyMoves
  <2>8. \A q \in RunningRequests :
          Placed(q, row, e) /\ BegunBy(q) => q.op \in {"confirmEnd", "review"} /\ q.at # "book"
    BY <2>3 DEF Placed, PlacedCare, BegunBy, RunningRequests, Ops
  <2>9. \A q \in RunningRequests : Placed(q, row, e) /\ BegunBy(q) => Placed(q, row, e2)
    BY <2>5, <2>8 DEF Placed, PlacedMoney
  <2>10. QED
    BY <1>2, <2>1, <2>6, <2>7, <2>9, TurnKeptAside DEF RowsMove
<1>5. QED
  BY <1>1, <1>3, <1>4 DEF SweepWrite

LEMMA SweepsInTurn ==
  ASSUME TypeInv, RefundInv, TurnInv, NEW w \in Workers, Sweeps(w) \/ SweepFails(w)
  PROVE  TurnInv' /\ RowsMove
<1>1. ASSUME UNCHANGED <<booking, escrow, request>>, SweepsDue(sweep')
      PROVE  TurnInv' /\ RowsMove
  BY <1>1, TurnKeptStill DEF RowsMove
<1>2. CASE SweepRead(w)
  <2>1. SweepsDue(sweep')
    BY <1>2 DEF SweepRead, Due, SweepsDue, Resting, TurnInv, SweepsTimely, TypeInv, TypeOK
  <2>2. QED
    BY <1>1, <1>2, <2>1 DEF SweepRead, db
<1>3. ASSUME NEW b \in Bookings, SweepPayout(w, b) PROVE TurnInv' /\ RowsMove
  <2>1. SweepsDue(sweep')
    BY <1>3 DEF SweepPayout, SweepsDue, TurnInv, SweepsTimely, TypeInv, TypeOK
  <2>2. QED
    BY <1>1, <1>3, <2>1 DEF SweepPayout, db
<1>4. CASE SweepFails(w)
  <2>1. SweepsDue(sweep')
    BY <1>4, NoBookingAssumption
    DEF SweepFails, SweepsDue, Resting, TurnInv, SweepsTimely, TypeInv, TypeOK
  <2>2. QED
    BY <1>1, <1>4, <2>1 DEF SweepFails, db
<1>5. QED
  BY <1>2, <1>3, <1>4, SweepWritesInTurn DEF Sweeps

LEMMA TurnInvNext ==
  TakeTurns => (TypeInv /\ RefundInv /\ TurnInv /\ [Next]_vars => TurnInv' /\ RowsMove)
<1>1. SUFFICES ASSUME TakeTurns, TypeInv, RefundInv, TurnInv, [Next]_vars
               PROVE  TurnInv' /\ RowsMove
  OBVIOUS
<1>2. ASSUME NEW r \in Requests, Proceeds(r) PROVE TurnInv' /\ RowsMove
  <2>1. PICK x : Handled(r, x)
    BY <1>1, <1>2, ProceedsHandled DEF HandledBy
  <2>2. request[r].op \in Ops
    BY <1>2, ProceedsRuns
  <2>3. PICK b \in Bookings : b = request[r].on
    BY <1>1, <2>2, SlotStands
  <2>4. RowsMove
    BY <2>1, <2>3 DEF Handled, RowsMove
  <2>5. QED
    BY <1>1, <1>2, <2>1, <2>2, <2>4, TurnKeptByRequest, ProceedsLeavesSweep
<1>3. ASSUME NEW r \in Requests, RequestFails(r) PROVE TurnInv' /\ RowsMove
  <2>1. UNCHANGED <<booking, escrow, sweep>> /\ Done(r)
    BY <1>3 DEF RequestFails, db
  <2>2. \A s \in Requests : request'[s] # Idle => request'[s] = request[s]
    BY <1>1, <2>1 DEF Done, TypeInv, TypeOK
  <2>3. QED
    BY <1>1, <2>1, <2>2 DEF TurnInv, OneEach, SlotsPlaced, SweepsTimely, RowsMove
<1>4. CASE UNCHANGED vars
  <2>1. SweepsDue(sweep')
    BY <1>1, <1>4 DEF vars, SweepsDue, TurnInv, SweepsTimely
  <2>2. QED
    BY <1>1, <1>4, <2>1, TurnKeptStill DEF vars, RowsMove
<1>5. QED
  BY <1>1, <1>2, <1>3, <1>4, OpensInTurn, RequestInTurn, ElapsesInTurn, SweepsInTurn DEF Next

LEMMA TurnInvInit == Init => TurnInv
BY NoBookingAssumption
DEF Init, TurnInv, OneEach, SlotsPlaced, RowSound, SweepsTimely, NoRow, NoEscrow, Resting

----------------------------------------------------------------------------
(* The theorems of the turns, crashes included.                            *)

LEMMA TurnInvAlways ==
  ASSUME TakeTurns
  PROVE  Spec => [](TypeInv /\ RefundInv /\ TurnInv)
<1>1. Init => TypeInv /\ RefundInv /\ TurnInv
  BY TypeInvInit, RefundInvInit, TurnInvInit
<1>2. TypeInv /\ RefundInv /\ TurnInv /\ [Next]_vars => (TypeInv /\ RefundInv /\ TurnInv)'
  BY TypeInvNext, RefundInvNext, TurnInvNext
<1>3. QED
  BY <1>1, <1>2, PTL DEF Spec

\* One move of one booking is a step of CareContract.
LEMMA PromiseStep ==
  ASSUME TypeInv, TypeInv', RowsMove
  PROVE  [Promise!Next]_<<[b \in Bookings |-> booking[b].status],
                          [b \in Bookings |-> escrow[b].status]>>
<1>1. PICK care, money :
        care = [b \in Bookings |-> booking[b].status] /\ money = [b \in Bookings |-> escrow[b].status]
  OBVIOUS
<1>2. PICK care2, money2 :
        /\ care2 = [b \in Bookings |-> booking'[b].status]
        /\ money2 = [b \in Bookings |-> escrow'[b].status]
  OBVIOUS
<1>3. CASE UNCHANGED <<booking, escrow>>
  BY <1>3
<1>4. ASSUME NEW b \in Bookings, OnlyRow(b),
             MovedWell(booking[b], escrow[b], booking'[b], escrow'[b])
      PROVE  Promise!Next \/ (care2 = care /\ money2 = money)
  <2>1. PICK c, m : c = booking'[b].status /\ m = escrow'[b].status
    OBVIOUS
  <2>2. /\ care2 = [care EXCEPT ![b] = c] /\ money2 = [money EXCEPT ![b] = m]
        /\ c = care[b] => care2 = care
        /\ m = money[b] => money2 = money
    BY <1>1, <1>2, <1>4, <2>1 DEF OnlyRow
  <2>3. PromisedMove(care[b], money[b], c, m)
    BY <1>1, <1>4, <2>1 DEF MovedWell
  <2>4. CASE c = care[b] /\ m = money[b]
    BY <2>2, <2>4
  <2>5. ASSUME m = money[b],
               \/ care[b] = "none" /\ c = "requested"
               \/ care[b] = "requested" /\ c = "confirmed"
               \/ care[b] = "confirmed" /\ c = "in_progress"
               \/ care[b] = "in_progress" /\ c \in {"completed", "disputed"}
               \/ care[b] \in {"requested", "confirmed"} /\ c = "cancelled"
        PROVE  Promise!Next
    <3>1. care2 = [care EXCEPT ![b] = c] /\ money2 = money
      BY <2>2, <2>5
    <3>2. Promise!Ask(b) \/ Promise!Accept(b) \/ Promise!Start(b) \/ Promise!Finish(b)
            \/ Promise!Contest(b) \/ Promise!Cancel(b)
      BY <1>1, <1>2, <2>5, <3>1
      DEF Promise!CareMoves, Promise!Ask, Promise!Accept, Promise!Start, Promise!Finish,
          Promise!Contest, Promise!Cancel
    <3>3. QED
      BY <3>2 DEF Promise!Next
  <2>6. ASSUME c = care[b],
               \/ care[b] = "confirmed" /\ money[b] = "none" /\ m = "authorized"
               \/ care[b] = "in_progress" /\ money[b] = "authorized" /\ m = "captured"
               \/ care[b] = "disputed" /\ money[b] = "captured" /\ m = "disputed"
               \/ care[b] = "completed" /\ money[b] = "captured" /\ m = "released"
               \/ care[b] = "cancelled" /\ money[b] = "authorized" /\ m = "refunded"
        PROVE  Promise!Next
    <3>1. money2 = [money EXCEPT ![b] = m] /\ care2 = care
      BY <2>2, <2>6
    <3>2. Promise!Hold(b) \/ Promise!Charge(b) \/ Promise!Freeze(b) \/ Promise!Pay(b)
            \/ Promise!GiveBack(b)
      BY <1>1, <1>2, <2>6, <3>1
      DEF Promise!MoneyMoves, Promise!Hold, Promise!Charge, Promise!Freeze, Promise!Pay,
          Promise!GiveBack
    <3>3. QED
      BY <3>2 DEF Promise!Next
  <2>7. ASSUME care[b] = "disputed",
               \/ money[b] \in {"captured", "disputed"} /\ c = "completed" /\ m = "released"
               \/ /\ money[b] \in {"authorized", "captured", "disputed"}
                  /\ c = "cancelled" /\ m = "refunded"
        PROVE  Promise!Next
    <3>1. Promise!Resolve(b)
      BY <1>1, <1>2, <2>2, <2>7 DEF Promise!Resolve
    <3>2. QED
      BY <3>1 DEF Promise!Next
  <2>8. QED
    BY <2>3, <2>4, <2>5, <2>6, <2>7 DEF PromisedMove
<1>5. QED
  BY <1>1, <1>2, <1>3, <1>4 DEF RowsMove

\* While the actions on a booking take turns, the system implements CareContract:
\* whatever else interleaves and wherever an action or a sweep dies, care moves along
\* the lifecycle and money moves only in the stage of care that justifies it.
THEOREM KeepsPromiseInTurn ==
  ASSUME TakeTurns
  PROVE  Spec => KeepsPromise
<1>1. Init => Promise!Init
  BY DEF Init, Promise!Init, NoRow, NoEscrow
<1>2. TypeInv /\ RefundInv /\ TurnInv /\ [Next]_vars =>
               [Promise!Next]_<<[b \in Bookings |-> booking[b].status],
                                [b \in Bookings |-> escrow[b].status]>>
  BY TypeInvNext, TurnInvNext, PromiseStep
<1>3. QED
  BY <1>1, <1>2, TurnInvAlways, PTL DEF Spec, KeepsPromise, Promise!Spec

\* While the actions on a booking take turns, no action takes a confirmation of the
\* session's end back, and the second one completes the booking in the same write.
THEOREM ConfirmationsKeptInTurn ==
  ASSUME TakeTurns
  PROVE  Spec => ConfirmationsKept
<1>1. TypeInv /\ RefundInv /\ TurnInv /\ [Next]_vars =>
               [\A b \in Bookings :
                  /\ booking[b].familyEnded => booking'[b].familyEnded
                  /\ booking[b].caregiverEnded => booking'[b].caregiverEnded
                  /\ booking'[b].familyEnded /\ booking'[b].caregiverEnded
                       => booking'[b].status # "in_progress"]_vars
  <2>1. SUFFICES ASSUME TypeInv, RefundInv, TurnInv, [Next]_vars, NEW b \in Bookings
                 PROVE  /\ booking[b].familyEnded => booking'[b].familyEnded
                        /\ booking[b].caregiverEnded => booking'[b].caregiverEnded
                        /\ booking'[b].familyEnded /\ booking'[b].caregiverEnded
                             => booking'[b].status # "in_progress"
    OBVIOUS
  <2>2. TurnInv' /\ RowsMove
    BY <2>1, TurnInvNext
  <2>3. RowSound(booking'[b], escrow'[b])
    BY <2>2 DEF TurnInv
  <2>4. QED
    BY <2>2, <2>3 DEF RowsMove, OnlyRow, MovedWell, RowSound
<1>2. QED
  BY <1>1, TurnInvAlways, PTL DEF Spec, ConfirmationsKept

\* While the actions on a booking take turns, every change of a booking's status, and of
\* its escrow's, is one of the two transition tables: the reads of each action then stand
\* until its writes.
THEOREM LegalStepsInTurn ==
  ASSUME TakeTurns
  PROVE  Spec => LegalBookingSteps /\ LegalEscrowSteps
<1>1. TypeInv /\ RefundInv /\ TurnInv /\ [Next]_vars =>
        /\ [\A b \in Bookings : Moves(booking, b) =>
              IF booking[b].status = "none" THEN booking'[b].status = "requested"
              ELSE CanTransition(booking[b].status, booking'[b].status)]_vars
        /\ [\A b \in Bookings : Moves(escrow, b) =>
              IF escrow[b].status = "none" THEN escrow'[b].status = "authorized"
              ELSE CanTransitionEscrow(escrow[b].status, escrow'[b].status)]_vars
  <2>1. SUFFICES ASSUME TypeInv, RefundInv, TurnInv, [Next]_vars, NEW b \in Bookings
                 PROVE  /\ Moves(booking, b) =>
                             IF booking[b].status = "none" THEN booking'[b].status = "requested"
                             ELSE CanTransition(booking[b].status, booking'[b].status)
                        /\ Moves(escrow, b) =>
                             IF escrow[b].status = "none" THEN escrow'[b].status = "authorized"
                             ELSE CanTransitionEscrow(escrow[b].status, escrow'[b].status)
    OBVIOUS
  <2>2. PICK c, m, c2, m2 : /\ c = booking[b].status /\ m = escrow[b].status
                            /\ c2 = booking'[b].status /\ m2 = escrow'[b].status
    OBVIOUS
  <2>3. RowsMove
    BY <2>1, TurnInvNext
  <2>4. PromisedMove(c, m, c2, m2)
    BY <2>2, <2>3 DEF RowsMove, OnlyRow, MovedWell, PromisedMove
  <2>5. /\ c # c2 => IF c = "none" THEN c2 = "requested" ELSE CanTransition(c, c2)
        /\ m # m2 => IF m = "none" THEN m2 = "authorized" ELSE CanTransitionEscrow(m, m2)
    BY <2>4 DEF PromisedMove, CanTransition, BookingTransitions, CanTransitionEscrow, EscrowTransitions
  <2>6. QED
    BY <2>2, <2>5 DEF Moves
<1>2. QED
  BY <1>1, TurnInvAlways, PTL DEF Spec, LegalBookingSteps, LegalEscrowSteps

----------------------------------------------------------------------------
(* Booking and escrow tell the same story, where nothing crashes.          *)

\* How a booking stands when the action on it is at x.
Settled(x, row, e, rev) ==
  /\ IF x = Idle THEN Rested(row, e, rev) ELSE Underway(x, row, e, rev)
  /\ rev # {} => row.status = "completed"

OnlyReviews(b) == \A c \in Bookings \ {b} : reviews'[c] = reviews[c]

LEMMA AgreeKeptByRequest ==
  ASSUME TypeInv, TurnInv, AgreeInv, NEW r \in Requests, NEW x, Handled(r, x),
         request[r].op \in Ops, NEW b \in Bookings, b = request[r].on, OnlyReviews(b),
         Settled(x, booking'[b], escrow'[b], reviews'[b])
  PROVE  AgreeInv'
<1>1. \A s \in Requests : request'[s] = IF s = r THEN x ELSE request[s]
  BY DEF Handled, TypeInv, TypeOK
<1>2. (x = Idle \/ x.on = b) /\ OnlyRow(b)
  BY DEF Handled
<1>3. request[r] # Idle
  BY DEF Idle, Ops
<1>4. \A s \in Requests \ {r} : request[s] # Idle => request[s].on # b
  BY <1>3 DEF TurnInv, OneEach
<1>5. ASSUME NEW c \in Bookings, Quiet(c)'
      PROVE  Rested(booking'[c], escrow'[c], reviews'[c])
  <2>1. CASE c = b
    <3>1. x = Idle
      BY <1>1, <1>2, <1>5, <2>1 DEF Quiet
    <3>2. QED
      BY <2>1, <3>1 DEF Settled
  <2>2. CASE c # b
    <3>1. Quiet(c)
      BY <1>1, <1>5, <2>2 DEF Quiet
    <3>2. QED
      BY <1>2, <2>2, <3>1 DEF AgreeInv, OnlyRow, OnlyReviews
  <2>3. QED
    BY <2>1, <2>2
<1>6. ASSUME NEW s \in Requests, request'[s] # Idle
      PROVE  Underway(request'[s], booking'[request'[s].on], escrow'[request'[s].on],
                      reviews'[request'[s].on])
  <2>1. CASE s = r
    BY <1>1, <1>2, <1>6, <2>1 DEF Settled
  <2>2. CASE s # r
    <3>1. PICK q \in RunningRequests : q = request[s] /\ q = request'[s] /\ q # Idle
      BY <1>1, <1>6, <2>2 DEF TypeInv, TypeOK
    <3>2. q.on \in Bookings \ {b}
      BY <1>4, <2>2, <3>1 DEF RunningRequests
    <3>3. Underway(q, booking[q.on], escrow[q.on], reviews[q.on])
      BY <3>1 DEF AgreeInv
    <3>4. QED
      BY <1>2, <3>1, <3>2, <3>3 DEF OnlyRow, OnlyReviews
  <2>3. QED
    BY <2>1, <2>2
<1>7. \A c \in Bookings : reviews'[c] # {} => booking'[c].status = "completed"
  BY <1>2 DEF AgreeInv, OnlyRow, OnlyReviews, Settled
<1>8. QED
  BY <1>5, <1>6, <1>7 DEF AgreeInv

\* A step of nobody's action.
LEMMA AgreeKeptAside ==
  ASSUME TypeInv, RefundInv, TurnInv, AgreeInv, NEW b \in Bookings, OnlyRow(b),
         UNCHANGED <<request, reviews>>,
         Quiet(b) /\ Rested(booking[b], escrow[b], reviews[b]) =>
           Rested(booking'[b], escrow'[b], reviews[b]),
         \A q \in RunningRequests :
           /\ Placed(q, booking[b], escrow[b]) /\ BegunBy(q)
           /\ Underway(q, booking[b], escrow[b], reviews[b])
           => Underway(q, booking'[b], escrow'[b], reviews[b]),
         reviews[b] # {} => booking'[b].status = "completed"
  PROVE  AgreeInv'
<1>1. ASSUME NEW c \in Bookings, Quiet(c)'
      PROVE  Rested(booking'[c], escrow'[c], reviews'[c])
  <2>1. Quiet(c)
    BY <1>1 DEF Quiet
  <2>2. Rested(booking[c], escrow[c], reviews[c])
    BY <2>1 DEF AgreeInv
  <2>3. QED
    BY <2>1, <2>2 DEF OnlyRow
<1>2. ASSUME NEW s \in Requests, request'[s] # Idle
      PROVE  Underway(request'[s], booking'[request'[s].on], escrow'[request'[s].on],
                      reviews'[request'[s].on])
  <2>1. PICK q \in RunningRequests : q = request[s] /\ q = request'[s] /\ q # Idle
    BY <1>2 DEF TypeInv, TypeOK
  <2>2. /\ q.on \in Bookings /\ BegunBy(q)
        /\ Placed(q, booking[q.on], escrow[q.on])
        /\ Underway(q, booking[q.on], escrow[q.on], reviews[q.on])
    BY <2>1 DEF RunningRequests, RefundInv, SlotSound, TurnInv, SlotsPlaced, AgreeInv
  <2>3. QED
    BY <2>1, <2>2 DEF OnlyRow
<1>3. \A c \in Bookings : reviews'[c] # {} => booking'[c].status = "completed"
  BY DEF AgreeInv, OnlyRow
<1>4. QED
  BY <1>1, <1>2, <1>3 DEF AgreeInv

LEMMA ReviewsOnOne ==
  ASSUME TypeInv, NEW r \in Requests, Proceeds(r)
  PROVE  /\ OnlyReviews(request[r].on)
         /\ request[r].op # "review" => UNCHANGED reviews
         /\ ~ LeaveReviewCommit(r) => UNCHANGED reviews
<1>1. CASE LeaveReviewCommit(r)
  BY <1>1 DEF LeaveReviewCommit, OnlyReviews, TypeInv, TypeOK
<1>2. CASE ~ LeaveReviewCommit(r)
  <2>1. UNCHANGED reviews
    BY <1>2
    DEF Proceeds, AcceptBookingCommit, DeclineBookingCommit, StartSessionCommit, ConfirmEndCommit,
        CancelBookingCommit, RaiseDisputeCommit, UpdateStatus, AuthorizeEscrowRead,
        CaptureEscrowRead, OpenDisputeWindowRead, RefundEscrowRead, HoldEscrowRead,
        ReleaseEscrowRead, ReadEscrow, InsertReview, AuthorizeEscrowCall,
        CaptureEscrowCall, RefundEscrowFeeCall, RefundEscrowRestCall, ReleaseEscrowCall,
        ResolveDisputeCall, CallGateway, AuthorizeEscrowWrite, CaptureEscrowWrite,
        OpenDisputeWindowWrite, RefundEscrowWrite, HoldEscrowWrite, ReleaseEscrowWrite,
        UpdateEscrow, ResolveDisputeCommit, db
  <2>2. QED
    BY <2>1 DEF OnlyReviews
<1>3. QED
  BY <1>1, <1>2

\* The slot after a step that moves on, and the row after a commit.
LEMMA SlotAfter ==
  ASSUME TypeInv, NEW r \in Requests, NEW q \in RunningRequests, q = request[r]
  PROVE  /\ Done(r) => request'[r] = Idle
         /\ \A step : Goto(r, step) =>
              /\ request'[r].op = q.op /\ request'[r].at = step /\ request'[r].actor = q.actor
              /\ request'[r] # Idle
         /\ /\ Elevated(q).op = q.op /\ Elevated(q).at = "escrow" /\ Elevated(q) # Idle
<1>1. Done(r) => request'[r] = Idle
  BY DEF Done, TypeInv, TypeOK
<1>2. ASSUME NEW step, Goto(r, step)
      PROVE  /\ request'[r].op = q.op /\ request'[r].at = step /\ request'[r].actor = q.actor
             /\ request'[r] # Idle
  <2>1. PICK x : x = [q EXCEPT !.at = step]
    OBVIOUS
  <2>2. x.op = q.op /\ x.at = step /\ x.actor = q.actor /\ x.op # "idle"
    BY <2>1 DEF RunningRequests, Ops
  <2>3. request'[r] = x
    BY <1>2, <2>1 DEF Goto, TypeInv, TypeOK
  <2>4. QED
    BY <2>2, <2>3 DEF Idle
<1>3. PICK x : x = Elevated(q)
  OBVIOUS
<1>4. x.op = q.op /\ x.at = "escrow" /\ x.op # "idle"
  BY <1>3 DEF Elevated, RunningRequests, Ops
<1>5. QED
  BY <1>1, <1>2, <1>3, <1>4 DEF Idle

LEMMA RowAfter ==
  ASSUME TypeInv, NEW r \in Requests, NEW q \in RunningRequests, q = request[r],
         NEW new, NEW goOn \in BOOLEAN, UpdateBooking(r, new, goOn)
  PROVE  \/ request'[r] = Idle /\ UNCHANGED booking
         \/ /\ booking'[q.on] = new
            /\ IF goOn THEN /\ request'[r].op = q.op /\ request'[r].at = "escrow"
                            /\ request'[r] # Idle
               ELSE request'[r] = Idle
<1>1. CASE Done(r) /\ UNCHANGED booking
  BY <1>1, SlotAfter
<1>2. CASE /\ booking' = [booking EXCEPT ![q.on] = new]
           /\ request' = [request EXCEPT ![r] = IF goOn THEN Elevated(q) ELSE Idle]
  <2>1. q.on \in Bookings
    BY DEF RunningRequests
  <2>2. booking'[q.on] = new
    BY <1>2, <2>1 DEF TypeInv, TypeOK
  <2>3. request'[r] = IF goOn THEN Elevated(q) ELSE Idle
    BY <1>2 DEF TypeInv, TypeOK
  <2>4. QED
    BY <2>2, <2>3, SlotAfter
<1>3. QED
  BY <1>1, <1>2 DEF UpdateBooking

\* An action that has only read or called, and goes on.
LEMMA SettledOn ==
  ASSUME NEW q, NEW x, NEW row, NEW e, NEW rev, q # Idle, x # Idle, Settled(q, row, e, rev),
         x.op = q.op, x.actor = q.actor, q.at # "book", x.at # "book",
         q.op = "review" => x.at \notin {"insert", "one", "both"}
  PROVE  Settled(x, row, e, rev)
BY DEF Settled, Underway

\* The commits of the booking transaction, by the statuses they join.
LEMMA SettledCommit ==
  ASSUME NEW q, NEW x, NEW row, NEW e, NEW rev, q # Idle, Settled(q, row, e, rev),
         q.at = "book", q.op # "review", row = q.saw, BegunBy(q), NEW new,
         \/ x = Idle /\ new = row
         \/ /\ q.op = "accept" /\ new.status = "confirmed"
            /\ x # Idle /\ x.op = "accept" /\ x.at = "escrow"
         \/ q.op = "decline" /\ new.status = "cancelled" /\ x = Idle
         \/ /\ q.op = "start" /\ new.status = "in_progress"
            /\ x # Idle /\ x.op = "start" /\ x.at = "escrow"
         \/ /\ q.op = "cancel" /\ new.status = "cancelled"
            /\ IF row.status = "confirmed" THEN x # Idle /\ x.op = "cancel" /\ x.at = "escrow"
               ELSE x = Idle
         \/ /\ q.op = "dispute" /\ new.status = "disputed"
            /\ x # Idle /\ x.op = "dispute" /\ x.at = "escrow"
  PROVE  Settled(x, new, e, rev)
<1>1. rev = {} /\ rev # Both /\ AgreeWith(row, e)
  BY DEF Settled, Underway, Both, Sides
<1>2. /\ q.op \in {"accept", "decline"} => row.status = "requested"
      /\ q.op = "start" => row.status = "confirmed"
      /\ q.op = "cancel" => row.status \in {"requested", "confirmed"}
      /\ q.op = "dispute" => row.status = "in_progress"
  BY DEF BegunBy
<1>3. /\ row.status = "requested" => e.status = "none"
      /\ row.status = "confirmed" => e.status = "authorized"
      /\ row.status = "in_progress" => e.status = "captured"
  BY <1>1 DEF AgreeWith
<1>4. CASE x = Idle
  <2>1. AgreeWith(new, e)
    BY <1>1, <1>2, <1>3, <1>4 DEF AgreeWith
  <2>2. QED
    BY <1>1, <1>4, <2>1 DEF Settled, Rested
<1>5. CASE x # Idle
  <2>1. /\ x.op = q.op /\ x.at = "escrow" /\ x.op \in {"accept", "start", "cancel", "dispute"}
        /\ x.op = "cancel" => row.status = "confirmed"
    BY <1>5
  <2>2. Underway(x, new, e, rev)
    BY <1>1, <1>2, <1>3, <2>1 DEF Underway
  <2>3. QED
    BY <1>1, <1>5, <2>2 DEF Settled
<1>6. QED
  BY <1>4, <1>5

LEMMA ProceedsSettled ==
  ASSUME TypeInv, RefundInv, TurnInv, AgreeInv, NEW r \in Requests, Proceeds(r),
         NEW q, NEW b, q = request[r], b = q.on
  PROVE  Settled(request'[r], booking'[b], escrow'[b], reviews'[b])
<1>1. /\ q.op \in Ops /\ q \in RunningRequests /\ q # Idle /\ b \in Bookings
      /\ Placed(q, booking[b], escrow[b]) /\ RowSound(booking[b], escrow[b]) /\ BegunBy(q)
  BY ProceedsRuns, SlotStands DEF RefundInv, SlotSound
<1>2. PICK row, e, rev : row = booking[b] /\ e = escrow[b] /\ rev = reviews[b]
  OBVIOUS
<1>3. PICK x, row2, e2, rev2 :
        x = request'[r] /\ row2 = booking'[b] /\ e2 = escrow'[b] /\ rev2 = reviews'[b]
  OBVIOUS
<1>4. SUFFICES Settled(x, row2, e2, rev2)
  BY <1>3
<1>5. /\ PlacedCare(q, row) /\ PlacedMoney(q, e) /\ RowSound(row, e) /\ Settled(q, row, e, rev)
      /\ row \in BookingRows /\ e \in EscrowRows
  BY <1>1, <1>2 DEF Placed, AgreeInv, Settled, TypeInv, TypeOK
<1>6. q.op # "review" => rev2 = rev
  BY <1>2, <1>3, ReviewsOnOne
<1>7. /\ Done(r) => x = Idle
      /\ \A step : Goto(r, step) =>
           x.op = q.op /\ x.at = step /\ x.actor = q.actor /\ x # Idle
      /\ Elevated(q).op = q.op /\ Elevated(q).at = "escrow" /\ Elevated(q) # Idle
  BY <1>1, <1>3, SlotAfter
\* The commits of the booking transaction.
<1>8. ASSUME NEW to, NEW goOn \in BOOLEAN, UpdateStatus(r, to, goOn), q.at = "book",
             \/ q.op = "accept" /\ to = "confirmed" /\ goOn
             \/ q.op = "decline" /\ to = "cancelled" /\ ~ goOn
             \/ q.op = "start" /\ to = "in_progress" /\ goOn
             \/ q.op = "cancel" /\ to = "cancelled" /\ goOn = (q.saw.status = "confirmed")
             \/ q.op = "dispute" /\ to = "disputed" /\ goOn
      PROVE  Settled(x, row2, e2, rev2)
  <2>1. PICK new : new = [row EXCEPT !.status = to]
    OBVIOUS
  <2>2. UpdateBooking(r, new, goOn) /\ e2 = e /\ rev2 = rev
    BY <1>2, <1>3, <1>8, <2>1 DEF UpdateStatus
  <2>3. \/ x = Idle /\ row2 = row
        \/ row2 = new /\ IF goOn THEN x.op = q.op /\ x.at = "escrow" /\ x # Idle ELSE x = Idle
    BY <1>1, <1>2, <1>3, <2>2, RowAfter
  <2>4. new.status = to /\ row = q.saw
    BY <1>5, <1>8, <2>1 DEF BookingRows, PlacedCare
  <2>5. CASE x = Idle /\ row2 = row
    BY <1>1, <1>5, <1>8, <2>2, <2>4, <2>5, SettledCommit
  <2>6. CASE row2 = new /\ IF goOn THEN x.op = q.op /\ x.at = "escrow" /\ x # Idle ELSE x = Idle
    BY <1>1, <1>5, <1>8, <2>2, <2>4, <2>6, SettledCommit
  <2>7. QED
    BY <2>3, <2>5, <2>6
<1>9. CASE AcceptBookingCommit(r)
  BY <1>8, <1>9 DEF AcceptBookingCommit, At
<1>10. CASE DeclineBookingCommit(r)
  BY <1>8, <1>10 DEF DeclineBookingCommit, At
<1>11. CASE StartSessionCommit(r)
  BY <1>8, <1>11 DEF StartSessionCommit, At
<1>12. CASE CancelBookingCommit(r)
  BY <1>8, <1>12 DEF CancelBookingCommit, At
<1>13. CASE RaiseDisputeCommit(r)
  BY <1>8, <1>13 DEF RaiseDisputeCommit, At
<1>14. CASE ConfirmEndCommit(r)
  <2>1. PICK new : new = [status |-> IF BothConfirmed(q) THEN "completed" ELSE "in_progress",
                          familyEnded |-> Ended(q).familyEnded,
                          caregiverEnded |-> Ended(q).caregiverEnded]
    OBVIOUS
  <2>2. /\ q.op = "confirmEnd" /\ q.at = "book"
        /\ UpdateBooking(r, new, BothConfirmed(q)) /\ e2 = e /\ rev2 = rev
    BY <1>2, <1>3, <1>14, <2>1 DEF ConfirmEndCommit, At
  <2>3. /\ BothConfirmed(q) => new.status = "completed"
        /\ ~ BothConfirmed(q) => new.status = "in_progress"
        /\ BothConfirmed(q) \in BOOLEAN
    BY <2>1 DEF BothConfirmed
  <2>4. \/ x = Idle /\ row2 = row
        \/ row2 = new /\ IF BothConfirmed(q) THEN x.op = q.op /\ x.at = "escrow" /\ x # Idle
                         ELSE x = Idle
    BY <1>1, <1>2, <1>3, <2>2, <2>3, RowAfter
  <2>5. row.status = "in_progress" /\ rev = {} /\ rev # Both /\ AgreeWith(row, e)
    BY <1>1, <1>5, <2>2 DEF PlacedCare, BegunBy, Settled, Underway, Both, Sides
  <2>6. e.status = "captured" /\ e.window = "none"
    BY <1>5, <2>5 DEF AgreeWith, RowSound
  <2>7. CASE x = Idle
    <3>1. row2.status = "in_progress"
      BY <2>3, <2>4, <2>5, <2>7
    <3>2. QED
      BY <2>2, <2>5, <2>6, <2>7, <3>1 DEF Settled, Rested, AgreeWith
  <2>8. CASE x # Idle
    <3>1. x.op = "confirmEnd" /\ x.at = "escrow"
      BY <2>2, <2>4, <2>8
    <3>2. QED
      BY <2>2, <2>5, <2>6, <2>8, <3>1 DEF Settled, Underway
  <2>9. QED
    BY <2>7, <2>8
\* The steps that only read or call, and go on.
<1>15. ASSUME NEW step, Goto(r, step), UNCHANGED <<booking, escrow, reviews>>,
              q.at # "book", step \notin {"book", "insert", "one", "both"}
       PROVE  Settled(x, row2, e2, rev2)
  <2>1. row2 = row /\ e2 = e /\ rev2 = rev
    BY <1>2, <1>3, <1>15
  <2>2. QED
    BY <1>1, <1>5, <1>7, <1>15, <2>1, SettledOn
<1>16. CASE AuthorizeEscrowCall(r)
  BY <1>15, <1>16 DEF AuthorizeEscrowCall, CallGateway, At, db
<1>17. CASE CaptureEscrowCall(r)
  BY <1>15, <1>17 DEF CaptureEscrowCall, CallGateway, At, db
<1>18. CASE RefundEscrowFeeCall(r)
  BY <1>15, <1>18 DEF RefundEscrowFeeCall, At, db
<1>19. CASE RefundEscrowRestCall(r)
  BY <1>15, <1>19 DEF RefundEscrowRestCall, At, db
<1>20. CASE ReleaseEscrowCall(r)
  BY <1>15, <1>20 DEF ReleaseEscrowCall, CallGateway, At, db
<1>21. CASE ResolveDisputeCall(r)
  BY <1>15, <1>21 DEF ResolveDisputeCall, CallGateway, At, db
\* An action that ends, with a row that agrees.
<1>22. ASSUME Done(r), rev2 = rev, AgreeWith(row2, e2), rev # {} => row2.status = "completed",
              rev = Both => e2.status = "released"
       PROVE  Settled(x, row2, e2, rev2)
  BY <1>7, <1>22 DEF Settled, Rested
\* An action other than a review is under way while nobody has reviewed.
<1>23. ASSUME q.op # "review", q.at # "book", Done(r), AgreeWith(row2, e2)
       PROVE  Settled(x, row2, e2, rev2)
  <2>1. rev = {} /\ rev # Both
    BY <1>1, <1>5, <1>23 DEF Settled, Underway, Both, Sides
  <2>2. QED
    BY <1>6, <1>22, <1>23, <2>1
\* The reads of the escrow.
<1>24. CASE AuthorizeEscrowRead(r) \/ CaptureEscrowRead(r) \/ HoldEscrowRead(r)
  <2>1. PICK step \in {"authorize", "capture", "write"} :
          /\ Goto(r, step)
          /\ UNCHANGED <<booking, escrow, reviews>> /\ q.at = "escrow"
    <3>1. /\ AuthorizeEscrowRead(r) => e.status = "none"
          /\ CaptureEscrowRead(r) => e.status = "authorized"
          /\ HoldEscrowRead(r) => e.status = "captured"
      BY <1>1, <1>5 DEF AuthorizeEscrowRead, CaptureEscrowRead, HoldEscrowRead, ReadEscrow,
                        Settled, Underway
    <3>2. QED
      BY <1>2, <1>24, <3>1 DEF AuthorizeEscrowRead, CaptureEscrowRead, HoldEscrowRead, ReadEscrow, db
  <2>2. QED
    BY <1>15, <2>1
<1>25. CASE OpenDisputeWindowRead(r)
  <2>1. q.op = "confirmEnd" /\ q.at = "escrow" /\ UNCHANGED <<booking, escrow, reviews>>
    BY <1>25 DEF OpenDisputeWindowRead, At, db
  <2>2. e.status = "captured" /\ e.window = "none"
    BY <1>1, <1>5, <2>1 DEF Settled, Underway
  <2>3. QED
    BY <1>2, <1>15, <1>25, <2>1, <2>2 DEF OpenDisputeWindowRead
<1>26. CASE RefundEscrowRead(r)
  <2>1. q.op = "cancel" /\ q.at = "escrow" /\ row2 = row /\ e2 = e /\ rev2 = rev
    BY <1>2, <1>3, <1>26 DEF RefundEscrowRead, At, db
  <2>2. CASE request' = [request EXCEPT ![r] = [q EXCEPT !.fee = CoveredFee(@), !.at = "fee"]]
    <3>1. PICK y : y = [q EXCEPT !.fee = CoveredFee(@), !.at = "fee"]
      OBVIOUS
    <3>2. y.op = "cancel" /\ y.at = "fee" /\ y.actor = q.actor
      BY <1>1, <2>1, <3>1 DEF RunningRequests
    <3>3. x = y /\ y # Idle
      BY <1>3, <2>2, <3>1, <3>2 DEF TypeInv, TypeOK, Idle
    <3>4. QED
      BY <1>1, <1>5, <2>1, <3>2, <3>3, SettledOn
  <2>3. CASE e.status # "authorized" /\ Done(r)
    <3>1. row.status = "cancelled" /\ e.status = "none"
      BY <1>1, <1>5, <2>1, <2>3 DEF Settled, Underway, PlacedCare
    <3>2. AgreeWith(row2, e2)
      BY <2>1, <3>1 DEF AgreeWith
    <3>3. QED
      BY <1>23, <2>1, <2>3, <3>2
  <2>4. QED
    BY <1>2, <1>26, <2>2, <2>3 DEF RefundEscrowRead
\* The writes of the escrow.
<1>27. ASSUME NEW new, escrow' = [escrow EXCEPT ![b] = new], UNCHANGED booking
       PROVE  e2 = new /\ row2 = row
  BY <1>1, <1>2, <1>3, <1>27 DEF TypeInv, TypeOK
<1>28. CASE AuthorizeEscrowWrite(r)
  <2>1. q.op = "accept" /\ q.at = "write"
    BY <1>28 DEF AuthorizeEscrowWrite, At
  <2>2. row.status = "confirmed" /\ e.status = "none"
    BY <1>5, <2>1 DEF PlacedCare, PlacedMoney
  <2>3. UpdateEscrow(r, [NoEscrow EXCEPT !.status = "authorized"], "none")
    BY <1>2, <1>28, <2>2 DEF AuthorizeEscrowWrite
  <2>4. PICK new : new = [NoEscrow EXCEPT !.status = "authorized"]
    OBVIOUS
  <2>5. escrow' = [escrow EXCEPT ![b] = new] /\ UNCHANGED booking /\ Done(r)
    BY <2>3, <2>4 DEF UpdateEscrow
  <2>6. e2 = new /\ row2 = row /\ new.status = "authorized"
    BY <1>27, <2>4, <2>5 DEF NoEscrow
  <2>7. QED
    BY <1>23, <2>1, <2>2, <2>5, <2>6 DEF AgreeWith
<1>29. CASE CaptureEscrowWrite(r)
  <2>1. q.op = "start" /\ q.at = "write" /\ row.status = "in_progress"
    BY <1>5, <1>29 DEF CaptureEscrowWrite, At, PlacedCare
  <2>2. e2 = [e EXCEPT !.status = "captured"] /\ row2 = row /\ Done(r)
    BY <1>2, <1>27, <1>29 DEF CaptureEscrowWrite, UpdateEscrow
  <2>3. e2.status = "captured"
    BY <1>5, <2>2 DEF EscrowRows
  <2>4. QED
    BY <1>23, <2>1, <2>2, <2>3 DEF AgreeWith
<1>30. CASE RefundEscrowWrite(r)
  <2>1. q.op = "cancel" /\ q.at = "write" /\ row.status = "cancelled"
    BY <1>5, <1>30 DEF RefundEscrowWrite, At, PlacedCare
  <2>2. e2 = [e EXCEPT !.status = "refunded", !.fee = q.fee] /\ row2 = row /\ Done(r)
    BY <1>2, <1>27, <1>30 DEF RefundEscrowWrite, UpdateEscrow
  <2>3. e2.status = "refunded"
    BY <1>5, <2>2 DEF EscrowRows
  <2>4. QED
    BY <1>23, <2>1, <2>2, <2>3 DEF AgreeWith
<1>31. CASE HoldEscrowWrite(r)
  <2>1. /\ q.op = "dispute" /\ q.at = "write" /\ row.status = "disputed"
        /\ e.status = "captured"
    BY <1>5, <1>31 DEF HoldEscrowWrite, At, PlacedCare, PlacedMoney
  <2>2. e2 = [e EXCEPT !.status = "disputed"] /\ row2 = row /\ Done(r)
    BY <1>2, <1>27, <1>31, <2>1 DEF HoldEscrowWrite
  <2>3. e2.status = "disputed"
    BY <1>5, <2>2 DEF EscrowRows
  <2>4. QED
    BY <1>23, <2>1, <2>2, <2>3 DEF AgreeWith
<1>32. CASE OpenDisputeWindowWrite(r)
  <2>1. q.op = "confirmEnd" /\ q.at = "write" /\ row.status = "completed"
    BY <1>5, <1>32 DEF OpenDisputeWindowWrite, At, PlacedCare
  <2>2. e2 = [e EXCEPT !.window = "open"] /\ row2 = row /\ Done(r)
    BY <1>2, <1>27, <1>32 DEF OpenDisputeWindowWrite
  <2>3. e2.status = "captured" /\ e2.window = "open"
    BY <1>1, <1>5, <2>1, <2>2 DEF EscrowRows, Settled, Underway
  <2>4. QED
    BY <1>23, <2>1, <2>2, <2>3 DEF AgreeWith
<1>33. ASSUME NEW resolution \in {"release", "refund"}, ResolveDisputeCommit(r, resolution)
       PROVE  Settled(x, row2, e2, rev2)
  <2>1. q.op = resolution /\ q.at = "write" /\ Done(r)
    BY <1>33 DEF ResolveDisputeCommit, At
  <2>2. PICK care, money :
          /\ resolution = "release" => care = "completed" /\ money = "released"
          /\ resolution = "refund" => care = "cancelled" /\ money = "refunded"
          /\ e2 = [e EXCEPT !.status = money] /\ row2 = [row EXCEPT !.status = care]
    BY <1>1, <1>2, <1>3, <1>33 DEF ResolveDisputeCommit, Outcome, TypeInv, TypeOK
  <2>3. e2.status = money /\ row2.status = care
    BY <1>5, <2>2 DEF EscrowRows, BookingRows
  <2>4. AgreeWith(row2, e2)
    BY <2>2, <2>3 DEF AgreeWith
  <2>5. QED
    BY <1>23, <2>1, <2>4
\* A review.
<1>34. ASSUME q.op = "review"
       PROVE  row.status = "completed" /\ AgreeWith(row, e)
  BY <1>1, <1>5, <1>34 DEF PlacedCare, Settled, Underway
<1>35. CASE InsertReview(r)
  <2>1. /\ q.op = "review" /\ q.at = "insert"
        /\ Goto(r, IF rev \cup {q.actor} = Both THEN "both" ELSE "one")
        /\ row2 = row /\ e2 = e /\ rev2 = rev
    BY <1>2, <1>3, <1>35 DEF InsertReview, At, db
  <2>2. /\ x.op = "review" /\ x.actor = q.actor /\ x # Idle
        /\ x.at = IF rev \cup {q.actor} = Both THEN "both" ELSE "one"
    BY <1>7, <2>1
  <2>3. q.actor \notin rev
    BY <1>1, <1>5, <2>1 DEF Settled, Underway
  <2>4. Underway(x, row, e, rev)
    BY <1>34, <2>1, <2>2, <2>3 DEF Underway
  <2>5. QED
    BY <1>34, <2>1, <2>2, <2>4 DEF Settled
<1>36. CASE LeaveReviewCommit(r)
  <2>1. q.op = "review" /\ row2 = row /\ e2 = e /\ rev2 = rev \cup {q.actor}
    BY <1>1, <1>2, <1>3, <1>36 DEF LeaveReviewCommit, TypeInv, TypeOK
  <2>2. CASE q.at = "one" /\ Done(r)
    <3>1. rev2 # Both
      BY <1>1, <1>5, <2>1, <2>2 DEF Settled, Underway
    <3>2. QED
      BY <1>7, <1>34, <2>1, <2>2, <3>1 DEF Settled, Rested
  <2>3. CASE request' = [request EXCEPT ![r] = Elevated(q)]
    <3>1. x.op = "review" /\ x.at = "escrow" /\ x # Idle
      BY <1>3, <1>7, <2>1, <2>3 DEF TypeInv, TypeOK
    <3>2. Underway(x, row, e, rev2)
      BY <1>34, <2>1, <3>1 DEF Underway
    <3>3. QED
      BY <1>34, <2>1, <3>1, <3>2 DEF Settled
  <2>4. QED
    BY <1>36, <2>2, <2>3 DEF LeaveReviewCommit
<1>37. ASSUME q.op = "review", e.status # "captured"
       PROVE  e.status = "released"
  BY <1>34, <1>37 DEF AgreeWith
<1>38. CASE ReleaseEscrowRead(r)
  <2>1. q.op = "review" /\ q.at = "escrow" /\ UNCHANGED <<booking, escrow, reviews>>
    BY <1>38 DEF ReleaseEscrowRead, ReadEscrow, db
  <2>2. CASE Goto(r, "payout")
    BY <1>15, <2>1, <2>2
  <2>3. CASE e.status # "captured" /\ Done(r)
    <3>1. row2 = row /\ e2 = e /\ rev2 = rev
      BY <1>2, <1>3, <2>1
    <3>2. QED
      BY <1>22, <1>34, <1>37, <2>1, <2>3, <3>1
  <2>4. QED
    BY <1>2, <1>38, <2>2, <2>3 DEF ReleaseEscrowRead, ReadEscrow
<1>39. CASE ReleaseEscrowWrite(r)
  <2>1. q.op = "review" /\ q.at = "write" /\ Done(r) /\ row2 = row /\ rev2 = rev
    BY <1>2, <1>3, <1>39 DEF ReleaseEscrowWrite, UpdateEscrow, At, db
  <2>2. e2.status = "released"
    <3>1. CASE e.status = "captured"
      <4>1. e2 = [e EXCEPT !.status = "released"]
        BY <1>2, <1>27, <1>39, <3>1 DEF ReleaseEscrowWrite, UpdateEscrow
      <4>2. QED
        BY <1>5, <4>1 DEF EscrowRows
    <3>2. CASE e.status # "captured"
      BY <1>2, <1>3, <1>37, <1>39, <2>1, <3>2 DEF ReleaseEscrowWrite, db
    <3>3. QED
      BY <3>1, <3>2
  <2>3. AgreeWith(row2, e2)
    BY <1>34, <2>1, <2>2 DEF AgreeWith
  <2>4. QED
    BY <1>22, <1>34, <2>1, <2>2, <2>3
<1>40. QED
  BY <1>9, <1>10, <1>11, <1>12, <1>13, <1>14, <1>16, <1>17, <1>18, <1>19, <1>20, <1>21, <1>24,
     <1>25, <1>26, <1>28, <1>29, <1>30, <1>31, <1>32, <1>33, <1>35, <1>36, <1>38, <1>39
  DEF Proceeds

LEMMA OpensAgree ==
  ASSUME TypeInv, TurnInv, AgreeInv, TakeTurns, NEW r \in Requests, NEW b \in Bookings, Opens(r, b)
  PROVE  AgreeInv'
<1>1. PICK row, e, rev : row = booking[b] /\ e = escrow[b] /\ rev = reviews[b]
  OBVIOUS
<1>2. ASSUME NEW q, Begin(r, q), q.on = b, AgreeWith(row, e) => Underway(q, row, e, rev)
      PROVE  AgreeInv'
  <2>1. UNCHANGED <<booking, escrow, reviews>> /\ Quiet(b) /\ request[r] = Idle
    BY <1>2 DEF Begin, db
  <2>2. \A s \in Requests : request'[s] = IF s = r THEN q ELSE request[s]
    BY <1>2 DEF Begin, TypeInv, TypeOK
  <2>3. \A c \in Bookings : Quiet(c)' => Quiet(c)
    BY <2>1, <2>2, NoBookingAssumption DEF Quiet, Idle
  <2>4. Underway(q, row, e, rev)
    BY <1>1, <1>2, <2>1 DEF AgreeInv, Rested
  <2>5. ASSUME NEW s \in Requests, request'[s] # Idle
        PROVE  Underway(request'[s], booking[request'[s].on], escrow[request'[s].on],
                        reviews[request'[s].on])
    BY <1>1, <1>2, <2>2, <2>4, <2>5 DEF AgreeInv
  <2>6. QED
    BY <2>1, <2>3, <2>5 DEF AgreeInv
\* Nobody has reviewed a booking that is not completed.
<1>3. rev # {} => row.status = "completed"
  BY <1>1 DEF AgreeInv
<1>4. ASSUME NEW q, Begin(r, q), q.on = b, q.op # "review", row.status # "completed",
             q.at = "book" \/ q.op \in {"release", "refund"}
      PROVE  AgreeInv'
  <2>1. AgreeWith(row, e) => Underway(q, row, e, rev)
    BY <1>3, <1>4 DEF Underway
  <2>2. QED
    BY <1>2, <1>4, <2>1
<1>5. CASE AcceptBooking(r, b)
  <2>1. PICK q : q = Having("accept", "caregiver", b, "book") OBVIOUS
  <2>2. QED
    BY <1>1, <1>4, <1>5, <2>1, HavingFields DEF AcceptBooking
<1>6. CASE DeclineBooking(r, b)
  <2>1. PICK q : q = Having("decline", "caregiver", b, "book") OBVIOUS
  <2>2. QED
    BY <1>1, <1>4, <1>6, <2>1, HavingFields DEF DeclineBooking
<1>7. CASE StartSession(r, b)
  <2>1. PICK q : q = Having("start", "family", b, "book") OBVIOUS
  <2>2. QED
    BY <1>1, <1>4, <1>7, <2>1, HavingFields DEF StartSession
<1>8. ASSUME NEW side \in Sides, ConfirmEnd(r, b, side) PROVE AgreeInv'
  <2>1. PICK q : q = Having("confirmEnd", side, b, "book") OBVIOUS
  <2>2. QED
    BY <1>1, <1>4, <1>8, <2>1, HavingFields DEF ConfirmEnd
<1>9. CASE CancelBooking(r, b)
  <2>1. PICK fee : Begin(r, [Having("cancel", "family", b, "book") EXCEPT !.fee = fee])
    BY <1>9 DEF CancelBooking
  <2>2. PICK q : q = [Having("cancel", "family", b, "book") EXCEPT !.fee = fee] OBVIOUS
  <2>3. q.op = "cancel" /\ q.on = b /\ q.at = "book"
    BY <2>2 DEF Having, Idle
  <2>4. row.status # "completed"
    BY <1>1, <1>9 DEF CancelBooking
  <2>5. QED
    BY <1>4, <2>1, <2>2, <2>3, <2>4
<1>10. ASSUME NEW side \in Sides, RaiseDispute(r, b, side) PROVE AgreeInv'
  <2>1. PICK q : q = Having("dispute", side, b, "book") OBVIOUS
  <2>2. QED
    BY <1>1, <1>4, <1>10, <2>1, HavingFields DEF RaiseDispute
<1>11. ASSUME NEW side \in Sides, LeaveReview(r, b, side) PROVE AgreeInv'
  <2>1. PICK q : q = Having("review", side, b, "insert") OBVIOUS
  <2>2. /\ q.op = "review" /\ q.at = "insert" /\ q.on = b /\ q.actor = side
        /\ side \notin rev /\ Begin(r, q)
    BY <1>1, <1>11, <2>1, HavingFields DEF LeaveReview
  <2>3. AgreeWith(row, e) => Underway(q, row, e, rev)
    BY <2>2 DEF Underway
  <2>4. QED
    BY <1>2, <2>2, <2>3
<1>12. ASSUME NEW resolution \in {"release", "refund"}, ResolveDispute(r, b, resolution)
       PROVE  AgreeInv'
  <2>1. PICK step \in {"payout", "refund"} :
          Begin(r, [Having(resolution, "admin", b, step) EXCEPT !.escrowSaw = escrow[b].status])
    BY <1>12 DEF ResolveDispute
  <2>2. PICK q : q = [Having(resolution, "admin", b, step) EXCEPT !.escrowSaw = escrow[b].status]
    OBVIOUS
  <2>3. q.op = resolution /\ q.on = b /\ Begin(r, q) /\ row.status = "disputed"
    BY <1>1, <1>12, <2>1, <2>2 DEF Having, Idle, ResolveDispute
  <2>4. QED
    BY <1>4, <2>3
<1>13. QED
  BY <1>5, <1>6, <1>7, <1>8, <1>9, <1>10, <1>11, <1>12 DEF Opens

LEMMA RequestAgrees ==
  ASSUME TypeInv, RefundInv, TurnInv, AgreeInv, NEW b \in Bookings, RequestBooking(b)
  PROVE  AgreeInv'
<1>1. PICK row, e, rev :
        row = booking[b] /\ e = escrow[b] /\ rev = reviews[b] /\ row \in BookingRows
  BY DEF TypeInv, TypeOK
<1>2. row.status = "none" /\ rev = {} /\ rev # Both
  BY <1>1 DEF RequestBooking, AgreeInv, Both, Sides
<1>3. PICK row2 : row2 = [row EXCEPT !.status = "requested"]
  OBVIOUS
<1>4. row2.status = "requested"
  BY <1>3 DEF BookingRows
<1>5. booking'[b] = row2 /\ escrow'[b] = e /\ OnlyRow(b) /\ UNCHANGED <<request, reviews>>
  BY <1>1, <1>3 DEF RequestBooking, TypeInv, TypeOK, OnlyRow
<1>6. Rested(row, e, rev) => Rested(row2, e, rev)
  BY <1>2, <1>4 DEF Rested, AgreeWith
<1>7. \A q \in RunningRequests : ~ (Placed(q, row, e) /\ BegunBy(q))
  BY <1>2 DEF Placed, PlacedCare, BegunBy, RunningRequests, Ops
<1>8. QED
  BY <1>1, <1>2, <1>5, <1>6, <1>7, AgreeKeptAside

\* A change of the escrow of a completed booking that keeps it paid or about to be.
LEMMA CompletedAgrees ==
  ASSUME TypeInv, RefundInv, TurnInv, AgreeInv, NEW b \in Bookings,
         UNCHANGED <<booking, request, reviews>>, NEW new, escrow' = [escrow EXCEPT ![b] = new],
         escrow[b].window # "none", new.window # "none",
         new.status \in {escrow[b].status, "released"}
  PROVE  AgreeInv'
<1>1. PICK row, e, rev : row = booking[b] /\ e = escrow[b] /\ rev = reviews[b]
  OBVIOUS
<1>2. row.status = "completed"
  BY <1>1 DEF TurnInv, RowSound
<1>3. booking'[b] = row /\ escrow'[b] = new /\ OnlyRow(b)
  BY <1>1 DEF TypeInv, TypeOK, OnlyRow
<1>4. AgreeWith(row, e) => AgreeWith(row, new)
  BY <1>1, <1>2 DEF AgreeWith
<1>5. Rested(row, e, rev) => Rested(row, new, rev)
  BY <1>1, <1>4 DEF Rested
<1>6. ASSUME NEW q \in RunningRequests, Placed(q, row, e), BegunBy(q), Underway(q, row, e, rev)
      PROVE  Underway(q, row, new, rev)
  <2>1. q.op = "review" /\ q.at # "book"
    BY <1>1, <1>2, <1>6 DEF Placed, PlacedCare, BegunBy, Underway, RunningRequests, Ops
  <2>2. QED
    BY <1>4, <1>6, <2>1 DEF Underway
<1>7. QED
  BY <1>1, <1>2, <1>3, <1>5, <1>6, AgreeKeptAside

LEMMA AgreeInvNext ==
  ASSUME TakeTurns, ~ CanCrash
  PROVE  TypeInv /\ RefundInv /\ TurnInv /\ AgreeInv /\ [Next]_vars => AgreeInv'
<1>1. SUFFICES ASSUME TypeInv, RefundInv, TurnInv, AgreeInv, [Next]_vars
               PROVE  AgreeInv'
  OBVIOUS
<1>2. ASSUME NEW r \in Requests, Proceeds(r) PROVE AgreeInv'
  <2>1. PICK x : Handled(r, x)
    BY <1>1, <1>2, ProceedsHandled DEF HandledBy
  <2>2. x = request'[r]
    BY <1>1, <2>1 DEF Handled, TypeInv, TypeOK
  <2>3. request[r].op \in Ops
    BY <1>2, ProceedsRuns
  <2>4. PICK b \in Bookings : b = request[r].on
    BY <1>1, <2>3, SlotStands
  <2>5. Settled(x, booking'[b], escrow'[b], reviews'[b])
    BY <1>1, <1>2, <2>2, <2>4, ProceedsSettled
  <2>6. QED
    BY <1>1, <1>2, <2>1, <2>3, <2>4, <2>5, ReviewsOnOne, AgreeKeptByRequest
<1>3. ASSUME UNCHANGED <<booking, escrow, reviews, request>> PROVE AgreeInv'
  BY <1>1, <1>3 DEF AgreeInv, Quiet
<1>4. ASSUME NEW b \in Bookings, WindowElapses(b) PROVE AgreeInv'
  <2>1. PICK new : new = [escrow[b] EXCEPT !.window = "elapsed"]
    OBVIOUS
  <2>2. new.window = "elapsed" /\ new.status = escrow[b].status
    BY <1>1, <2>1 DEF TypeInv, TypeOK, EscrowRows
  <2>3. QED
    BY <1>1, <1>4, <2>1, <2>2, CompletedAgrees DEF WindowElapses
<1>5. ASSUME NEW w \in Workers, SweepWrite(w) PROVE AgreeInv'
  <2>1. PICK b \in Bookings : b = sweep[w].paying /\ escrow[b].window # "none"
    BY <1>1, <1>5 DEF SweepWrite, TurnInv, SweepsTimely
  <2>2. PICK new : new = [escrow[b] EXCEPT !.status = "released"]
    OBVIOUS
  <2>3. new.status = "released" /\ new.window = escrow[b].window
    BY <1>1, <2>2 DEF TypeInv, TypeOK, EscrowRows
  <2>4. CASE escrow' = [escrow EXCEPT ![b].status = "released"]
    BY <1>1, <1>5, <2>1, <2>2, <2>3, <2>4, CompletedAgrees DEF SweepWrite
  <2>5. QED
    BY <1>3, <1>5, <2>1, <2>4 DEF SweepWrite
<1>6. ASSUME NEW w \in Workers,
             SweepRead(w) \/ SweepFails(w) \/ \E b \in Bookings : SweepPayout(w, b)
      PROVE  AgreeInv'
  BY <1>3, <1>6 DEF SweepRead, SweepFails, SweepPayout, db
<1>7. CASE UNCHANGED vars
  BY <1>3, <1>7 DEF vars
<1>8. ASSUME NEW r \in Requests, RequestFails(r) PROVE AgreeInv'
  BY <1>8 DEF RequestFails
<1>9. QED
  BY <1>1, <1>2, <1>4, <1>5, <1>6, <1>7, <1>8, OpensAgree, RequestAgrees DEF Next, Sweeps

LEMMA AgreeInvInit == Init => AgreeInv
<1>1. {} # Both /\ AgreeWith(NoRow, NoEscrow)
  BY DEF Both, Sides, AgreeWith, NoRow, NoEscrow
<1>2. Rested(NoRow, NoEscrow, {})
  BY <1>1 DEF Rested
<1>3. QED
  BY <1>2 DEF Init, AgreeInv

LEMMA AgreeInvAlways ==
  ASSUME TakeTurns, ~ CanCrash
  PROVE  Spec => []AgreeInv
<1>1. TypeInv /\ RefundInv /\ TurnInv /\ AgreeInv /\ [Next]_vars => AgreeInv'
  BY AgreeInvNext
<1>2. QED
  BY <1>1, AgreeInvInit, TurnInvAlways, PTL DEF Spec

\* Where actions take turns and run to their end, booking and escrow tell the same story
\* between them: no escrow effect is left undone or done twice.
THEOREM BooksAgreeInTurn ==
  ASSUME TakeTurns, ~ CanCrash
  PROVE  Spec => []BooksAgree
<1>1. AgreeInv => BooksAgree
  BY DEF AgreeInv, Rested, AgreeWith, BooksAgree
<1>2. QED
  BY <1>1, AgreeInvAlways, PTL

\* Where actions take turns and run to their end, the second review has released the
\* money when its action is over, whichever party's it is and whatever the sweep did.
THEOREM BothReviewedReleasesInTurn ==
  ASSUME TakeTurns, ~ CanCrash
  PROVE  Spec => []BothReviewedReleases
<1>1. AgreeInv => BothReviewedReleases
  BY DEF AgreeInv, Rested, BothReviewedReleases
<1>2. QED
  BY <1>1, AgreeInvAlways, PTL

----------------------------------------------------------------------------
(***************************************************************************)
(* What CareContract and the invariants of the turns mean for the money:   *)
(* where it may be at each stage of the care, what becomes of an open      *)
(* dispute window, and when a caregiver is paid.                           *)
(***************************************************************************)

\* Where the money may be: as far as the care, or behind it, never ahead.
MoneyBehind(care) ==
  CASE care \in {"none", "requested"} -> {"none"}
    [] care = "confirmed" -> {"none", "authorized"}
    [] care = "in_progress" -> {"none", "authorized", "captured"}
    [] care = "completed" -> {"none", "authorized", "captured", "released"}
    [] care = "disputed" -> {"none", "authorized", "captured", "disputed"}
    [] care = "cancelled" -> {"none", "authorized", "refunded"}
    [] OTHER -> {}

MoneyNeverLeads == \A b \in Bookings : escrow[b].status \in MoneyBehind(booking[b].status)

\* While the actions on a booking take turns, the escrow is never ahead of the booking,
\* at any moment: between the two transactions of an action, after a crash that cut it
\* short, and whatever a sweep does beside it.
THEOREM MoneyNeverLeadsInTurn ==
  ASSUME TakeTurns
  PROVE  Spec => []MoneyNeverLeads
<1>1. Init => MoneyNeverLeads
  BY DEF Init, NoRow, NoEscrow, MoneyNeverLeads, MoneyBehind
<1>2. ASSUME NEW c, NEW m, NEW c2, NEW m2, m \in MoneyBehind(c), PromisedMove(c, m, c2, m2)
      PROVE  m2 \in MoneyBehind(c2)
  BY <1>2 DEF PromisedMove, MoneyBehind
<1>3. TypeInv /\ RefundInv /\ TurnInv /\ [Next]_vars => (MoneyNeverLeads => MoneyNeverLeads')
  <2> SUFFICES ASSUME TypeInv, RefundInv, TurnInv, [Next]_vars, MoneyNeverLeads,
                      NEW b \in Bookings
               PROVE  escrow'[b].status \in MoneyBehind(booking'[b].status)
    BY DEF MoneyNeverLeads
  <2>1. RowsMove
    BY TurnInvNext
  <2>2. PICK c, m, c2, m2 : /\ c = booking[b].status /\ m = escrow[b].status
                            /\ c2 = booking'[b].status /\ m2 = escrow'[b].status
    OBVIOUS
  <2>3. PromisedMove(c, m, c2, m2)
    BY <2>1, <2>2 DEF RowsMove, OnlyRow, MovedWell, PromisedMove
  <2>4. m \in MoneyBehind(c)
    BY <2>2 DEF MoneyNeverLeads
  <2>5. QED
    BY <1>2, <2>2, <2>3, <2>4
<1>4. QED
  BY <1>1, <1>3, TurnInvAlways, PTL DEF Spec

\* While the actions on a booking take turns, a dispute window that is open on a captured
\* escrow stays until it elapses, is never set anew, and ends in a payout and in nothing
\* else: no cancellation, dispute or crash takes the money away in between.
THEOREM WindowEndsInPayout ==
  ASSUME TakeTurns
  PROVE  Spec => [][\A b \in Bookings :
                      escrow[b].status = "captured" /\ escrow[b].window # "none" =>
                        /\ booking'[b].status = "completed"
                        /\ escrow'[b].status \in {"captured", "released"}
                        /\ escrow'[b].window # "none"
                        /\ escrow[b].window = "elapsed" => escrow'[b].window = "elapsed"]_vars
<1>1. TypeInv /\ RefundInv /\ TurnInv /\ [Next]_vars =>
        [\A b \in Bookings :
           escrow[b].status = "captured" /\ escrow[b].window # "none" =>
             /\ booking'[b].status = "completed"
             /\ escrow'[b].status \in {"captured", "released"}
             /\ escrow'[b].window # "none"
             /\ escrow[b].window = "elapsed" => escrow'[b].window = "elapsed"]_vars
  <2> SUFFICES ASSUME TypeInv, RefundInv, TurnInv, [Next]_vars, NEW b \in Bookings,
                      escrow[b].status = "captured", escrow[b].window # "none"
               PROVE  /\ booking'[b].status = "completed"
                      /\ escrow'[b].status \in {"captured", "released"}
                      /\ escrow'[b].window # "none"
                      /\ escrow[b].window = "elapsed" => escrow'[b].window = "elapsed"
    OBVIOUS
  <2>1. RowsMove /\ booking[b].status = "completed"
    BY TurnInvNext DEF TurnInv, RowSound
  <2>2. CASE UNCHANGED <<booking, escrow>>
    BY <2>1, <2>2
  <2>3. CASE MovedWell(booking[b], escrow[b], booking'[b], escrow'[b])
    BY <2>1, <2>3 DEF MovedWell, PromisedMove
  <2>4. CASE booking'[b] = booking[b] /\ escrow'[b] = escrow[b]
    BY <2>1, <2>4
  <2>5. QED
    BY <2>1, <2>2, <2>3, <2>4 DEF RowsMove, OnlyRow
<1>2. QED
  BY <1>1, TurnInvAlways, PTL DEF Spec

----------------------------------------------------------------------------
(* When a caregiver is paid.                                               *)

\* What lets a payout be ordered: an admin's decision on a dispute, the reviews of both
\* parties, or a dispute window gone by.
PayoutDue(b) == Contested(b) \/ reviews[b] = Both \/ escrow[b].window = "elapsed"

PaidInTime == \A b \in Bookings : Paid(b) => PayoutDue(b)

\* A review that goes on to the payout was the second one.
Counted(q, rev) ==
  q.op = "review" =>
    /\ q.at = "both" => rev \cup {q.actor} = Both
    /\ q.at \in {"escrow", "payout", "write"} => rev = Both

ReviewsCounted == \A r \in Requests : Counted(request[r], reviews[request[r].on])

ReviewsGrow == \A b \in Bookings : reviews[b] \subseteq reviews'[b]

LEMMA CountStays ==
  ASSUME NEW q, NEW rev, NEW rev2, rev \subseteq rev2, rev2 \subseteq Sides, Counted(q, rev)
  PROVE  Counted(q, rev2)
<1>1. Sides = Both
  BY DEF Sides, Both
<1>2. QED
  BY <1>1 DEF Counted

\* The log only grows, whatever a step does.
LEMMA AnyRowsGrow ==
  ASSUME TypeInv, NEW b, NEW rows, Audited(b, rows)
  PROVE  LogGrows
BY DEF TypeInv, TypeOK, Audited, LogGrows

LEMMA ProceedsLogs ==
  ASSUME TypeInv, NEW r \in Requests, Proceeds(r)
  PROVE  LogGrows
<1>1. CASE UNCHANGED audit
  BY <1>1, UnchangedLog
<1>2. CASE \E b, rows : Audited(b, rows)
  BY <1>2, AnyRowsGrow
<1>3. CASE \/ AcceptBookingCommit(r) \/ DeclineBookingCommit(r) \/ StartSessionCommit(r)
           \/ ConfirmEndCommit(r) \/ CancelBookingCommit(r) \/ RaiseDisputeCommit(r)
  <2>1. \E new, goOn : UpdateBooking(r, new, goOn)
    BY <1>3 DEF AcceptBookingCommit, DeclineBookingCommit, StartSessionCommit,
                ConfirmEndCommit, CancelBookingCommit, RaiseDisputeCommit, UpdateStatus
  <2>2. QED
    BY <1>1, <1>2, <2>1 DEF UpdateBooking
<1>4. CASE \/ AuthorizeEscrowRead(r) \/ CaptureEscrowRead(r) \/ OpenDisputeWindowRead(r)
           \/ RefundEscrowRead(r) \/ HoldEscrowRead(r) \/ ReleaseEscrowRead(r)
           \/ InsertReview(r) \/ LeaveReviewCommit(r)
  BY <1>1, <1>4 DEF AuthorizeEscrowRead, CaptureEscrowRead, OpenDisputeWindowRead,
                    RefundEscrowRead, HoldEscrowRead, ReleaseEscrowRead, ReadEscrow,
                    InsertReview, LeaveReviewCommit, db
<1>5. CASE \/ AuthorizeEscrowCall(r) \/ CaptureEscrowCall(r) \/ RefundEscrowFeeCall(r)
           \/ RefundEscrowRestCall(r) \/ ReleaseEscrowCall(r) \/ ResolveDisputeCall(r)
  BY <1>1, <1>5 DEF AuthorizeEscrowCall, CaptureEscrowCall, RefundEscrowFeeCall,
                    RefundEscrowRestCall, ReleaseEscrowCall, ResolveDisputeCall, CallGateway, db
<1>6. CASE \/ AuthorizeEscrowWrite(r) \/ CaptureEscrowWrite(r) \/ OpenDisputeWindowWrite(r)
           \/ RefundEscrowWrite(r) \/ HoldEscrowWrite(r) \/ ReleaseEscrowWrite(r)
           \/ \E resolution \in {"release", "refund"} : ResolveDisputeCommit(r, resolution)
  <2>1. (\E b, rows : Audited(b, rows)) \/ UNCHANGED audit
    BY <1>6 DEF AuthorizeEscrowWrite, CaptureEscrowWrite, OpenDisputeWindowWrite,
                RefundEscrowWrite, HoldEscrowWrite, ReleaseEscrowWrite,
                ResolveDisputeCommit, UpdateEscrow, db
  <2>2. QED
    BY <1>1, <1>2, <2>1
<1>7. QED
  BY <1>3, <1>4, <1>5, <1>6 DEF Proceeds

LEMMA AlwaysLogs ==
  ASSUME TypeInv, [Next]_vars
  PROVE  LogGrows
<1>1. CASE UNCHANGED audit
  BY <1>1, UnchangedLog
<1>2. CASE \E b, rows : Audited(b, rows)
  BY <1>2, AnyRowsGrow
<1>3. ASSUME NEW b \in Bookings, RequestBooking(b) \/ WindowElapses(b) PROVE LogGrows
  BY <1>1, <1>2, <1>3 DEF RequestBooking, WindowElapses
<1>4. ASSUME NEW r \in Requests, NEW b \in Bookings, Opens(r, b) PROVE LogGrows
  BY <1>1, <1>4 DEF Opens, AcceptBooking, DeclineBooking, StartSession, ConfirmEnd,
     CancelBooking, RaiseDispute, LeaveReview, ResolveDispute, Begin, db
<1>5. ASSUME NEW r \in Requests, RequestFails(r) PROVE LogGrows
  BY <1>1, <1>5 DEF RequestFails, db
<1>6. ASSUME NEW w \in Workers, Sweeps(w) \/ SweepFails(w) PROVE LogGrows
  BY <1>1, <1>2, <1>6 DEF Sweeps, SweepRead, SweepWrite, SweepPayout, SweepFails, db
<1>7. CASE UNCHANGED vars
  BY <1>1, <1>7 DEF vars
<1>8. QED
  BY <1>3, <1>4, <1>5, <1>6, <1>7, ProceedsLogs DEF Next

\* A step of an action that is not a review leaves no review behind.
LEMMA OpStays ==
  ASSUME TypeInv, NEW r \in Requests, Proceeds(r)
  PROVE  request'[r] = Idle \/ (request'[r].op = request[r].op /\ request'[r].on = request[r].on)
<1>1. PICK q \in RunningRequests : q = request[r]
  BY SlotTypes, ProceedsRuns DEF TypeInv
<1>2. CASE Done(r)
  BY <1>2 DEF Done, TypeInv, TypeOK
<1>3. ASSUME NEW step, Goto(r, step)
      PROVE  request'[r].op = q.op /\ request'[r].on = q.on
  <2>1. request'[r] = [q EXCEPT !.at = step]
    BY <1>1, <1>3 DEF Goto, TypeInv, TypeOK
  <2>2. QED
    BY <2>1 DEF RunningRequests
<1>4. CASE request' = [request EXCEPT ![r] = Elevated(q)]
  <2>1. request'[r] = Elevated(q)
    BY <1>4 DEF TypeInv, TypeOK
  <2>2. QED
    BY <1>1, <2>1 DEF Elevated, RunningRequests
<1>5. CASE \/ AcceptBookingCommit(r) \/ DeclineBookingCommit(r) \/ StartSessionCommit(r)
           \/ ConfirmEndCommit(r) \/ CancelBookingCommit(r) \/ RaiseDisputeCommit(r)
  <2>1. PICK new, goOn : UpdateBooking(r, new, goOn)
    BY <1>5 DEF AcceptBookingCommit, DeclineBookingCommit, StartSessionCommit,
                ConfirmEndCommit, CancelBookingCommit, RaiseDisputeCommit, UpdateStatus
  <2>2. \/ Done(r)
        \/ request' = [request EXCEPT ![r] = IF goOn THEN Elevated(q) ELSE Idle]
    BY <1>1, <2>1 DEF UpdateBooking
  <2>3. QED
    BY <1>2, <1>4, <2>2 DEF Done
<1>6. CASE RefundEscrowRead(r)
  <2>1. CASE request' = [request EXCEPT ![r] = [q EXCEPT !.fee = CoveredFee(@), !.at = "fee"]]
    <3>1. PICK x : x = [q EXCEPT !.fee = CoveredFee(@), !.at = "fee"]
      OBVIOUS
    <3>2. x.op = q.op /\ x.on = q.on
      BY <3>1 DEF RunningRequests
    <3>3. request'[r] = x
      BY <2>1, <3>1 DEF TypeInv, TypeOK
    <3>4. QED
      BY <1>1, <3>2, <3>3
  <2>2. QED
    BY <1>1, <1>2, <1>6, <2>1 DEF RefundEscrowRead
<1>7. CASE \/ AuthorizeEscrowRead(r) \/ CaptureEscrowRead(r) \/ OpenDisputeWindowRead(r)
           \/ HoldEscrowRead(r) \/ ReleaseEscrowRead(r) \/ InsertReview(r)
  BY <1>1, <1>2, <1>3, <1>7
  DEF AuthorizeEscrowRead, CaptureEscrowRead, OpenDisputeWindowRead, HoldEscrowRead,
      ReleaseEscrowRead, ReadEscrow, InsertReview
<1>8. CASE LeaveReviewCommit(r)
  BY <1>1, <1>2, <1>4, <1>8 DEF LeaveReviewCommit
<1>9. CASE \/ AuthorizeEscrowCall(r) \/ CaptureEscrowCall(r) \/ RefundEscrowFeeCall(r)
           \/ RefundEscrowRestCall(r) \/ ReleaseEscrowCall(r) \/ ResolveDisputeCall(r)
  BY <1>1, <1>3, <1>9 DEF AuthorizeEscrowCall, CaptureEscrowCall, RefundEscrowFeeCall,
     RefundEscrowRestCall, ReleaseEscrowCall, ResolveDisputeCall, CallGateway
<1>10. CASE \/ AuthorizeEscrowWrite(r) \/ CaptureEscrowWrite(r) \/ OpenDisputeWindowWrite(r)
            \/ RefundEscrowWrite(r) \/ HoldEscrowWrite(r) \/ ReleaseEscrowWrite(r)
            \/ \E resolution \in {"release", "refund"} : ResolveDisputeCommit(r, resolution)
  BY <1>2, <1>10 DEF AuthorizeEscrowWrite, CaptureEscrowWrite, OpenDisputeWindowWrite,
     RefundEscrowWrite, HoldEscrowWrite, ReleaseEscrowWrite, ResolveDisputeCommit, UpdateEscrow
<1>11. QED
  BY <1>5, <1>6, <1>7, <1>8, <1>9, <1>10 DEF Proceeds

\* Where a review stands after its next step.
LEMMA ReviewProceeds ==
  ASSUME TypeInv, ReviewsCounted, NEW r \in Requests, Proceeds(r)
  PROVE  ReviewsGrow /\ Counted(request'[r], reviews'[request'[r].on])
<1>1. PICK q \in RunningRequests : q = request[r] /\ q.on \in Bookings /\ q.actor \in Sides \cup {"admin"}
  BY SlotTypes, ProceedsRuns DEF TypeInv, RunningRequests
<1>2. PICK b \in Bookings : b = q.on
  BY <1>1
<1>3. PICK rev : rev = reviews[b] /\ rev \subseteq Sides /\ Counted(q, rev)
  BY <1>1, <1>2 DEF ReviewsCounted, TypeInv, TypeOK
<1>4. PICK x : x = request'[r]
  OBVIOUS
<1>5. x = Idle \/ (x.op = q.op /\ x.on = b)
  BY <1>1, <1>2, <1>4, OpStays
<1>6. ReviewsGrow
  BY <1>1, ReviewsOnOne DEF ReviewsGrow, LeaveReviewCommit, TypeInv, TypeOK
<1> SUFFICES Counted(x, reviews'[x.on])
  BY <1>4, <1>6
<1>7. CASE x = Idle \/ q.op # "review"
  BY <1>4, <1>5, <1>7 DEF Counted, Idle
<1>8. CASE x # Idle /\ q.op = "review" /\ LeaveReviewCommit(r)
  <2>1. q.at = "both" /\ rev \cup {q.actor} = Both
    BY <1>1, <1>2, <1>3, <1>4, <1>8 DEF LeaveReviewCommit, Counted, Done, TypeInv, TypeOK
  <2>2. reviews'[b] = Both
    BY <1>1, <1>2, <1>3, <1>8, <2>1 DEF LeaveReviewCommit, TypeInv, TypeOK
  <2>3. x.on = b /\ x.at = "escrow"
    <3>1. request' = [request EXCEPT ![r] = Elevated(q)]
      BY <1>1, <1>8, <2>1 DEF LeaveReviewCommit
    <3>2. x = Elevated(q)
      BY <1>4, <3>1 DEF TypeInv, TypeOK
    <3>3. QED
      BY <1>5, <1>8, <3>2, SlotAfter, <1>1
  <2>4. QED
    BY <1>4, <2>2, <2>3 DEF Counted
<1>9. CASE x # Idle /\ q.op = "review" /\ ~ LeaveReviewCommit(r)
  <2>1. InsertReview(r) \/ ReleaseEscrowRead(r) \/ ReleaseEscrowCall(r)
    BY <1>1, <1>4, <1>9
    DEF Proceeds, AcceptBookingCommit, DeclineBookingCommit, StartSessionCommit, ConfirmEndCommit,
        CancelBookingCommit, RaiseDisputeCommit, AuthorizeEscrowRead, CaptureEscrowRead,
        OpenDisputeWindowRead, RefundEscrowRead, HoldEscrowRead, AuthorizeEscrowCall,
        CaptureEscrowCall, RefundEscrowFeeCall, RefundEscrowRestCall, ResolveDisputeCall,
        AuthorizeEscrowWrite, CaptureEscrowWrite, OpenDisputeWindowWrite, RefundEscrowWrite,
        HoldEscrowWrite, ReleaseEscrowWrite, UpdateEscrow, ResolveDisputeCommit, Done, At,
        TypeInv, TypeOK
  <2>2. UNCHANGED reviews
    BY <2>1 DEF InsertReview, ReleaseEscrowRead, ReadEscrow, ReleaseEscrowCall, CallGateway, db
  <2>3. PICK step : Goto(r, step)
    BY <1>4, <1>9, <2>1
    DEF InsertReview, ReleaseEscrowRead, ReadEscrow, ReleaseEscrowCall, CallGateway, Done,
        TypeInv, TypeOK
  <2>4. x.op = "review" /\ x.at = step /\ x.actor = q.actor /\ x.on = b
    BY <1>1, <1>4, <1>5, <1>9, <2>3, SlotAfter
  <2>5. CASE InsertReview(r)
    <3>1. \/ x.at = "one"
          \/ x.at = "both" /\ rev \cup {x.actor} = Both
      BY <1>1, <1>2, <1>3, <1>4, <2>4, <2>5, SlotAfter DEF InsertReview
    <3>2. QED
      BY <1>3, <1>4, <2>2, <2>4, <3>1 DEF Counted
  <2>6. CASE ReleaseEscrowRead(r) \/ ReleaseEscrowCall(r)
    <3>1. rev = Both
      BY <1>1, <1>3, <2>6 DEF ReleaseEscrowRead, ReadEscrow, ReleaseEscrowCall, At, Counted
    <3>2. x.at \in {"payout", "write"}
      BY <1>1, <1>4, <1>9, <2>6, SlotAfter
      DEF ReleaseEscrowRead, ReadEscrow, ReleaseEscrowCall, CallGateway, At
    <3>3. QED
      BY <1>3, <1>4, <2>2, <2>4, <3>1, <3>2 DEF Counted
  <2>7. QED
    BY <2>1, <2>5, <2>6
<1>10. QED
  BY <1>7, <1>8, <1>9

LEMMA ReviewsStep ==
  ASSUME TypeInv, TypeInv', ReviewsCounted, [Next]_vars
  PROVE  ReviewsCounted' /\ ReviewsGrow
<1>1. reviews' \in [Bookings -> SUBSET Sides]
  BY DEF TypeInv, TypeOK
<1>2. ASSUME NEW s \in Requests, request'[s] = request[s], ReviewsGrow
      PROVE  Counted(request'[s], reviews'[request'[s].on])
  <2>1. CASE request[s] = Idle
    BY <1>2, <2>1 DEF Counted, Idle
  <2>2. CASE request[s].on \in Bookings
    BY <1>1, <1>2, <2>2, CountStays DEF ReviewsCounted, ReviewsGrow
  <2>3. QED
    BY <2>1, <2>2 DEF TypeInv, TypeOK, RunningRequests
<1>3. CASE UNCHANGED <<request, reviews>>
  <2>1. ReviewsGrow
    BY <1>3 DEF ReviewsGrow
  <2>2. QED
    BY <1>2, <1>3, <2>1 DEF ReviewsCounted
<1>4. ASSUME NEW r \in Requests, Proceeds(r) PROVE ReviewsCounted' /\ ReviewsGrow
  <2>1. ReviewsGrow /\ Counted(request'[r], reviews'[request'[r].on])
    BY <1>4, ReviewProceeds
  <2>2. \A s \in Requests \ {r} : request'[s] = request[s]
    <3>1. \E x : request' = [request EXCEPT ![r] = x]
      BY <1>4, ProceedsOwn
    <3>2. QED
      BY <3>1 DEF TypeInv, TypeOK
  <2>3. QED
    BY <1>2, <2>1, <2>2 DEF ReviewsCounted
<1>5. ASSUME NEW r \in Requests, NEW b \in Bookings, Opens(r, b)
      PROVE  ReviewsCounted' /\ ReviewsGrow
  <2>1. ASSUME NEW q, Begin(r, q), q.op = "review" => q.at = "insert"
        PROVE  ReviewsCounted' /\ ReviewsGrow
    <3>1. ReviewsGrow /\ request'[r] = q /\ \A s \in Requests \ {r} : request'[s] = request[s]
      BY <2>1 DEF Begin, ReviewsGrow, db, TypeInv, TypeOK
    <3>2. Counted(q, reviews'[q.on])
      BY <2>1 DEF Counted
    <3>3. QED
      BY <1>2, <3>1, <3>2 DEF ReviewsCounted
  <2>2. \A op, actor, step :
          Having(op, actor, b, step).op = op /\ Having(op, actor, b, step).at = step
    BY DEF Having, Idle
  <2>3. CASE AcceptBooking(r, b) \/ DeclineBooking(r, b) \/ StartSession(r, b)
    BY <2>1, <2>2, <2>3 DEF AcceptBooking, DeclineBooking, StartSession
  <2>4. ASSUME NEW side, ConfirmEnd(r, b, side) \/ RaiseDispute(r, b, side) \/ LeaveReview(r, b, side)
        PROVE  ReviewsCounted' /\ ReviewsGrow
    BY <2>1, <2>2, <2>4 DEF ConfirmEnd, RaiseDispute, LeaveReview
  <2>5. CASE CancelBooking(r, b)
    <3>1. PICK fee : Begin(r, [Having("cancel", "family", b, "book") EXCEPT !.fee = fee])
      BY <2>5 DEF CancelBooking
    <3>2. PICK q : q = [Having("cancel", "family", b, "book") EXCEPT !.fee = fee]
      OBVIOUS
    <3>3. q.op = "cancel"
      BY <3>2 DEF Having, Idle
    <3>4. Begin(r, q)
      BY <3>1, <3>2
    <3>5. QED
      BY <2>1, <3>3, <3>4
  <2>6. ASSUME NEW resolution \in {"release", "refund"}, ResolveDispute(r, b, resolution)
        PROVE  ReviewsCounted' /\ ReviewsGrow
    <3>1. PICK step, q : /\ q = [Having(resolution, "admin", b, step)
                                   EXCEPT !.escrowSaw = escrow[b].status]
                         /\ Begin(r, q)
      BY <2>6 DEF ResolveDispute
    <3>2. q.op = resolution
      BY <3>1 DEF Having, Idle
    <3>3. QED
      BY <2>1, <2>6, <3>1, <3>2
  <2>7. QED
    BY <1>5, <2>3, <2>4, <2>5, <2>6 DEF Opens
<1>6. ASSUME NEW r \in Requests, RequestFails(r) PROVE ReviewsCounted' /\ ReviewsGrow
  <2>1. ReviewsGrow /\ request'[r] = Idle /\ \A s \in Requests \ {r} : request'[s] = request[s]
    BY <1>6 DEF RequestFails, Done, ReviewsGrow, db, TypeInv, TypeOK
  <2>2. QED
    BY <1>2, <2>1 DEF ReviewsCounted, Counted, Idle
<1>7. ASSUME NEW b \in Bookings, RequestBooking(b) \/ WindowElapses(b)
      PROVE  ReviewsCounted' /\ ReviewsGrow
  BY <1>3, <1>7 DEF RequestBooking, WindowElapses
<1>8. ASSUME NEW w \in Workers, Sweeps(w) \/ SweepFails(w) PROVE ReviewsCounted' /\ ReviewsGrow
  BY <1>3, <1>8 DEF Sweeps, SweepRead, SweepWrite, SweepPayout, SweepFails, db
<1>9. CASE UNCHANGED vars
  BY <1>3, <1>9 DEF vars
<1>10. QED
  BY <1>4, <1>5, <1>6, <1>7, <1>8, <1>9 DEF Next

\* A call that orders a payout is due when it is made.
LEMMA ProceedsPays ==
  ASSUME TypeInv, CareInv, ReviewsCounted, NEW r \in Requests, Proceeds(r),
         NEW b \in Bookings, Paid(b)'
  PROVE  Paid(b) \/ PayoutDue(b)
<1>1. PICK q \in RunningRequests : q = request[r] /\ q.on \in Bookings
  BY SlotTypes, ProceedsRuns DEF TypeInv, RunningRequests
<1>2. ASSUME NEW call, Called(q.on, call), call[1] # "payout" PROVE Paid(b)
  BY <1>1, <1>2, CalledGrows
<1>3. ASSUME Called(q.on, <<"payout", CaregiverPayout>>), PayoutDue(q.on)
      PROVE  Paid(b) \/ PayoutDue(b)
  BY <1>1, <1>3, CalledGrows
<1>4. CASE UNCHANGED gateway
  BY <1>4 DEF Paid
<1>5. CASE ReleaseEscrowCall(r)
  <2>1. reviews[q.on] = Both /\ Called(q.on, <<"payout", CaregiverPayout>>)
    BY <1>1, <1>5 DEF ReleaseEscrowCall, CallGateway, At, ReviewsCounted, Counted
  <2>2. QED
    BY <1>3, <2>1 DEF PayoutDue
<1>6. CASE ResolveDisputeCall(r)
  <2>1. CASE At(r, "release", "payout") /\ Called(q.on, <<"payout", CaregiverPayout>>)
    <3>1. Contested(q.on)
      BY <1>1, <2>1 DEF At, CareInv, SlotLogged, NeedsContested
    <3>2. QED
      BY <1>3, <2>1, <3>1 DEF PayoutDue
  <2>2. CASE Called(q.on, <<"refund", FamilyPays>>)
    BY <1>2, <2>2
  <2>3. QED
    BY <1>1, <1>6, <2>1, <2>2 DEF ResolveDisputeCall, CallGateway
<1>7. CASE AuthorizeEscrowCall(r) \/ CaptureEscrowCall(r)
  BY <1>1, <1>2, <1>7 DEF AuthorizeEscrowCall, CaptureEscrowCall, CallGateway
<1>8. CASE RefundEscrowFeeCall(r) \/ RefundEscrowRestCall(r)
  BY <1>1, <1>2, <1>4, <1>8 DEF RefundEscrowFeeCall, RefundEscrowRestCall
<1>9. CASE \/ AcceptBookingCommit(r) \/ DeclineBookingCommit(r) \/ StartSessionCommit(r)
           \/ ConfirmEndCommit(r) \/ CancelBookingCommit(r) \/ RaiseDisputeCommit(r)
  BY <1>4, <1>9 DEF AcceptBookingCommit, DeclineBookingCommit, StartSessionCommit,
     ConfirmEndCommit, CancelBookingCommit, RaiseDisputeCommit, UpdateStatus
<1>10. CASE \/ AuthorizeEscrowRead(r) \/ CaptureEscrowRead(r) \/ OpenDisputeWindowRead(r)
            \/ RefundEscrowRead(r) \/ HoldEscrowRead(r) \/ ReleaseEscrowRead(r)
            \/ InsertReview(r) \/ LeaveReviewCommit(r)
  BY <1>4, <1>10 DEF AuthorizeEscrowRead, CaptureEscrowRead, OpenDisputeWindowRead,
     RefundEscrowRead, HoldEscrowRead, ReleaseEscrowRead, ReadEscrow, InsertReview,
     LeaveReviewCommit
<1>11. CASE \/ AuthorizeEscrowWrite(r) \/ CaptureEscrowWrite(r) \/ OpenDisputeWindowWrite(r)
            \/ RefundEscrowWrite(r) \/ HoldEscrowWrite(r) \/ ReleaseEscrowWrite(r)
            \/ \E resolution \in {"release", "refund"} : ResolveDisputeCommit(r, resolution)
  BY <1>4, <1>11 DEF AuthorizeEscrowWrite, CaptureEscrowWrite, OpenDisputeWindowWrite,
     RefundEscrowWrite, HoldEscrowWrite, ReleaseEscrowWrite, ResolveDisputeCommit, UpdateEscrow
<1>12. QED
  BY <1>5, <1>6, <1>7, <1>8, <1>9, <1>10, <1>11 DEF Proceeds

LEMMA PaysWhenDue ==
  ASSUME TypeInv, CareInv, TurnInv, ReviewsCounted, [Next]_vars, NEW b \in Bookings, Paid(b)'
  PROVE  Paid(b) \/ PayoutDue(b)
<1>1. CASE UNCHANGED gateway
  BY <1>1 DEF Paid
<1>2. ASSUME NEW c \in Bookings, RequestBooking(c) \/ WindowElapses(c)
      PROVE  Paid(b)
  BY <1>1, <1>2 DEF RequestBooking, WindowElapses, Paid
<1>3. ASSUME NEW r \in Requests, NEW c \in Bookings, Opens(r, c)
      PROVE  Paid(b)
  BY <1>3 DEF Opens, AcceptBooking, DeclineBooking, StartSession, ConfirmEnd, CancelBooking,
              RaiseDispute, LeaveReview, ResolveDispute, Begin, Paid
<1>4. ASSUME NEW r \in Requests, RequestFails(r)
      PROVE  Paid(b)
  BY <1>4 DEF RequestFails, Paid
<1>5. ASSUME NEW w \in Workers, NEW c \in Bookings, SweepPayout(w, c)
      PROVE  Paid(b) \/ PayoutDue(b)
  <2>1. Called(c, <<"payout", CaregiverPayout>>) /\ escrow[c].window = "elapsed"
    BY <1>5 DEF SweepPayout, TurnInv, SweepsTimely
  <2>2. QED
    BY <2>1, CalledGrows DEF PayoutDue
<1>6. ASSUME NEW w \in Workers, SweepRead(w) \/ SweepWrite(w) \/ SweepFails(w)
      PROVE  Paid(b)
  BY <1>6 DEF SweepRead, SweepWrite, SweepFails, Paid
<1>7. CASE UNCHANGED vars
  BY <1>1, <1>7 DEF vars
<1>8. QED
  BY <1>2, <1>3, <1>4, <1>5, <1>6, <1>7, ProceedsPays DEF Next, Sweeps

\* While the actions on a booking take turns, no order to pay the caregiver reaches the
\* gateway before the dispute window has elapsed, unless both parties have reviewed the
\* session or it went to a dispute: whichever of the three payout paths (both reviews,
\* sweep, admin) sends it, and however a sweep overlaps with an action or dies.
THEOREM PaidInTimeInTurn ==
  ASSUME TakeTurns
  PROVE  Spec => []PaidInTime
<1>1. Init => ReviewsCounted /\ PaidInTime /\ CareInv
  BY CareInvInit DEF Init, ReviewsCounted, Counted, Idle, PaidInTime, Paid
<1>2. ASSUME TypeInv, RefundInv, TurnInv, CareInv, ReviewsCounted, PaidInTime, [Next]_vars
      PROVE  ReviewsCounted' /\ PaidInTime' /\ CareInv'
  <2>1. TypeInv' /\ CareInv' /\ RowsMove
    BY <1>2, TypeInvNext, CareInvNext, TurnInvNext
  <2>2. ReviewsCounted' /\ ReviewsGrow /\ LogGrows
    BY <1>2, <2>1, ReviewsStep, AlwaysLogs
  <2>3. ASSUME NEW b \in Bookings, PayoutDue(b) PROVE PayoutDue(b)'
    <3>1. Contested(b) => Contested(b)'
      BY <2>2, RecordedStays
    <3>2. reviews[b] = Both => reviews'[b] = Both
      BY <2>1, <2>2 DEF ReviewsGrow, TypeInv, TypeOK, Sides, Both
    <3>3. escrow[b].window = "elapsed" => escrow'[b].window = "elapsed"
      BY <2>1 DEF RowsMove, OnlyRow, MovedWell
    <3>4. QED
      BY <2>3, <3>1, <3>2, <3>3 DEF PayoutDue
  <2>4. PaidInTime'
    BY <1>2, <2>3, PaysWhenDue DEF PaidInTime
  <2>5. QED
    BY <2>1, <2>2, <2>4
<1>3. TypeInv /\ RefundInv /\ TurnInv /\ ReviewsCounted /\ PaidInTime /\ CareInv /\ [Next]_vars
        => (ReviewsCounted /\ PaidInTime /\ CareInv)'
  BY <1>2
<1>4. QED
  BY <1>1, <1>3, TurnInvAlways, PTL DEF Spec
=============================================================================
