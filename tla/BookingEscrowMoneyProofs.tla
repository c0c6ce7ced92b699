---------------------- MODULE BookingEscrowMoneyProofs ----------------------
(***************************************************************************)
(* That the money follows the care, that a refunded escrow is money given  *)
(* back, and that no party drives a transition it may not, for any set of  *)
(* bookings, of server actions in flight and of sweeps: EscrowFollowsCare, *)
(* PaidOnlyForCare, RefundMatchesFee and OnlyPermittedActors.              *)
(***************************************************************************)
EXTENDS BookingEscrowProofs

----------------------------------------------------------------------------
(***************************************************************************)
(* The money follows the care.                                             *)
(*                                                                         *)
(* The statuses themselves prove nothing about the past: a racing commit   *)
(* may overwrite any of them.  The audit log does: it only grows, and each *)
(* row is written in the transaction that made the change.  So whatever a  *)
(* request has seen or done is stated here as what the log records, and    *)
(* stays true while other requests interleave.                             *)
(***************************************************************************)


\* A disputed or completed booking has the row that made it so.
CareLogged(b) ==
  /\ booking[b].status = "disputed" => Contested(b)
  /\ booking[b].status = "completed" => Completed(b)

\* The conjunct of EscrowFollowsCare, and of PaidOnlyForCare, about b.
EscrowLogged(b) ==
  /\ escrow[b].status # "none" => Accepted(b)
  /\ escrow[b].status \in {"captured", "disputed", "released"} => Started(b)
  /\ escrow[b].status = "disputed" => Contested(b)
  /\ escrow[b].status = "released" \/ escrow[b].window # "none" => Completed(b)

PayoutLogged(b) == Paid(b) => Completed(b) \/ Contested(b)

\* What the log records about the booking of a request, by where it stands.
NeedsAccepted(op, at) ==
  \/ op = "accept" /\ at # "book"
  \/ op \in {"start", "dispute", "cancel"} /\ at \notin {"book", "escrow"}
  \/ op \in {"release", "refund"}

NeedsStarted(op, at) ==
  \/ op = "start" /\ at # "book"
  \/ op = "dispute" /\ at = "write"
  \/ op = "release"

NeedsContested(op, at) == (op = "dispute" /\ at # "book") \/ op = "release"

NeedsCompleted(op, at) == (op = "confirmEnd" /\ at # "book") \/ op = "review"

\* What a request about to commit its booking transaction has read.
Read(q) ==
  /\ q.op = "accept" /\ q.at = "book" => q.saw.status = "requested"
  /\ q.op = "start" /\ q.at = "book" => q.saw.status = "confirmed"
  /\ q.op \in {"confirmEnd", "dispute"} /\ q.at = "book" => q.saw.status = "in_progress"
  /\ q.op = "release" => q.saw.status = "disputed"

SlotLogged(q) ==
  /\ NeedsAccepted(q.op, q.at) => Accepted(q.on)
  /\ NeedsStarted(q.op, q.at) => Started(q.on)
  /\ NeedsContested(q.op, q.at) => Contested(q.on)
  /\ NeedsCompleted(q.op, q.at) => Completed(q.on)
  /\ Read(q)

SweepLogged(w) ==
  \A b \in Bookings : b \in sweep[w].batch \/ b = sweep[w].paying => Completed(b)

CareInv ==
  /\ \A b \in Bookings : CareLogged(b) /\ EscrowLogged(b) /\ PayoutLogged(b)
  /\ \A r \in Requests : SlotLogged(request[r])
  /\ \A w \in Workers : SweepLogged(w)

----------------------------------------------------------------------------
(* The log only grows, so what it records stays recorded.                  *)

LogGrows == \A b \in Bookings : audit[b] \subseteq audit'[b]

LEMMA RecordedStays ==
  ASSUME LogGrows, NEW b \in Bookings
  PROVE  /\ Accepted(b) => Accepted(b)'
         /\ Started(b) => Started(b)'
         /\ Contested(b) => Contested(b)'
         /\ Completed(b) => Completed(b)'
  BY DEF LogGrows, Accepted, Started, Contested, Completed, Recorded

\* Writing rows about one booking.
LEMMA AuditedGrows ==
  ASSUME TypeInv, NEW b \in Bookings, NEW rows, Audited(b, rows)
  PROVE  LogGrows /\ rows \subseteq audit'[b]
  BY DEF TypeInv, TypeOK, Audited, LogGrows

LEMMA UnchangedLog ==
  ASSUME UNCHANGED audit
  PROVE  LogGrows
  BY DEF LogGrows

\* The row of a booking transition is the record of it.
LEMMA RowRecords ==
  ASSUME NEW b, NEW from, NEW to, Row("booking", from, to) \in audit'[b]
  PROVE  /\ from = "requested" /\ to = "confirmed" => Accepted(b)'
         /\ from = "confirmed" /\ to = "in_progress" => Started(b)'
         /\ from = "in_progress" /\ to = "disputed" => Contested(b)'
         /\ from \in {"in_progress", "disputed"} /\ to = "completed" => Completed(b)'
  BY DEF Row, Accepted, Started, Contested, Completed, Recorded

\* What a step leaves alone is still recorded.
LEMMA BookingsStayLogged ==
  ASSUME CareInv, LogGrows,
         \A b \in Bookings : booking'[b].status = booking[b].status \/ CareLogged(b)',
         \A b \in Bookings : escrow'[b] = escrow[b] \/ EscrowLogged(b)',
         \A b \in Bookings : (Paid(b)' => Paid(b)) \/ PayoutLogged(b)'
  PROVE  \A b \in Bookings : CareLogged(b)' /\ EscrowLogged(b)' /\ PayoutLogged(b)'
  <1> TAKE b \in Bookings
  <1>1. CareLogged(b) /\ EscrowLogged(b) /\ PayoutLogged(b)
    BY DEF CareInv
  <1>2. CareLogged(b)'
    BY <1>1, RecordedStays DEF CareLogged
  <1>3. EscrowLogged(b)'
    BY <1>1, RecordedStays DEF EscrowLogged
  <1>4. PayoutLogged(b)'
    BY <1>1, RecordedStays DEF PayoutLogged
  <1> QED
    BY <1>2, <1>3, <1>4

LEMMA SlotStaysLogged ==
  ASSUME TypeInv, CareInv, LogGrows, NEW s \in Requests, request'[s] = request[s]
  PROVE  SlotLogged(request[s])'
  <1>1. SlotLogged(request[s]) /\ (request[s] = Idle \/ request[s].on \in Bookings)
    BY DEF TypeInv, TypeOK, RunningRequests, CareInv
  <1>2. CASE request[s] = Idle
    BY <1>2 DEF SlotLogged, Read, NeedsAccepted, NeedsStarted, NeedsContested,
                NeedsCompleted, Idle
  <1>3. CASE request[s].on \in Bookings
    <2>1. PICK q : q = request[s]
      OBVIOUS
    <2>2. SlotLogged(q)'
      BY <1>1, <1>3, <2>1, RecordedStays
      DEF SlotLogged, Read, NeedsAccepted, NeedsStarted, NeedsContested, NeedsCompleted
    <2> QED
      BY <2>1, <2>2 DEF SlotLogged, Read, NeedsAccepted, NeedsStarted, NeedsContested,
                        NeedsCompleted, Accepted, Started, Contested, Completed, Recorded
  <1> QED
    BY <1>1, <1>2, <1>3

LEMMA SweepStaysLogged ==
  ASSUME CareInv, LogGrows, NEW w \in Workers, sweep'[w] = sweep[w]
  PROVE  SweepLogged(w)'
  BY RecordedStays DEF CareInv, SweepLogged

\* A step of one request.
LEMMA CareByRequest ==
  ASSUME TypeInv, CareInv, NEW r \in Requests, NEW x,
         request' = [request EXCEPT ![r] = x], SlotLogged(x)', LogGrows, UNCHANGED sweep,
         \A b \in Bookings : CareLogged(b)' /\ EscrowLogged(b)' /\ PayoutLogged(b)'
  PROVE  CareInv'
  <1>1. ASSUME NEW s \in Requests PROVE SlotLogged(request[s])'
    <2>1. CASE s = r
      <3>1. request'[s] = x
        BY <2>1 DEF TypeInv, TypeOK
      <3> QED
        BY <3>1 DEF SlotLogged, Read, NeedsAccepted, NeedsStarted, NeedsContested,
                    NeedsCompleted, Accepted, Started, Contested, Completed, Recorded
    <2>2. CASE s # r
      <3>1. request'[s] = request[s]
        BY <2>2 DEF TypeInv, TypeOK
      <3> QED
        BY <3>1, SlotStaysLogged
    <2> QED
      BY <2>1, <2>2
  <1>2. \A w \in Workers : SweepLogged(w)'
    BY SweepStaysLogged
  <1> QED
    BY <1>1, <1>2 DEF CareInv

LEMMA IdleLogged == SlotLogged(Idle)'
  BY DEF SlotLogged, Read, NeedsAccepted, NeedsStarted, NeedsContested, NeedsCompleted, Idle

\* A request that returns.
LEMMA CareByReturn ==
  ASSUME TypeInv, CareInv, NEW r \in Requests, Done(r), LogGrows, UNCHANGED sweep,
         \A b \in Bookings : CareLogged(b)' /\ EscrowLogged(b)' /\ PayoutLogged(b)'
  PROVE  CareInv'
  BY IdleLogged, CareByRequest DEF Done

\* A request that has read, or been answered by the gateway, and goes on.
LEMMA CareByMove ==
  ASSUME TypeInv, CareInv, NEW r \in Requests, NEW x, x.on \in Bookings,
         request' = [request EXCEPT ![r] = x], SlotLogged(x), UNCHANGED <<db, sweep>>,
         \A b \in Bookings : PayoutLogged(b)'
  PROVE  CareInv'
  <1>1. LogGrows
    BY UnchangedLog DEF db
  <1>2. SlotLogged(x)'
    BY <1>1, RecordedStays
    DEF SlotLogged, Read, NeedsAccepted, NeedsStarted, NeedsContested, NeedsCompleted
  <1>3. \A b \in Bookings : CareLogged(b)' /\ EscrowLogged(b)' /\ PayoutLogged(b)'
    BY <1>1, BookingsStayLogged DEF db
  <1> QED
    BY <1>1, <1>2, <1>3, CareByRequest

\* The booking transaction.  Its row records the transition from the status it
\* read, and that is what the escrow transaction after it goes by.
LEMMA CareByBooking ==
  ASSUME TypeInv, CareInv, NEW r \in Requests, request[r] \in RunningRequests,
         NEW q, q = request[r], NEW new, NEW goOn, UpdateBooking(r, new, goOn),
         UNCHANGED <<escrow, reviews, gateway, sweep>>,
         q.op \notin {"review", "refund", "release"},
         new.status = "disputed" => q.saw.status = "in_progress",
         new.status = "completed" => q.saw.status = "in_progress",
         goOn /\ q.op = "accept" => q.saw.status = "requested" /\ new.status = "confirmed",
         goOn /\ q.op = "start" => q.saw.status = "confirmed" /\ new.status = "in_progress",
         goOn /\ q.op = "confirmEnd" => new.status = "completed",
         goOn /\ q.op = "dispute" => new.status = "disputed"
  PROVE  CareInv'
  <1>1. q.on \in Bookings
    BY DEF RunningRequests
  <1>2. \A b \in Bookings : Paid(b)' = Paid(b) /\ escrow'[b] = escrow[b]
    BY DEF Paid
  <1>3. CASE Done(r) /\ UNCHANGED <<booking, audit>>
    <2>1. \A b \in Bookings : CareLogged(b)' /\ EscrowLogged(b)' /\ PayoutLogged(b)'
      BY <1>2, <1>3, UnchangedLog, BookingsStayLogged
    <2> QED
      BY <1>3, <2>1, UnchangedLog, CareByReturn
  <1>4. CASE /\ booking' = [booking EXCEPT ![q.on] = new]
             /\ Audited(q.on, {Row("booking", q.saw.status, new.status)})
             /\ request' = [request EXCEPT ![r] = IF goOn THEN Elevated(q) ELSE Idle]
    <2>1. LogGrows /\ Row("booking", q.saw.status, new.status) \in audit'[q.on]
      BY <1>1, <1>4, AuditedGrows
    <2>2. CareLogged(q.on)'
      BY <1>1, <1>4, <2>1, RowRecords DEF CareLogged, TypeInv, TypeOK
    <2>3. \A b \in Bookings : booking'[b].status = booking[b].status \/ CareLogged(b)'
      BY <1>1, <1>4, <2>2 DEF TypeInv, TypeOK
    <2>4. \A b \in Bookings : CareLogged(b)' /\ EscrowLogged(b)' /\ PayoutLogged(b)'
      BY <1>2, <2>1, <2>3, BookingsStayLogged
    <2>5. CASE goOn
      <3>1. PICK x : x = Elevated(q)
        OBVIOUS
      <3>2. x.op = q.op /\ x.on = q.on /\ x.at = "escrow"
        BY <3>1, IdleFunded
      <3>3. SlotLogged(x)'
        BY <2>1, <2>5, <3>2, RowRecords
        DEF SlotLogged, Read, NeedsAccepted, NeedsStarted, NeedsContested, NeedsCompleted
      <3> QED
        BY <1>4, <2>1, <2>4, <2>5, <3>1, <3>3, CareByRequest
    <2>6. CASE ~goOn
      BY <1>4, <2>1, <2>4, <2>6, IdleLogged, CareByRequest
    <2> QED
      BY <2>5, <2>6
  <1> QED
    BY <1>3, <1>4 DEF UpdateBooking

\* The escrow transaction's read.
LEMMA CareByRead ==
  ASSUME TypeInv, CareInv, NEW r \in Requests, request[r] \in RunningRequests,
         NEW q, q = request[r], NEW wanted, NEW step \in Steps \ {"book", "escrow"},
         ReadEscrow(r, wanted, step),
         q.op \in {"accept", "start", "dispute", "review"},
         q.op # "accept" => wanted # "none",
         q.op = "dispute" => wanted = "captured"
  PROVE  CareInv'
  <1>1. q.on \in Bookings /\ EscrowLogged(q.on) /\ SlotLogged(q) /\ q.at = "escrow"
    BY DEF RunningRequests, CareInv, ReadEscrow
  <1>2. \A b \in Bookings : PayoutLogged(b)' /\ PayoutLogged(b)
    BY DEF ReadEscrow, db, CareInv, PayoutLogged, Paid, Completed, Contested, Recorded
  <1>3. CASE Done(r)
    <2>1. SlotLogged(Idle) /\ request' = [request EXCEPT ![r] = Idle]
      BY <1>3 DEF Done, SlotLogged, Read, NeedsAccepted, NeedsStarted, NeedsContested,
                  NeedsCompleted, Idle
    <2>2. LogGrows /\ UNCHANGED sweep
      BY UnchangedLog DEF ReadEscrow, db
    <2>3. \A b \in Bookings : CareLogged(b)' /\ EscrowLogged(b)' /\ PayoutLogged(b)'
      BY <1>2, <2>2, BookingsStayLogged DEF ReadEscrow, db
    <2> QED
      BY <1>3, <2>2, <2>3, CareByReturn
  <1>4. CASE escrow[q.on].status = wanted /\ Goto(r, step)
    <2>1. PICK x : x = [q EXCEPT !.at = step]
      OBVIOUS
    <2>2. /\ x.op = q.op /\ x.on = q.on /\ x.at = step /\ x.saw = q.saw
          /\ request' = [request EXCEPT ![r] = x]
      BY <1>4, <2>1 DEF Goto, RunningRequests
    <2>3. SlotLogged(x)
      BY <1>1, <1>4, <2>2
      DEF SlotLogged, Read, NeedsAccepted, NeedsStarted, NeedsContested, NeedsCompleted,
          EscrowLogged
    <2> QED
      BY <1>1, <1>2, <2>2, <2>3, CareByMove DEF ReadEscrow
  <1> QED
    BY <1>3, <1>4 DEF ReadEscrow

\* A gateway call.  Only a payout needs anything from the log.
LEMMA CareByCall ==
  ASSUME TypeInv, CareInv, NEW r \in Requests, request[r] \in RunningRequests,
         NEW q, q = request[r], NEW step \in Steps \ {"book", "escrow"},
         NEW call, Called(q.on, call) \/ UNCHANGED gateway, Goto(r, step),
         UNCHANGED <<db, sweep>>, q.at \notin {"book", "escrow"},
         q.op \in {"accept", "start", "cancel", "review", "refund", "release"},
         call = <<"payout", CaregiverPayout>> => q.op \in {"review", "release"}
  PROVE  CareInv'
  <1>1. q.on \in Bookings /\ SlotLogged(q)
    BY DEF RunningRequests, CareInv
  <1>2. PICK x : x = [q EXCEPT !.at = step]
    OBVIOUS
  <1>3. /\ x.op = q.op /\ x.on = q.on /\ x.at = step /\ x.saw = q.saw
        /\ request' = [request EXCEPT ![r] = x]
    BY <1>2 DEF Goto, RunningRequests
  <1>4. SlotLogged(x)
    BY <1>1, <1>3
    DEF SlotLogged, Read, NeedsAccepted, NeedsStarted, NeedsContested, NeedsCompleted
  <1>5. q.op \in {"review", "release"} => Completed(q.on) \/ Contested(q.on)
    BY <1>1 DEF SlotLogged, NeedsCompleted, NeedsContested
  <1>6. \A b \in Bookings : Paid(b)' => Completed(b) \/ Contested(b)
    BY <1>1, <1>5, CalledGrows DEF CareInv, PayoutLogged, Paid
  <1>7. \A b \in Bookings : PayoutLogged(b)'
    BY <1>6 DEF PayoutLogged, db, Completed, Contested, Recorded
  <1> QED
    BY <1>1, <1>3, <1>4, <1>7, CareByMove

\* A write of the escrow transaction, after which the request returns.
LEMMA CareByEscrow ==
  ASSUME TypeInv, CareInv, NEW r \in Requests, NEW b \in Bookings, NEW rows,
         escrow' = [escrow EXCEPT ![b] = escrow'[b]], Audited(b, rows), Done(r),
         UNCHANGED <<booking, gateway, sweep>>,
         LogGrows => EscrowLogged(b)'
  PROVE  CareInv'
  <1>1. LogGrows
    BY AuditedGrows
  <1>2. \A c \in Bookings : escrow'[c] = escrow[c] \/ EscrowLogged(c)'
    BY <1>1 DEF TypeInv, TypeOK
  <1>3. \A c \in Bookings : CareLogged(c)' /\ EscrowLogged(c)' /\ PayoutLogged(c)'
    BY <1>1, <1>2, BookingsStayLogged DEF Paid
  <1> QED
    BY <1>1, <1>3, CareByReturn

LEMMA ProceedsCare ==
  ASSUME TypeInv, CareInv, NEW r \in Requests, Proceeds(r)
  PROVE  CareInv'
  <1> USE DEF At, Ops, Steps
  <1>1. PICK q : q = request[r]
    OBVIOUS
  <1>2. PICK on : on = q.on
    OBVIOUS
  <1>3. q.op \in Ops => /\ q \in RunningRequests /\ on \in Bookings
                        /\ booking[on] \in BookingRows /\ escrow[on] \in EscrowRows
                        /\ EscrowLogged(on)
    BY <1>1, <1>2, SlotTypes DEF TypeInv, TypeOK, RunningRequests, CareInv
  <1>4. SlotLogged(q)
    BY <1>1 DEF CareInv
  \* Booking transactions that only set a status.
  <1>5. ASSUME NEW s, NEW goOn, UpdateStatus(r, s, goOn), q.at = "book",
               \/ q.op = "accept" /\ s = "confirmed"
               \/ q.op = "start" /\ s = "in_progress"
               \/ q.op \in {"decline", "cancel"} /\ s = "cancelled"
               \/ q.op = "dispute" /\ s = "disputed"
        PROVE  CareInv'
    <2>1. PICK new : new = [booking[on] EXCEPT !.status = s]
      OBVIOUS
    <2>2. new.status = s /\ Read(q)
      BY <1>3, <1>4, <1>5, <2>1 DEF BookingRows, SlotLogged
    <2>3. UpdateBooking(r, new, goOn) /\ UNCHANGED <<escrow, reviews, gateway, sweep>>
      BY <1>1, <1>2, <1>5, <2>1 DEF UpdateStatus
    <2> QED
      BY <1>1, <1>3, <1>5, <2>2, <2>3, CareByBooking DEF Read
  <1>6. CASE AcceptBookingCommit(r)
    BY <1>1, <1>5, <1>6 DEF AcceptBookingCommit
  <1>7. CASE DeclineBookingCommit(r)
    BY <1>1, <1>5, <1>7 DEF DeclineBookingCommit
  <1>8. CASE StartSessionCommit(r)
    BY <1>1, <1>5, <1>8 DEF StartSessionCommit
  <1>9. CASE CancelBookingCommit(r)
    BY <1>1, <1>5, <1>9 DEF CancelBookingCommit
  <1>10. CASE RaiseDisputeCommit(r)
    BY <1>1, <1>5, <1>10 DEF RaiseDisputeCommit
  <1>11. CASE ConfirmEndCommit(r)
    <2>1. PICK new, goOn :
            /\ UpdateBooking(r, new, goOn)
            /\ new.status = IF goOn THEN "completed" ELSE "in_progress"
            /\ goOn = BothConfirmed(q)
      BY <1>1, <1>11 DEF ConfirmEndCommit
    <2>2. q.op = "confirmEnd" /\ q.saw.status = "in_progress"
      BY <1>1, <1>4, <1>11 DEF ConfirmEndCommit, SlotLogged, Read
    <2>3. new.status = "completed" \/ ~goOn
      BY <2>1
    <2> QED
      BY <1>1, <1>3, <1>11, <2>1, <2>2, <2>3, CareByBooking DEF ConfirmEndCommit
  \* Reads of the escrow.
  <1>12. CASE AuthorizeEscrowRead(r)
    BY <1>1, <1>3, <1>12, CareByRead DEF AuthorizeEscrowRead
  <1>13. CASE CaptureEscrowRead(r)
    BY <1>1, <1>3, <1>13, CareByRead DEF CaptureEscrowRead
  <1>14. CASE HoldEscrowRead(r)
    BY <1>1, <1>3, <1>14, CareByRead DEF HoldEscrowRead
  <1>15. CASE ReleaseEscrowRead(r)
    BY <1>1, <1>3, <1>15, CareByRead DEF ReleaseEscrowRead
  <1>16. ASSUME UNCHANGED <<db, gateway, sweep>>
         PROVE  /\ LogGrows
                /\ \A b \in Bookings : CareLogged(b)' /\ EscrowLogged(b)' /\ PayoutLogged(b)'
    BY <1>16, UnchangedLog, BookingsStayLogged DEF db, Paid
  <1>17. ASSUME UNCHANGED <<db, gateway, sweep>>, Done(r)
         PROVE  CareInv'
    BY <1>16, <1>17, CareByReturn
  <1>18. CASE OpenDisputeWindowRead(r)
    <2>1. CASE Goto(r, "write")
      <3>1. PICK x : x = [q EXCEPT !.at = "write"]
        OBVIOUS
      <3>2. /\ x.op = "confirmEnd" /\ x.on = on /\ x.at = "write" /\ x.saw = q.saw
            /\ request' = [request EXCEPT ![r] = x]
        BY <1>1, <1>2, <1>3, <1>18, <2>1, <3>1
        DEF Goto, RunningRequests, OpenDisputeWindowRead
      <3>3. SlotLogged(x)
        BY <1>1, <1>2, <1>4, <1>18, <3>2
        DEF OpenDisputeWindowRead, SlotLogged, Read, NeedsAccepted, NeedsStarted,
            NeedsContested, NeedsCompleted
      <3> QED
        BY <1>1, <1>3, <1>16, <1>18, <3>2, <3>3, CareByMove DEF OpenDisputeWindowRead, db
    <2> QED
      BY <1>17, <1>18, <2>1 DEF OpenDisputeWindowRead
  <1>19. CASE RefundEscrowRead(r)
    <2>1. CASE /\ escrow[on].status = "authorized"
               /\ request' = [request EXCEPT ![r] = [q EXCEPT !.fee = CoveredFee(@), !.at = "fee"]]
      <3>1. PICK x : x = [q EXCEPT !.fee = CoveredFee(@), !.at = "fee"]
        OBVIOUS
      <3>2. x.op = "cancel" /\ x.on = on /\ x.at = "fee"
        BY <1>1, <1>2, <1>3, <1>19, <3>1 DEF RunningRequests, RefundEscrowRead
      <3>3. SlotLogged(x)
        BY <1>1, <1>3, <1>19, <2>1, <3>2
        DEF RefundEscrowRead, SlotLogged, Read, NeedsAccepted, NeedsStarted, NeedsContested,
            NeedsCompleted, EscrowLogged
      <3>4. request' = [request EXCEPT ![r] = x] /\ UNCHANGED <<db, gateway, sweep>>
        BY <1>19, <2>1, <3>1 DEF RefundEscrowRead
      <3> QED
        BY <1>1, <1>3, <1>16, <1>19, <3>2, <3>3, <3>4, CareByMove DEF RefundEscrowRead
    <2> QED
      BY <1>1, <1>2, <1>17, <1>19, <2>1 DEF RefundEscrowRead
  \* Calls of the gateway.
  <1>20. CASE AuthorizeEscrowCall(r)
    BY <1>1, <1>3, <1>20, CareByCall DEF AuthorizeEscrowCall, CallGateway
  <1>21. CASE CaptureEscrowCall(r)
    BY <1>1, <1>3, <1>21, CareByCall DEF CaptureEscrowCall, CallGateway
  <1>22. CASE RefundEscrowFeeCall(r)
    BY <1>1, <1>3, <1>22, CareByCall DEF RefundEscrowFeeCall
  <1>23. CASE RefundEscrowRestCall(r)
    BY <1>1, <1>3, <1>23, CareByCall DEF RefundEscrowRestCall
  <1>24. CASE ReleaseEscrowCall(r)
    BY <1>1, <1>3, <1>24, CareByCall DEF ReleaseEscrowCall, CallGateway
  <1>25. CASE ResolveDisputeCall(r)
    BY <1>1, <1>3, <1>25, CareByCall DEF ResolveDisputeCall, CallGateway
  \* Writes of the escrow transaction: the log already justifies the new row.
  <1>26. ASSUME NEW e, NEW before, UpdateEscrow(r, e, before), q.op \in Ops,
                e.status # "none" => Accepted(on),
                e.status \in {"captured", "disputed", "released"} => Started(on),
                e.status = "disputed" => Contested(on),
                e.status = "released" \/ e.window # "none" => Completed(on)
         PROVE  CareInv'
    <2>1. /\ escrow' = [escrow EXCEPT ![on] = e]
          /\ Audited(on, {Row("escrow", before, e.status)}) /\ Done(r)
          /\ UNCHANGED <<booking, gateway, sweep>>
      BY <1>1, <1>2, <1>26 DEF UpdateEscrow
    <2>2. escrow'[on] = e /\ escrow' = [escrow EXCEPT ![on] = escrow'[on]]
      BY <1>3, <1>26, <2>1 DEF TypeInv, TypeOK
    <2>3. LogGrows => EscrowLogged(on)'
      BY <1>3, <1>26, <2>2, RecordedStays DEF EscrowLogged
    <2> QED
      BY <1>3, <1>26, <2>1, <2>2, <2>3, CareByEscrow
  <1>27. CASE AuthorizeEscrowWrite(r)
    <2>1. Accepted(on)
      BY <1>1, <1>2, <1>4, <1>27 DEF AuthorizeEscrowWrite, SlotLogged, NeedsAccepted
    <2>2. CASE UpdateEscrow(r, [NoEscrow EXCEPT !.status = "authorized"], "none")
      BY <1>1, <1>26, <1>27, <2>1, <2>2 DEF AuthorizeEscrowWrite, NoEscrow
    <2> QED
      BY <1>17, <1>27, <2>2 DEF AuthorizeEscrowWrite
  <1>28. CASE CaptureEscrowWrite(r)
    <2>1. Accepted(on) /\ Started(on)
      BY <1>1, <1>2, <1>4, <1>28 DEF CaptureEscrowWrite, SlotLogged, NeedsAccepted, NeedsStarted
    <2>2. PICK e : e = [escrow[on] EXCEPT !.status = "captured"]
      OBVIOUS
    <2>3. e.status = "captured" /\ e.window = escrow[on].window
      BY <1>1, <1>3, <1>28, <2>2 DEF CaptureEscrowWrite, EscrowRows
    <2>4. e.window # "none" => Completed(on)
      BY <1>1, <1>3, <1>28, <2>3 DEF CaptureEscrowWrite, EscrowLogged
    <2>5. UpdateEscrow(r, e, "authorized") /\ q.op \in Ops
      BY <1>1, <1>2, <1>28, <2>2 DEF CaptureEscrowWrite
    <2> QED
      BY <1>26, <2>1, <2>3, <2>4, <2>5
  <1>29. CASE RefundEscrowWrite(r)
    <2>1. Accepted(on)
      BY <1>1, <1>2, <1>4, <1>29 DEF RefundEscrowWrite, SlotLogged, NeedsAccepted
    <2>2. PICK e : e = [escrow[on] EXCEPT !.status = "refunded", !.fee = q.fee]
      OBVIOUS
    <2>3. e.status = "refunded" /\ e.window = escrow[on].window
      BY <1>1, <1>3, <1>29, <2>2 DEF RefundEscrowWrite, EscrowRows
    <2>4. e.window # "none" => Completed(on)
      BY <1>1, <1>3, <1>29, <2>3 DEF RefundEscrowWrite, EscrowLogged
    <2>5. UpdateEscrow(r, e, "authorized") /\ q.op \in Ops
      BY <1>1, <1>2, <1>29, <2>2 DEF RefundEscrowWrite
    <2> QED
      BY <1>26, <2>1, <2>3, <2>4, <2>5
  <1>30. CASE ReleaseEscrowWrite(r)
    <2>1. Completed(on)
      BY <1>1, <1>2, <1>4, <1>30 DEF ReleaseEscrowWrite, SlotLogged, NeedsCompleted
    <2>2. CASE /\ escrow[on].status = "captured"
               /\ UpdateEscrow(r, [escrow[on] EXCEPT !.status = "released"], "captured")
      <3>1. Accepted(on) /\ Started(on)
        BY <1>1, <1>3, <1>30, <2>2 DEF ReleaseEscrowWrite, EscrowLogged
      <3>2. PICK e : e = [escrow[on] EXCEPT !.status = "released"]
        OBVIOUS
      <3>3. e.status = "released"
        BY <1>1, <1>3, <1>30, <3>2 DEF ReleaseEscrowWrite, EscrowRows
      <3> QED
        BY <1>1, <1>26, <1>30, <2>1, <2>2, <3>1, <3>2, <3>3 DEF ReleaseEscrowWrite
    <2> QED
      BY <1>1, <1>2, <1>17, <1>30, <2>2 DEF ReleaseEscrowWrite
  <1>31. CASE OpenDisputeWindowWrite(r)
    <2>1. Completed(on)
      BY <1>1, <1>2, <1>4, <1>31 DEF OpenDisputeWindowWrite, SlotLogged, NeedsCompleted
    <2>2. /\ escrow' = [escrow EXCEPT ![on].window = "open"] /\ Done(r)
          /\ Audited(on, {Row("escrow", "none", "window")})
          /\ UNCHANGED <<booking, gateway, sweep>>
      BY <1>1, <1>2, <1>31 DEF OpenDisputeWindowWrite
    <2>3. on \in Bookings /\ escrow[on] \in EscrowRows /\ EscrowLogged(on)
      BY <1>1, <1>3, <1>31 DEF OpenDisputeWindowWrite
    <2>4. escrow' = [escrow EXCEPT ![on] = escrow'[on]] /\ escrow'[on].status = escrow[on].status
      BY <2>2, <2>3 DEF TypeInv, TypeOK, EscrowRows
    <2>5. LogGrows => EscrowLogged(on)'
      BY <2>1, <2>3, <2>4, RecordedStays DEF EscrowLogged
    <2> QED
      BY <2>2, <2>3, <2>4, <2>5, CareByEscrow
  <1>32. CASE HoldEscrowWrite(r)
    <2>1. Accepted(on) /\ Started(on) /\ Contested(on)
      BY <1>1, <1>2, <1>4, <1>32
      DEF HoldEscrowWrite, SlotLogged, NeedsAccepted, NeedsStarted, NeedsContested
    <2>2. /\ escrow' = [escrow EXCEPT ![on].status = "disputed"] \/ UNCHANGED escrow
          /\ Audited(on, {Row("escrow", "captured", "disputed")}) /\ Done(r)
          /\ UNCHANGED <<booking, gateway, sweep>>
      BY <1>1, <1>2, <1>32 DEF HoldEscrowWrite
    <2>3. on \in Bookings /\ escrow[on] \in EscrowRows /\ EscrowLogged(on)
      BY <1>1, <1>3, <1>32 DEF HoldEscrowWrite
    <2>4. /\ escrow' = [escrow EXCEPT ![on] = escrow'[on]]
          /\ escrow'[on].window = escrow[on].window
          /\ escrow'[on].status \in {"disputed", escrow[on].status}
      BY <2>2, <2>3 DEF TypeInv, TypeOK, EscrowRows
    <2>5. LogGrows => EscrowLogged(on)'
      BY <2>1, <2>3, <2>4, RecordedStays DEF EscrowLogged
    <2> QED
      BY <2>2, <2>3, <2>4, <2>5, CareByEscrow
  \* The review transaction: the roles that reviewed are no business of the log.
  <1>33. CASE InsertReview(r)
    <2>1. PICK step \in {"one", "both"} : Goto(r, step)
      BY <1>33 DEF InsertReview
    <2> QED
      BY <1>1, <1>3, <1>33, <2>1, CareByCall DEF InsertReview
  <1>34. CASE LeaveReviewCommit(r)
    <2>1. PICK x \in {Elevated(q), Idle} : request' = [request EXCEPT ![r] = x]
      BY <1>1, <1>34 DEF LeaveReviewCommit, Done
    <2>2. LogGrows /\ UNCHANGED sweep
      BY <1>34, UnchangedLog DEF LeaveReviewCommit
    <2>3. \A b \in Bookings : CareLogged(b)' /\ EscrowLogged(b)' /\ PayoutLogged(b)'
      BY <1>34, <2>2, BookingsStayLogged DEF LeaveReviewCommit, Paid
    <2>4. SlotLogged(x)'
      <3>1. CASE x = Idle
        BY <3>1, IdleLogged
      <3>2. CASE x = Elevated(q)
        <4>1. x.op = "review" /\ x.on = on /\ x.at = "escrow" /\ on \in Bookings
          BY <1>1, <1>2, <1>3, <1>34, <3>2, IdleFunded DEF LeaveReviewCommit
        <4>2. Completed(on)
          BY <1>1, <1>2, <1>4, <1>34 DEF LeaveReviewCommit, SlotLogged, NeedsCompleted
        <4> QED
          BY <2>2, <4>1, <4>2, RecordedStays
          DEF SlotLogged, Read, NeedsAccepted, NeedsStarted, NeedsContested, NeedsCompleted
      <3> QED
        BY <3>1, <3>2
    <2> QED
      BY <2>1, <2>2, <2>3, <2>4, CareByRequest
  \* The admin's commit writes both rows and the record of both.
  <1>35. ASSUME NEW resolution \in {"release", "refund"}, ResolveDisputeCommit(r, resolution)
         PROVE  CareInv'
    <2> DEFINE care == IF resolution = "release" THEN "completed" ELSE "cancelled"
    <2>1. /\ q.op = resolution /\ on \in Bookings /\ Accepted(on)
          /\ booking[on] \in BookingRows /\ escrow[on] \in EscrowRows /\ EscrowLogged(on)
          /\ resolution = "release" => Started(on) /\ q.saw.status = "disputed"
      BY <1>1, <1>2, <1>3, <1>4, <1>35
      DEF ResolveDisputeCommit, SlotLogged, Read, NeedsAccepted, NeedsStarted
    <2>2. PICK rows : Audited(on, rows) /\ Row("booking", q.saw.status, care) \in rows
      BY <1>1, <1>2, <1>35 DEF ResolveDisputeCommit
    <2>3. LogGrows /\ Row("booking", q.saw.status, care) \in audit'[on]
      BY <2>1, <2>2, AuditedGrows
    <2>4. /\ booking' = [booking EXCEPT ![on].status = care]
          /\ escrow' = [escrow EXCEPT ![on].status = Outcome(resolution)]
          /\ Done(r) /\ UNCHANGED <<gateway, sweep>>
      BY <1>1, <1>2, <1>35 DEF ResolveDisputeCommit
    <2>5. resolution = "release" => Completed(on)'
      BY <2>1, <2>3, RowRecords
    <2>6. CareLogged(on)'
      BY <2>1, <2>4, <2>5 DEF CareLogged, TypeInv, TypeOK, BookingRows
    <2>7. EscrowLogged(on)'
      BY <2>1, <2>3, <2>4, <2>5, RecordedStays
      DEF EscrowLogged, Outcome, TypeInv, TypeOK, EscrowRows
    <2>8. \A b \in Bookings : CareLogged(b)' /\ EscrowLogged(b)' /\ PayoutLogged(b)'
      <3>1. \A b \in Bookings : booking'[b].status = booking[b].status \/ CareLogged(b)'
        BY <2>1, <2>4, <2>6 DEF TypeInv, TypeOK
      <3>2. \A b \in Bookings : escrow'[b] = escrow[b] \/ EscrowLogged(b)'
        BY <2>1, <2>4, <2>7 DEF TypeInv, TypeOK
      <3> QED
        BY <2>3, <2>4, <3>1, <3>2, BookingsStayLogged DEF Paid
    <2> QED
      BY <2>3, <2>4, <2>8, CareByReturn
  <1> QED
    BY <1>6, <1>7, <1>8, <1>9, <1>10, <1>11, <1>12, <1>13, <1>14, <1>15, <1>18, <1>19, <1>20,
       <1>21, <1>22, <1>23, <1>24, <1>25, <1>27, <1>28, <1>29, <1>30, <1>31, <1>32, <1>33,
       <1>34, <1>35 DEF Proceeds

\* What a server action has read when it begins, and what the log holds then.
LEMMA OpensCare ==
  ASSUME TypeInv, CareInv, NEW r \in Requests, NEW b \in Bookings, Opens(r, b)
  PROVE  CareInv'
  <1>1. ASSUME NEW q, Begin(r, q), q.on = b, SlotLogged(q)
        PROVE  CareInv'
    <2>1. UNCHANGED <<db, gateway, sweep>> /\ request' = [request EXCEPT ![r] = q]
      BY <1>1 DEF Begin
    <2>2. \A c \in Bookings : PayoutLogged(c)'
      BY <2>1 DEF db, CareInv, PayoutLogged, Paid, Completed, Contested, Recorded
    <2> QED
      BY <1>1, <2>1, <2>2, CareByMove
  <1>2. CareLogged(b) /\ EscrowLogged(b)
    BY DEF CareInv
  \* Before its booking transaction commits, an action relies only on its read.
  <1>3. ASSUME NEW op \in Ops \ {"review", "refund", "release"}, NEW actor,
               Begin(r, Having(op, actor, b, "book")),
               op = "accept" => booking[b].status = "requested",
               op = "start" => booking[b].status = "confirmed",
               op \in {"confirmEnd", "dispute"} => booking[b].status = "in_progress"
        PROVE  CareInv'
    <2>1. PICK q : q = Having(op, actor, b, "book")
      OBVIOUS
    <2>2. q.op = op /\ q.on = b /\ q.at = "book" /\ q.saw = booking[b]
      BY <2>1 DEF Having, Idle
    <2>3. SlotLogged(q)
      BY <1>3, <2>2
      DEF SlotLogged, Read, NeedsAccepted, NeedsStarted, NeedsContested, NeedsCompleted, Ops
    <2> QED
      BY <1>1, <1>3, <2>1, <2>2, <2>3
  <1>4. CASE AcceptBooking(r, b)
    BY <1>3, <1>4 DEF AcceptBooking, Ops
  <1>5. CASE DeclineBooking(r, b)
    BY <1>3, <1>5 DEF DeclineBooking, Ops
  <1>6. CASE StartSession(r, b)
    BY <1>3, <1>6 DEF StartSession, Ops
  <1>7. ASSUME NEW side \in Sides, ConfirmEnd(r, b, side) PROVE CareInv'
    BY <1>3, <1>7 DEF ConfirmEnd, Ops
  <1>8. CASE CancelBooking(r, b)
    <2>1. PICK fee : Begin(r, [Having("cancel", "family", b, "book") EXCEPT !.fee = fee])
      BY <1>8 DEF CancelBooking
    <2>2. PICK q : q = [Having("cancel", "family", b, "book") EXCEPT !.fee = fee]
      OBVIOUS
    <2>3. q.op = "cancel" /\ q.on = b /\ q.at = "book"
      BY <2>2 DEF Having, Idle
    <2>4. SlotLogged(q)
      BY <2>3
      DEF SlotLogged, Read, NeedsAccepted, NeedsStarted, NeedsContested, NeedsCompleted
    <2> QED
      BY <1>1, <2>1, <2>2, <2>3, <2>4
  <1>9. ASSUME NEW side \in Sides, RaiseDispute(r, b, side) PROVE CareInv'
    BY <1>3, <1>9 DEF RaiseDispute, Ops
  \* A review needs a completed booking, and the log says how it got there.
  <1>10. ASSUME NEW side \in Sides, LeaveReview(r, b, side) PROVE CareInv'
    <2>1. PICK q : q = Having("review", side, b, "insert")
      OBVIOUS
    <2>2. q.op = "review" /\ q.on = b /\ q.at = "insert"
      BY <2>1 DEF Having, Idle
    <2>3. Completed(b) /\ Begin(r, q)
      BY <1>2, <1>10, <2>1 DEF LeaveReview, CareLogged
    <2>4. SlotLogged(q)
      BY <2>2, <2>3
      DEF SlotLogged, Read, NeedsAccepted, NeedsStarted, NeedsContested, NeedsCompleted
    <2> QED
      BY <1>1, <2>2, <2>3, <2>4
  \* So does a resolution, of a disputed booking with an escrow.
  <1>11. ASSUME NEW resolution \in {"release", "refund"}, ResolveDispute(r, b, resolution)
         PROVE  CareInv'
    <2>1. PICK q : /\ Begin(r, q)
                   /\ q = [Having(resolution, "admin", b,
                                 IF resolution = "release" THEN "payout" ELSE "refund")
                          EXCEPT !.escrowSaw = escrow[b].status]
      BY <1>11 DEF ResolveDispute
    <2>2. /\ q.op = resolution /\ q.on = b /\ q.at \in {"payout", "refund"}
          /\ q.saw = booking[b]
      BY <2>1 DEF Having, Idle
    <2>3. /\ escrow[b].status \in EscrowStatuses
          /\ booking[b].status = "disputed"
          /\ CanTransitionEscrow(escrow[b].status, Outcome(resolution))
      BY <1>11 DEF ResolveDispute, TypeInv, TypeOK, EscrowRows
    <2>4. resolution = "release" => escrow[b].status \in {"captured", "disputed"}
      BY <2>3, ResolvableEscrows DEF Outcome
    <2>5. /\ Accepted(b) /\ Contested(b)
          /\ resolution = "release" => Started(b)
      BY <1>2, <1>11, <2>3, <2>4 DEF ResolveDispute, CareLogged, EscrowLogged
    <2>6. SlotLogged(q)
      BY <2>2, <2>3, <2>5
      DEF SlotLogged, Read, NeedsAccepted, NeedsStarted, NeedsContested, NeedsCompleted
    <2> QED
      BY <1>1, <2>1, <2>2, <2>6
  <1> QED
    BY <1>4, <1>5, <1>6, <1>7, <1>8, <1>9, <1>10, <1>11 DEF Opens

\* A step of a sweep: no request moves.
LEMMA CareBySweep ==
  ASSUME TypeInv, CareInv, LogGrows, UNCHANGED request,
         \A b \in Bookings : CareLogged(b)' /\ EscrowLogged(b)' /\ PayoutLogged(b)',
         \A v \in Workers : SweepLogged(v)'
  PROVE  CareInv'
  <1>1. \A s \in Requests : SlotLogged(request[s])'
    BY SlotStaysLogged
  <1> QED
    BY <1>1 DEF CareInv

LEMMA SweepsCare ==
  ASSUME TypeInv, CareInv, NEW w \in Workers, Sweeps(w) \/ SweepFails(w)
  PROVE  CareInv'
  <1> DEFINE Slot == [batch : SUBSET Bookings, paying : Bookings \cup {NoBooking}]
  <1>1. \A v \in Workers : sweep[v] \in Slot /\ SweepLogged(v)
    BY DEF TypeInv, TypeOK, CareInv
  \* Reading the list, or dying, touches neither the rows nor the ledger.
  <1>2. ASSUME UNCHANGED <<db, gateway, request>>,
               \A v \in Workers : SweepLogged(v)'
        PROVE  CareInv'
    <2>1. LogGrows
      BY <1>2, UnchangedLog DEF db
    <2>2. \A b \in Bookings : CareLogged(b)' /\ EscrowLogged(b)' /\ PayoutLogged(b)'
      BY <1>2, <2>1, BookingsStayLogged DEF db, Paid
    <2> QED
      BY <1>2, <2>1, <2>2, CareBySweep
  \* A window only elapses once it was opened, at a recorded completion.
  <1>3. CASE SweepRead(w)
    <2>1. \A b \in Due : Completed(b)
      BY DEF Due, CareInv, EscrowLogged
    <2>2. \A v \in Workers : SweepLogged(v)'
      BY <1>1, <1>3, <2>1, NoBookingAssumption
      DEF SweepRead, db, Resting, TypeInv, TypeOK, SweepLogged, Completed, Recorded
    <2> QED
      BY <1>2, <1>3, <2>2 DEF SweepRead
  <1>4. CASE SweepFails(w)
    <2>1. \A v \in Workers : SweepLogged(v)'
      BY <1>1, <1>4, NoBookingAssumption
      DEF SweepFails, db, Resting, TypeInv, TypeOK, SweepLogged, Completed, Recorded
    <2> QED
      BY <1>2, <1>4, <2>1 DEF SweepFails
  <1>5. ASSUME NEW b \in Bookings, SweepPayout(w, b) PROVE CareInv'
    <2>1. Completed(b) /\ LogGrows /\ UNCHANGED <<db, request>>
      BY <1>1, <1>5, UnchangedLog DEF SweepPayout, SweepLogged, db
    <2>2. Completed(b)'
      BY <2>1, RecordedStays
    <2>3. \A c \in Bookings : (Paid(c)' => Paid(c)) \/ PayoutLogged(c)'
      BY <1>5, <2>2, CalledGrows DEF SweepPayout, PayoutLogged
    <2>4. \A c \in Bookings : CareLogged(c)' /\ EscrowLogged(c)' /\ PayoutLogged(c)'
      BY <2>1, <2>3, BookingsStayLogged DEF db
    <2>5. ASSUME NEW v \in Workers PROVE SweepLogged(v)'
      <3>1. /\ sweep'[v].batch = sweep[v].batch
            /\ sweep'[v].paying \in {sweep[v].paying, b}
        BY <1>1, <1>5 DEF SweepPayout, TypeInv, TypeOK
      <3>2. \A c \in Bookings : Completed(c) => Completed(c)'
        BY <2>1, RecordedStays
      <3> QED
        BY <1>1, <2>1, <3>1, <3>2 DEF SweepLogged
    <2> QED
      BY <2>1, <2>4, <2>5, CareBySweep
  <1>6. CASE SweepWrite(w)
    <2>1. PICK b \in Bookings : b = sweep[w].paying
      BY <1>6 DEF SweepWrite
    <2>2. /\ UNCHANGED <<booking, gateway, request>> /\ Completed(b) /\ EscrowLogged(b)
          /\ escrow[b] \in EscrowRows
      BY <1>1, <1>6, <2>1 DEF SweepWrite, SweepLogged, CareInv, TypeInv, TypeOK
    <2>3. LogGrows
      BY <1>6, <2>1, AuditedGrows, UnchangedLog DEF SweepWrite
    <2>4. \A c \in Bookings : escrow'[c] = escrow[c] \/ EscrowLogged(c)'
      <3>1. CASE escrow[b].status = "captured" /\ escrow' = [escrow EXCEPT ![b].status = "released"]
        <4>1. EscrowLogged(b)'
          BY <2>2, <2>3, <3>1, RecordedStays DEF EscrowLogged, TypeInv, TypeOK, EscrowRows
        <4> QED
          BY <3>1, <4>1 DEF TypeInv, TypeOK
      <3> QED
        BY <1>6, <2>1, <3>1 DEF SweepWrite
    <2>5. \A c \in Bookings : CareLogged(c)' /\ EscrowLogged(c)' /\ PayoutLogged(c)'
      BY <2>2, <2>3, <2>4, BookingsStayLogged DEF Paid
    <2>6. ASSUME NEW v \in Workers PROVE SweepLogged(v)'
      <3>1. /\ sweep'[v].batch \subseteq sweep[v].batch
            /\ sweep'[v].paying \in {sweep[v].paying, NoBooking}
        BY <1>1, <1>6 DEF SweepWrite, TypeInv, TypeOK
      <3>2. \A c \in Bookings : Completed(c) => Completed(c)'
        BY <2>3, RecordedStays
      <3> QED
        BY <1>1, <3>1, <3>2, NoBookingAssumption DEF SweepLogged
    <2> QED
      BY <2>2, <2>3, <2>5, <2>6, CareBySweep
  <1> QED
    BY <1>3, <1>4, <1>5, <1>6 DEF Sweeps

LEMMA CareInvInit == Init => CareInv
  BY NoBookingAssumption
  DEF Init, NoRow, NoEscrow, Resting, Idle, CareInv, CareLogged, EscrowLogged, PayoutLogged, Paid,
      SlotLogged, Read, NeedsAccepted, NeedsStarted, NeedsContested, NeedsCompleted, SweepLogged

LEMMA CareInvNext == TypeInv /\ CareInv /\ [Next]_vars => CareInv'
  <1> SUFFICES ASSUME TypeInv, CareInv, [Next]_vars
               PROVE  CareInv'
    OBVIOUS
  \* The steps of no request and no sweep.
  <1>1. ASSUME LogGrows, UNCHANGED <<gateway, request, sweep>>,
               \A b \in Bookings : booking'[b].status = booking[b].status \/ CareLogged(b)',
               \A b \in Bookings : escrow'[b] = escrow[b] \/ EscrowLogged(b)'
        PROVE  CareInv'
    <2>1. \A b \in Bookings : CareLogged(b)' /\ EscrowLogged(b)' /\ PayoutLogged(b)'
      BY <1>1, BookingsStayLogged DEF Paid
    <2>2. \A v \in Workers : SweepLogged(v)'
      BY <1>1, SweepStaysLogged
    <2> QED
      BY <1>1, <2>1, <2>2, CareBySweep
  <1>2. ASSUME NEW b \in Bookings, RequestBooking(b) PROVE CareInv'
    <2>1. LogGrows
      BY <1>2, AuditedGrows DEF RequestBooking
    <2>2. \A c \in Bookings : booking'[c].status = booking[c].status \/ CareLogged(c)'
      BY <1>2 DEF RequestBooking, TypeInv, TypeOK, BookingRows, CareLogged
    <2> QED
      BY <1>1, <1>2, <2>1, <2>2 DEF RequestBooking
  <1>3. ASSUME NEW b \in Bookings, WindowElapses(b) PROVE CareInv'
    <2>1. LogGrows
      BY <1>3, UnchangedLog DEF WindowElapses
    <2>2. EscrowLogged(b) /\ escrow[b] \in EscrowRows
      BY DEF CareInv, TypeInv, TypeOK
    <2>3. EscrowLogged(b)'
      BY <1>3, <2>1, <2>2, RecordedStays DEF WindowElapses, EscrowLogged, TypeInv, TypeOK, EscrowRows
    <2>4. \A c \in Bookings : escrow'[c] = escrow[c] \/ EscrowLogged(c)'
      BY <1>3, <2>3 DEF WindowElapses, TypeInv, TypeOK
    <2> QED
      BY <1>1, <1>3, <2>1, <2>4 DEF WindowElapses
  <1>4. ASSUME NEW r \in Requests, RequestFails(r) PROVE CareInv'
    <2>1. LogGrows /\ Done(r) /\ UNCHANGED <<db, gateway, sweep>>
      BY <1>4, UnchangedLog DEF RequestFails, db
    <2>2. \A b \in Bookings : CareLogged(b)' /\ EscrowLogged(b)' /\ PayoutLogged(b)'
      BY <2>1, BookingsStayLogged DEF db, Paid
    <2> QED
      BY <2>1, <2>2, CareByReturn
  <1>5. CASE UNCHANGED vars
    BY <1>1, <1>5, UnchangedLog DEF vars
  <1> QED
    BY <1>2, <1>3, <1>4, <1>5, OpensCare, ProceedsCare, SweepsCare DEF Next

LEMMA CareInvAlways == Spec => []CareInv
  <1>1. Init => TypeInv /\ CareInv
    BY TypeInvInit, CareInvInit
  <1>2. (TypeInv /\ CareInv) /\ [Next]_vars => (TypeInv /\ CareInv)'
    BY TypeInvNext, CareInvNext
  <1> QED
    BY <1>1, <1>2, PTL DEF Spec

\* However the two transactions of each server action interleave with those of
\* others, with sweeps and with crashes, the escrow never runs ahead of the care:
\* every status it reaches has the booking transition behind it on record.
THEOREM EscrowFollowsCareHolds == Spec => []EscrowFollowsCare
  <1>1. CareInv => EscrowFollowsCare
    BY DEF CareInv, EscrowLogged, EscrowFollowsCare
  <1> QED
    BY <1>1, CareInvAlways, PTL

\* No payout order reaches the gateway, from a review, a sweep or an admin, for a
\* booking that was never recorded as completed or as disputed.
THEOREM PaidOnlyForCareHolds == Spec => []PaidOnlyForCare
  <1>1. CareInv => PaidOnlyForCare
    BY DEF CareInv, PayoutLogged, Paid, PaidOnlyForCare
  <1> QED
    BY <1>1, CareInvAlways, PTL

----------------------------------------------------------------------------
(***************************************************************************)
(* What is refunded was given back, and by whom.                           *)
(*                                                                         *)
(* Neither RefundMatchesFee nor OnlyPermittedActors is inductive: a refund *)
(* writes the fee it computed some steps before, a booking transaction the *)
(* status it has read.  So both are stated of the actions in flight as     *)
(* well: what a cancellation or a resolution on its way to the write has   *)
(* told the gateway, and by whom and from which status an action about to  *)
(* commit was begun.                                                       *)
(***************************************************************************)

\* The ledger has the refund that goes with this fee.
RefundBacked(b, fee) ==
  \/ <<"refund", FamilyPays>> \in gateway[b]
  \/ /\ fee > 0
     /\ <<"capture", fee>> \in gateway[b]
     /\ fee < FamilyPays => <<"refund", FamilyPays - fee>> \in gateway[b]
  \/ FamilyPays = 0

EscrowSound(b) == escrow[b].status = "refunded" => RefundBacked(b, escrow[b].fee)

\* What an action past its gateway calls has told the gateway about b.
CallsMade(op, at, fee, b) ==
  /\ op = "cancel" /\ at \in {"rest", "write"} /\ fee > 0 => <<"capture", fee>> \in gateway[b]
  /\ op = "cancel" /\ at = "write" /\ fee < FamilyPays =>
       <<"refund", FamilyPays - fee>> \in gateway[b]
  /\ op = "refund" /\ at = "write" => <<"refund", FamilyPays>> \in gateway[b]

\* Who began an action that has not committed its booking transaction, and what it read.
BegunBy(q) ==
  /\ q.op \in {"accept", "decline"} /\ q.at = "book" =>
       q.saw.status = "requested" /\ q.actor = "caregiver"
  /\ q.op = "start" /\ q.at = "book" => q.saw.status = "confirmed" /\ q.actor = "family"
  /\ q.op = "cancel" /\ q.at = "book" =>
       q.saw.status \in {"requested", "confirmed"} /\ q.actor = "family"
  /\ q.op \in {"confirmEnd", "dispute"} /\ q.at = "book" =>
       q.saw.status = "in_progress" /\ q.actor \in Sides
  /\ q.op \in {"release", "refund"} => q.saw.status = "disputed" /\ q.actor = "admin"

SlotSound(q) == CallsMade(q.op, q.at, q.fee, q.on) /\ BegunBy(q)

RefundInv ==
  /\ \A b \in Bookings : EscrowSound(b)
  /\ \A r \in Requests : SlotSound(request[r])

----------------------------------------------------------------------------
LEMMA IdleSound == SlotSound(Idle) /\ SlotSound(Idle)'
BY DEF SlotSound, CallsMade, BegunBy, Idle

LEMMA StaysBacked ==
  ASSUME LedgerGrows, NEW b \in Bookings, NEW fee, RefundBacked(b, fee)
  PROVE  RefundBacked(b, fee)'
BY DEF LedgerGrows, RefundBacked

\* How a step of one request keeps the invariant.
LEMMA SoundByRequest ==
  ASSUME TypeInv, RefundInv, NEW r \in Requests, NEW x,
         request' = [request EXCEPT ![r] = x], SlotSound(x)', LedgerGrows,
         \A b \in Bookings :
           \/ escrow'[b].status = escrow[b].status /\ escrow'[b].fee = escrow[b].fee
           \/ EscrowSound(b)'
  PROVE  RefundInv'
<1>1. \A b \in Bookings : EscrowSound(b)'
  BY StaysBacked DEF RefundInv, EscrowSound
<1>2. ASSUME NEW s \in Requests PROVE SlotSound(request[s])'
  <2>1. CASE s = r
    BY <2>1 DEF TypeInv, TypeOK, SlotSound, CallsMade, BegunBy
  <2>2. CASE s # r
    <3>1. PICK q \in RunningRequests \cup {Idle} : q = request[s] /\ q = request'[s]
      BY <2>2 DEF TypeInv, TypeOK
    <3>2. SlotSound(q)
      BY <3>1 DEF RefundInv
    <3>3. CASE q = Idle
      BY <3>1, <3>3 DEF Idle, SlotSound, CallsMade, BegunBy
    <3>4. CASE q \in RunningRequests
      <4>1. q.on \in Bookings
        BY <3>4 DEF RunningRequests
      <4>2. SlotSound(q)'
        BY <3>2, <4>1 DEF SlotSound, CallsMade, BegunBy, LedgerGrows
      <4>3. QED
        BY <3>1, <4>2 DEF SlotSound, CallsMade, BegunBy
    <3>5. QED
      BY <3>1, <3>3, <3>4
  <2>3. QED
    BY <2>1, <2>2
<1>3. QED
  BY <1>1, <1>2 DEF RefundInv

\* How a step of anything but a request keeps it.
LEMMA SoundAside ==
  ASSUME TypeInv, RefundInv, UNCHANGED request, LedgerGrows,
         \A b \in Bookings :
           \/ escrow'[b].status = escrow[b].status /\ escrow'[b].fee = escrow[b].fee
           \/ EscrowSound(b)'
  PROVE  RefundInv'
<1>1. \A b \in Bookings : EscrowSound(b)'
  BY StaysBacked DEF RefundInv, EscrowSound
<1>2. ASSUME NEW s \in Requests PROVE SlotSound(request[s])'
  <2>1. PICK q \in RunningRequests \cup {Idle} : q = request[s] /\ q = request'[s]
    BY DEF TypeInv, TypeOK
  <2>2. CASE q = Idle
    BY <2>1, <2>2 DEF Idle, SlotSound, CallsMade, BegunBy
  <2>3. CASE q \in RunningRequests
    <3>1. SlotSound(q) /\ q.on \in Bookings
      BY <2>1, <2>3 DEF RefundInv, RunningRequests
    <3>2. SlotSound(q)'
      BY <3>1 DEF SlotSound, CallsMade, BegunBy, LedgerGrows
    <3>3. QED
      BY <2>1, <3>2 DEF SlotSound, CallsMade, BegunBy
  <2>4. QED
    BY <2>1, <2>2, <2>3
<1>3. QED
  BY <1>1, <1>2 DEF RefundInv

LEMMA SoundByReturn ==
  ASSUME TypeInv, RefundInv, NEW r \in Requests, Done(r), UNCHANGED gateway,
         \A b \in Bookings :
           \/ escrow'[b].status = escrow[b].status /\ escrow'[b].fee = escrow[b].fee
           \/ EscrowSound(b)'
  PROVE  RefundInv'
BY IdleSound, SoundByRequest, UnchangedGrows DEF Done

\* A booking transaction leaves the escrow alone, and what follows it owes nothing yet.
LEMMA SoundByBooking ==
  ASSUME TypeInv, RefundInv, NEW r \in Requests, request[r].op \in Ops \ {"refund", "release"},
         NEW new, NEW goOn, UpdateBooking(r, new, goOn), UNCHANGED <<escrow, gateway>>
  PROVE  RefundInv'
<1>1. request[r] \in RunningRequests
  BY SlotTypes DEF TypeInv
<1>2. PICK x \in {Elevated(request[r]), Idle} : request' = [request EXCEPT ![r] = x]
  BY DEF UpdateBooking, Done
<1>3. SlotSound(x)'
  <2>1. CASE x = Idle
    BY <2>1, IdleSound
  <2>2. CASE x = Elevated(request[r])
    <3>1. x.at = "escrow" /\ x.op \notin {"refund", "release"}
      BY <1>1, <2>2 DEF Elevated, RunningRequests
    <3>2. QED
      BY <3>1 DEF SlotSound, CallsMade, BegunBy
  <2>3. QED
    BY <1>2, <2>1, <2>2
<1>4. QED
  BY <1>2, <1>3, SoundByRequest, UnchangedGrows

\* A request that moves on with its booking transaction behind it, or by an admin's.
LEMMA SoundByMove ==
  ASSUME TypeInv, RefundInv, NEW r \in Requests, request[r] \in RunningRequests,
         NEW step, step # "book", Goto(r, step), UNCHANGED escrow, LedgerGrows,
         NEW q, q = request[r], CallsMade(q.op, step, q.fee, q.on)'
  PROVE  RefundInv'
<1>1. PICK x : x = [q EXCEPT !.at = step]
  OBVIOUS
<1>2. /\ x.op = q.op /\ x.at = step /\ x.fee = q.fee /\ x.on = q.on
      /\ x.saw = q.saw /\ x.actor = q.actor
  BY <1>1 DEF RunningRequests
<1>3. BegunBy(q)
  BY DEF RefundInv, SlotSound
<1>4. BegunBy(x)
  BY <1>2, <1>3 DEF BegunBy
<1>5. SlotSound(x)'
  BY <1>2, <1>4 DEF SlotSound, BegunBy
<1>6. request' = [request EXCEPT ![r] = x]
  BY <1>1 DEF Goto
<1>7. QED
  BY <1>5, <1>6, SoundByRequest

\* The escrow transaction of any action but a cancellation and a resolution.
LEMMA SoundByRead ==
  ASSUME TypeInv, RefundInv, NEW r \in Requests, request[r].op \in Ops \ {"cancel", "refund"},
         NEW wanted, NEW step, step # "book", ReadEscrow(r, wanted, step)
  PROVE  RefundInv'
<1>1. UNCHANGED <<escrow, gateway>>
  BY DEF ReadEscrow, db
<1>2. CASE Done(r)
  BY <1>1, <1>2, SoundByReturn
<1>3. CASE Goto(r, step)
  <2>1. PICK q \in RunningRequests : q = request[r]
    BY SlotTypes DEF TypeInv
  <2>2. CallsMade(q.op, step, q.fee, q.on)'
    BY <2>1 DEF CallsMade
  <2>3. QED
    BY <1>1, <1>3, <2>1, <2>2, SoundByMove, UnchangedGrows
<1>4. QED
  BY <1>2, <1>3 DEF ReadEscrow

LEMMA SoundByCall ==
  ASSUME TypeInv, RefundInv, NEW r \in Requests, request[r].op \in Ops \ {"cancel", "refund"},
         NEW call, NEW step, step # "book", CallGateway(r, call, step)
  PROVE  RefundInv'
<1>1. PICK q \in RunningRequests : q = request[r]
  BY SlotTypes DEF TypeInv
<1>2. CallsMade(q.op, step, q.fee, q.on)'
  BY <1>1 DEF CallsMade
<1>3. LedgerGrows
  BY <1>1, CalledGrows DEF CallGateway, RunningRequests
<1>4. QED
  BY <1>1, <1>2, <1>3, SoundByMove DEF CallGateway, db

LEMMA ProceedsSound ==
  ASSUME TypeInv, RefundInv, NEW r \in Requests, Proceeds(r)
  PROVE  RefundInv'
<1>1. PICK q : q = request[r]
  OBVIOUS
<1>2. q.op \in Ops =>
        q \in RunningRequests /\ q.on \in Bookings /\ escrow[q.on] \in EscrowRows
  BY <1>1, SlotTypes DEF TypeInv, TypeOK, RunningRequests
<1>3. SlotSound(q) /\ SlotOK(q)
  BY <1>1 DEF RefundInv, TypeInv, SlotsOK
\* The steps that end a request and, if anything, change a status.
<1>4. ASSUME Done(r), UNCHANGED gateway, q.op \in Ops,
             \/ UNCHANGED escrow
             \/ \E s : s # "refunded" /\ escrow' = [escrow EXCEPT ![q.on].status = s]
             \/ \E s : escrow' = [escrow EXCEPT ![q.on].window = s]
             \/ escrow' = [escrow EXCEPT ![q.on] = [NoEscrow EXCEPT !.status = "authorized"]]
      PROVE  RefundInv'
  <2>1. \A b \in Bookings :
          \/ escrow'[b].status = escrow[b].status /\ escrow'[b].fee = escrow[b].fee
          \/ EscrowSound(b)'
    <3>1. q.on \in Bookings /\ escrow[q.on] \in EscrowRows /\ DOMAIN escrow = Bookings
      BY <1>2, <1>4 DEF TypeInv, TypeOK
    <3>2. CASE UNCHANGED escrow
      BY <3>2
    <3>3. ASSUME NEW s, s # "refunded", escrow' = [escrow EXCEPT ![q.on].status = s]
          PROVE  /\ \A b \in Bookings \ {q.on} : escrow'[b] = escrow[b]
                 /\ escrow'[q.on].status # "refunded"
      BY <3>1, <3>3 DEF EscrowRows
    <3>4. ASSUME NEW s, escrow' = [escrow EXCEPT ![q.on].window = s]
          PROVE  \A b \in Bookings :
                   escrow'[b].status = escrow[b].status /\ escrow'[b].fee = escrow[b].fee
      BY <3>1, <3>4 DEF EscrowRows, TypeInv, TypeOK
    <3>5. CASE escrow' = [escrow EXCEPT ![q.on] = [NoEscrow EXCEPT !.status = "authorized"]]
      BY <3>1, <3>5 DEF NoEscrow, EscrowSound
    <3>6. QED
      BY <1>4, <3>2, <3>3, <3>4, <3>5 DEF EscrowSound
  <2>2. QED
    BY <1>4, <2>1, SoundByReturn
<1>5. CASE AcceptBookingCommit(r) \/ DeclineBookingCommit(r) \/ StartSessionCommit(r)
             \/ CancelBookingCommit(r) \/ RaiseDisputeCommit(r)
  BY <1>5, SoundByBooking
     DEF AcceptBookingCommit, DeclineBookingCommit, StartSessionCommit, CancelBookingCommit,
         RaiseDisputeCommit, UpdateStatus, At, Ops
<1>6. CASE ConfirmEndCommit(r)
  BY <1>6, SoundByBooking DEF ConfirmEndCommit, At, Ops
<1>7. CASE AuthorizeEscrowRead(r) \/ CaptureEscrowRead(r) \/ HoldEscrowRead(r)
             \/ ReleaseEscrowRead(r)
  BY <1>7, SoundByRead
     DEF AuthorizeEscrowRead, CaptureEscrowRead, HoldEscrowRead, ReleaseEscrowRead, Ops
<1>8. CASE AuthorizeEscrowCall(r) \/ CaptureEscrowCall(r) \/ ReleaseEscrowCall(r)
  BY <1>8, SoundByCall DEF AuthorizeEscrowCall, CaptureEscrowCall, ReleaseEscrowCall, At, Ops
<1>9. CASE AuthorizeEscrowWrite(r)
  BY <1>1, <1>4, <1>9 DEF AuthorizeEscrowWrite, UpdateEscrow, db, At, Ops
<1>10. CASE CaptureEscrowWrite(r)
  BY <1>1, <1>4, <1>10 DEF CaptureEscrowWrite, UpdateEscrow, At, Ops
<1>11. CASE OpenDisputeWindowRead(r)
  <2>1. CASE Done(r)
    BY <1>1, <1>4, <1>11, <2>1 DEF OpenDisputeWindowRead, db, At, Ops
  <2>2. CASE Goto(r, "write")
    BY <1>1, <1>2, <1>11, <2>2, SoundByMove, UnchangedGrows
       DEF OpenDisputeWindowRead, db, At, Ops, CallsMade
  <2>3. QED
    BY <1>11, <2>1, <2>2 DEF OpenDisputeWindowRead
<1>12. CASE OpenDisputeWindowWrite(r)
  BY <1>1, <1>4, <1>12 DEF OpenDisputeWindowWrite, At, Ops
<1>13. CASE RefundEscrowRead(r)
  <2>1. CASE Done(r)
    BY <1>1, <1>4, <1>13, <2>1 DEF RefundEscrowRead, db, At, Ops
  <2>2. CASE request' = [request EXCEPT ![r] = [q EXCEPT !.fee = CoveredFee(@), !.at = "fee"]]
    <3>1. PICK x : x = [q EXCEPT !.fee = CoveredFee(@), !.at = "fee"]
      OBVIOUS
    <3>2. x.op = "cancel" /\ x.at = "fee"
      BY <1>1, <1>2, <1>13, <3>1 DEF RefundEscrowRead, RunningRequests, At, Ops
    <3>3. SlotSound(x)'
      BY <3>2 DEF SlotSound, CallsMade, BegunBy
    <3>4. QED
      BY <1>13, <2>2, <3>1, <3>3, SoundByRequest, UnchangedGrows DEF RefundEscrowRead, db
  <2>3. QED
    BY <1>1, <1>13, <2>1, <2>2 DEF RefundEscrowRead
<1>14. CASE RefundEscrowFeeCall(r)
  <2>1. q.op = "cancel" /\ q.at = "fee" /\ q \in RunningRequests /\ q.fee \in Nat
    BY <1>1, <1>2, <1>14 DEF RefundEscrowFeeCall, At, Ops, RunningRequests
  <2>2. LedgerGrows /\ (q.fee > 0 => <<"capture", q.fee>> \in gateway'[q.on])
    BY <1>1, <1>2, <1>14, <2>1, CalledGrows, UnchangedGrows DEF RefundEscrowFeeCall, Ops
  <2>3. CallsMade(q.op, "rest", q.fee, q.on)'
    BY <2>1, <2>2 DEF CallsMade
  <2>4. QED
    BY <1>1, <1>14, <2>1, <2>2, <2>3, SoundByMove DEF RefundEscrowFeeCall, db
<1>15. CASE RefundEscrowRestCall(r)
  <2>1. q.op = "cancel" /\ q.at = "rest" /\ q \in RunningRequests /\ q.fee \in 0..FamilyPays
    BY <1>1, <1>2, <1>3, <1>15 DEF RefundEscrowRestCall, At, Ops, SlotOK
  <2>2. /\ LedgerGrows
        /\ q.fee < FamilyPays => <<"refund", FamilyPays - q.fee>> \in gateway'[q.on]
    BY <1>1, <1>2, <1>15, <2>1, CalledGrows, UnchangedGrows, AmountsAssumption
       DEF RefundEscrowRestCall, Ops
  <2>3. q.fee > 0 => <<"capture", q.fee>> \in gateway'[q.on]
    BY <1>2, <1>3, <2>1, <2>2 DEF SlotSound, CallsMade, LedgerGrows, Ops
  <2>4. CallsMade(q.op, "write", q.fee, q.on)'
    BY <2>1, <2>2, <2>3 DEF CallsMade
  <2>5. QED
    BY <1>1, <1>15, <2>1, <2>2, <2>4, SoundByMove DEF RefundEscrowRestCall, db
<1>16. CASE RefundEscrowWrite(r)
  <2>1. q.op = "cancel" /\ q.at = "write" /\ q.op \in Ops /\ q.fee \in 0..FamilyPays
    BY <1>1, <1>3, <1>16 DEF RefundEscrowWrite, At, Ops, SlotOK
  <2>2. RefundBacked(q.on, q.fee)
    BY <1>3, <2>1, AmountsAssumption DEF SlotSound, CallsMade, RefundBacked
  <2>3. /\ Done(r) /\ UNCHANGED gateway
        /\ escrow' = [escrow EXCEPT ![q.on] =
                        [escrow[q.on] EXCEPT !.status = "refunded", !.fee = q.fee]]
    BY <1>1, <1>16 DEF RefundEscrowWrite, UpdateEscrow
  <2>4. escrow'[q.on].fee = q.fee /\ \A b \in Bookings \ {q.on} : escrow'[b] = escrow[b]
    BY <1>2, <2>1, <2>3 DEF TypeInv, TypeOK, EscrowRows
  <2>5. RefundBacked(q.on, q.fee)'
    BY <2>2, <2>3 DEF RefundBacked
  <2>6. EscrowSound(q.on)'
    BY <2>4, <2>5 DEF EscrowSound, RefundBacked
  <2>7. QED
    BY <2>3, <2>4, <2>6, SoundByReturn DEF EscrowSound
<1>17. CASE HoldEscrowWrite(r)
  BY <1>1, <1>4, <1>17 DEF HoldEscrowWrite, At, Ops
<1>18. CASE InsertReview(r)
  BY <1>1, <1>2, <1>18, SoundByMove, UnchangedGrows DEF InsertReview, db, At, Ops, CallsMade
<1>19. CASE LeaveReviewCommit(r)
  <2>1. PICK x \in {Elevated(q), Idle} : request' = [request EXCEPT ![r] = x]
    BY <1>1, <1>19 DEF LeaveReviewCommit, Done
  <2>2. x = Elevated(q) => x.at = "escrow" /\ x.op = "review"
    BY <1>1, <1>2, <1>19 DEF LeaveReviewCommit, Elevated, RunningRequests, Ops
  <2>3. SlotSound(x)'
    BY <2>1, <2>2, IdleSound DEF SlotSound, CallsMade, BegunBy
  <2>4. QED
    BY <1>19, <2>1, <2>3, SoundByRequest, UnchangedGrows DEF LeaveReviewCommit
<1>20. CASE ReleaseEscrowWrite(r)
  BY <1>1, <1>4, <1>20 DEF ReleaseEscrowWrite, UpdateEscrow, db, At, Ops
<1>21. CASE ResolveDisputeCall(r)
  <2>1. q.op \in {"release", "refund"} /\ q \in RunningRequests
    BY <1>1, <1>2, <1>21 DEF ResolveDisputeCall, At, Ops
  <2>2. PICK call : /\ CallGateway(r, call, "write")
                    /\ q.op = "refund" => call = <<"refund", FamilyPays>>
    BY <1>1, <1>21 DEF ResolveDisputeCall, At
  <2>3. LedgerGrows /\ call \in gateway'[q.on]
    BY <1>1, <2>1, <2>2, CalledGrows DEF CallGateway, RunningRequests
  <2>4. CallsMade(q.op, "write", q.fee, q.on)'
    BY <2>1, <2>2, <2>3 DEF CallsMade
  <2>5. QED
    BY <1>1, <2>1, <2>2, <2>3, <2>4, SoundByMove DEF CallGateway, db
<1>22. ASSUME NEW resolution \in {"release", "refund"}, ResolveDisputeCommit(r, resolution)
       PROVE  RefundInv'
  <2>1. q.op = resolution /\ q.at = "write" /\ q.op \in Ops /\ Done(r) /\ UNCHANGED gateway
    BY <1>1, <1>22 DEF ResolveDisputeCommit, At, Ops
  <2>2. escrow' = [escrow EXCEPT ![q.on].status = Outcome(resolution)]
    BY <1>1, <1>22 DEF ResolveDisputeCommit
  <2>3. CASE resolution = "release"
    BY <1>4, <2>1, <2>2, <2>3 DEF Outcome
  <2>4. CASE resolution = "refund"
    <3>1. <<"refund", FamilyPays>> \in gateway'[q.on]
      BY <1>3, <2>1, <2>4 DEF SlotSound, CallsMade
    <3>2. EscrowSound(q.on)'
      BY <3>1 DEF EscrowSound, RefundBacked
    <3>3. \A b \in Bookings \ {q.on} : escrow'[b] = escrow[b]
      BY <2>2 DEF TypeInv, TypeOK
    <3>4. QED
      BY <2>1, <3>2, <3>3, SoundByReturn
  <2>5. QED
    BY <2>3, <2>4
<1>23. QED
  BY <1>5, <1>6, <1>7, <1>8, <1>9, <1>10, <1>11, <1>12, <1>13, <1>14, <1>15, <1>16, <1>17,
     <1>18, <1>19, <1>20, <1>21, <1>22 DEF Proceeds

\* What a request opens with.
LEMMA HavingFields ==
  ASSUME NEW op, NEW actor, NEW b, NEW step, NEW q, q = Having(op, actor, b, step)
  PROVE  q.op = op /\ q.actor = actor /\ q.on = b /\ q.at = step /\ q.saw = booking[b]
BY DEF Having, Idle

LEMMA OpensSound ==
  ASSUME TypeInv, RefundInv, NEW r \in Requests, NEW b \in Bookings, Opens(r, b)
  PROVE  RefundInv'
<1>1. ASSUME NEW q, Begin(r, q), q.at \notin {"rest", "write"}, BegunBy(q) PROVE RefundInv'
  <2>1. UNCHANGED <<escrow, gateway>> /\ request' = [request EXCEPT ![r] = q]
    BY <1>1 DEF Begin, db
  <2>2. SlotSound(q)'
    BY <1>1 DEF SlotSound, BegunBy, CallsMade
  <2>3. QED
    BY <2>1, <2>2, SoundByRequest, UnchangedGrows
<1>2. CASE AcceptBooking(r, b)
  <2>1. PICK q : q = Having("accept", "caregiver", b, "book") OBVIOUS
  <2>2. QED
    BY <1>1, <1>2, <2>1, HavingFields DEF AcceptBooking, BegunBy
<1>3. CASE DeclineBooking(r, b)
  <2>1. PICK q : q = Having("decline", "caregiver", b, "book") OBVIOUS
  <2>2. QED
    BY <1>1, <1>3, <2>1, HavingFields DEF DeclineBooking, BegunBy
<1>4. CASE StartSession(r, b)
  <2>1. PICK q : q = Having("start", "family", b, "book") OBVIOUS
  <2>2. QED
    BY <1>1, <1>4, <2>1, HavingFields DEF StartSession, BegunBy
<1>5. ASSUME NEW side \in Sides, ConfirmEnd(r, b, side) PROVE RefundInv'
  <2>1. PICK q : q = Having("confirmEnd", side, b, "book") OBVIOUS
  <2>2. QED
    BY <1>1, <1>5, <2>1, HavingFields DEF ConfirmEnd, BegunBy
<1>6. CASE CancelBooking(r, b)
  <2>1. PICK fee : Begin(r, [Having("cancel", "family", b, "book") EXCEPT !.fee = fee])
    BY <1>6 DEF CancelBooking
  <2>2. PICK q : q = [Having("cancel", "family", b, "book") EXCEPT !.fee = fee] OBVIOUS
  <2>3. q.op = "cancel" /\ q.actor = "family" /\ q.at = "book" /\ q.saw = booking[b]
    BY <2>2 DEF Having, Idle
  <2>4. QED
    BY <1>1, <1>6, <2>1, <2>2, <2>3 DEF CancelBooking, BegunBy
<1>7. ASSUME NEW side \in Sides, RaiseDispute(r, b, side) PROVE RefundInv'
  <2>1. PICK q : q = Having("dispute", side, b, "book") OBVIOUS
  <2>2. QED
    BY <1>1, <1>7, <2>1, HavingFields DEF RaiseDispute, BegunBy
<1>8. ASSUME NEW side \in Sides, LeaveReview(r, b, side) PROVE RefundInv'
  <2>1. PICK q : q = Having("review", side, b, "insert") OBVIOUS
  <2>2. QED
    BY <1>1, <1>8, <2>1, HavingFields DEF LeaveReview, BegunBy
<1>9. ASSUME NEW resolution \in {"release", "refund"}, ResolveDispute(r, b, resolution)
      PROVE  RefundInv'
  <2>1. PICK step \in {"payout", "refund"} :
          Begin(r, [Having(resolution, "admin", b, step) EXCEPT !.escrowSaw = escrow[b].status])
    BY <1>9 DEF ResolveDispute
  <2>2. PICK q : q = [Having(resolution, "admin", b, step) EXCEPT !.escrowSaw = escrow[b].status]
    OBVIOUS
  <2>3. booking[b].status = "disputed" /\ Begin(r, q)
    BY <1>9, <2>1, <2>2 DEF ResolveDispute
  <2>4. q.op = resolution /\ q.actor = "admin" /\ q.at = step /\ q.saw = booking[b]
    BY <2>2 DEF Having, Idle
  <2>5. QED
    BY <1>1, <2>3, <2>4 DEF BegunBy
<1>10. QED
  BY <1>2, <1>3, <1>4, <1>5, <1>6, <1>7, <1>8, <1>9 DEF Opens

\* The sweep touches only captured escrows, and nobody else one that is refunded.
LEMMA SweepsSound ==
  ASSUME TypeInv, RefundInv, NEW w \in Workers, Sweeps(w) \/ SweepFails(w)
  PROVE  RefundInv'
<1>1. LedgerGrows /\ UNCHANGED request
  <2>1. ASSUME NEW b \in Bookings, SweepPayout(w, b) PROVE LedgerGrows
    BY <2>1, CalledGrows DEF SweepPayout
  <2>2. QED
    BY <2>1, UnchangedGrows DEF Sweeps, SweepRead, SweepWrite, SweepPayout, SweepFails
<1>2. \A b \in Bookings :
        \/ escrow'[b].status = escrow[b].status /\ escrow'[b].fee = escrow[b].fee
        \/ EscrowSound(b)'
  <2>1. CASE UNCHANGED escrow
    BY <2>1
  <2>2. ASSUME NEW c \in Bookings, escrow' = [escrow EXCEPT ![c].status = "released"]
        PROVE  /\ \A b \in Bookings \ {c} : escrow'[b] = escrow[b]
               /\ EscrowSound(c)'
    BY <2>2 DEF TypeInv, TypeOK, EscrowRows, EscrowSound
  <2>3. QED
    BY <2>1, <2>2 DEF Sweeps, SweepRead, SweepWrite, SweepPayout, SweepFails, db
<1>3. QED
  BY <1>1, <1>2, SoundAside

LEMMA RefundInvNext == TypeInv /\ RefundInv /\ [Next]_vars => RefundInv'
<1>1. SUFFICES ASSUME TypeInv, RefundInv, [Next]_vars PROVE RefundInv'
  OBVIOUS
<1>2. ASSUME UNCHANGED <<request, gateway>>,
             \A b \in Bookings :
               escrow'[b].status = escrow[b].status /\ escrow'[b].fee = escrow[b].fee
      PROVE  RefundInv'
  <2>1. LedgerGrows
    BY <1>2, UnchangedGrows
  <2>2. \A b \in Bookings :
          \/ escrow'[b].status = escrow[b].status /\ escrow'[b].fee = escrow[b].fee
          \/ EscrowSound(b)'
    BY <1>2
  <2>3. QED
    BY <1>1, <1>2, <2>1, <2>2, SoundAside
<1>3. ASSUME NEW b \in Bookings, RequestBooking(b) PROVE RefundInv'
  BY <1>2, <1>3 DEF RequestBooking
<1>4. ASSUME NEW b \in Bookings, WindowElapses(b) PROVE RefundInv'
  <2>1. \A c \in Bookings :
          escrow'[c].status = escrow[c].status /\ escrow'[c].fee = escrow[c].fee
    BY <1>1, <1>4 DEF WindowElapses, TypeInv, TypeOK, EscrowRows
  <2>2. QED
    BY <1>2, <1>4, <2>1 DEF WindowElapses
<1>5. ASSUME NEW r \in Requests, RequestFails(r) PROVE RefundInv'
  <2>1. \A b \in Bookings :
          \/ escrow'[b].status = escrow[b].status /\ escrow'[b].fee = escrow[b].fee
          \/ EscrowSound(b)'
    BY <1>5 DEF RequestFails, db
  <2>2. Done(r) /\ UNCHANGED gateway
    BY <1>5 DEF RequestFails
  <2>3. QED
    BY <1>1, <2>1, <2>2, SoundByReturn
<1>6. CASE UNCHANGED vars
  BY <1>2, <1>6 DEF vars
<1>7. QED
  BY <1>1, <1>3, <1>4, <1>5, <1>6, OpensSound, ProceedsSound, SweepsSound DEF Next

LEMMA RefundInvInit == Init => RefundInv
BY DEF Init, RefundInv, EscrowSound, NoEscrow, SlotSound, CallsMade, BegunBy, Idle

\* A refunded escrow is money given back: the whole charge by an admin, or what
\* is left after exactly the cancellation fee its row records was captured, however
\* many steps lie between the fee computed, the calls made and the row written.
THEOREM RefundMatchesFeeHolds == Spec => []RefundMatchesFee
<1>1. Init => TypeInv /\ RefundInv
  BY TypeInvInit, RefundInvInit
<1>2. (TypeInv /\ RefundInv) /\ [Next]_vars => (TypeInv /\ RefundInv)'
  BY TypeInvNext, RefundInvNext
<1>3. RefundInv => RefundMatchesFee
  BY DEF RefundInv, EscrowSound, RefundBacked, RefundMatchesFee
<1>4. QED
  BY <1>1, <1>2, <1>3, PTL DEF Spec

----------------------------------------------------------------------------
(* Who moves a booking.  The table of permitted transitions is consulted by *)
(* no handler; what each reads, and for whom it runs, has to imply it.      *)

LEMMA PermittedByRole ==
  /\ ActorCanTransition("requested", "confirmed", "caregiver")
  /\ ActorCanTransition("requested", "cancelled", "caregiver")
  /\ ActorCanTransition("requested", "cancelled", "family")
  /\ ActorCanTransition("confirmed", "cancelled", "family")
  /\ ActorCanTransition("confirmed", "in_progress", "family")
  /\ \A side \in Sides : ActorCanTransition("in_progress", "completed", side)
  /\ \A side \in Sides : ActorCanTransition("in_progress", "disputed", side)
  /\ ActorCanTransition("disputed", "completed", "admin")
  /\ ActorCanTransition("disputed", "cancelled", "admin")
<1>1. /\ CanTransition("requested", "confirmed") /\ CanTransition("requested", "cancelled")
      /\ CanTransition("confirmed", "in_progress") /\ CanTransition("confirmed", "cancelled")
      /\ CanTransition("in_progress", "completed") /\ CanTransition("in_progress", "disputed")
      /\ CanTransition("disputed", "completed") /\ CanTransition("disputed", "cancelled")
  BY DEF CanTransition, BookingTransitions
<1>2. /\ <<"requested", "cancelled">> \in FamilyTransitions
      /\ <<"confirmed", "cancelled">> \in FamilyTransitions
      /\ <<"confirmed", "in_progress">> \in FamilyTransitions
      /\ <<"in_progress", "completed">> \in FamilyTransitions
      /\ <<"in_progress", "disputed">> \in FamilyTransitions
  BY DEF FamilyTransitions
<1>3. /\ <<"requested", "confirmed">> \in CaregiverTransitions
      /\ <<"requested", "cancelled">> \in CaregiverTransitions
      /\ <<"in_progress", "completed">> \in CaregiverTransitions
      /\ <<"in_progress", "disputed">> \in CaregiverTransitions
  BY DEF CaregiverTransitions
<1>4. \A from, to : CanTransition(from, to) =>
        /\ <<from, to>> \in FamilyTransitions => ActorCanTransition(from, to, "family")
        /\ <<from, to>> \in CaregiverTransitions => ActorCanTransition(from, to, "caregiver")
        /\ ActorCanTransition(from, to, "admin")
  BY Zenon DEF ActorCanTransition
<1>5. QED
  BY <1>1, <1>2, <1>3, <1>4 DEF Sides

\* Of the steps of a request only the commits move a booking, and only its own.
LEMMA ProceedsPermitted ==
  ASSUME TypeInv, RefundInv, NEW r \in Requests, Proceeds(r), booking' # booking,
         NEW q, q = request[r], NEW to, to = booking'[q.on].status
  PROVE  q.saw.status = to \/ ActorCanTransition(q.saw.status, to, q.actor)
<1>1. q.op \in Ops => q.on \in Bookings
  BY SlotTypes DEF TypeInv, RunningRequests
<1>2. BegunBy(q)
  BY DEF RefundInv, SlotSound
<1>3. ASSUME NEW new, NEW goOn, UpdateBooking(r, new, goOn), q.op \in Ops
      PROVE  to = new.status
  BY <1>1, <1>3 DEF UpdateBooking, TypeInv, TypeOK
<1>4. ASSUME NEW status, NEW goOn, UpdateStatus(r, status, goOn), q.op \in Ops
      PROVE  to = status
  <2>1. PICK new : /\ UpdateBooking(r, new, goOn)
                   /\ new = [booking[q.on] EXCEPT !.status = status]
    BY <1>4 DEF UpdateStatus
  <2>2. new.status = status
    BY <1>1, <1>4, <2>1 DEF TypeInv, TypeOK, BookingRows
  <2>3. QED
    BY <1>3, <1>4, <2>1, <2>2
<1>5. CASE AcceptBookingCommit(r) \/ DeclineBookingCommit(r)
  BY <1>2, <1>4, <1>5, PermittedByRole
     DEF AcceptBookingCommit, DeclineBookingCommit, At, Ops, BegunBy
<1>6. CASE StartSessionCommit(r)
  BY <1>2, <1>4, <1>6, PermittedByRole DEF StartSessionCommit, At, Ops, BegunBy
<1>7. CASE ConfirmEndCommit(r)
  <2>1. PICK new, goOn : /\ UpdateBooking(r, new, goOn)
                         /\ new.status \in {"completed", "in_progress"}
    BY <1>7 DEF ConfirmEndCommit
  <2>2. to \in {"completed", "in_progress"}
    BY <1>3, <1>7, <2>1 DEF ConfirmEndCommit, At, Ops
  <2>3. q.saw.status = "in_progress" /\ q.actor \in Sides
    BY <1>2, <1>7 DEF ConfirmEndCommit, At, BegunBy
  <2>4. QED
    BY <2>2, <2>3, PermittedByRole
<1>8. CASE CancelBookingCommit(r)
  BY <1>2, <1>4, <1>8, PermittedByRole DEF CancelBookingCommit, At, Ops, BegunBy
<1>9. CASE RaiseDisputeCommit(r)
  BY <1>2, <1>4, <1>9, PermittedByRole DEF RaiseDisputeCommit, At, Ops, BegunBy
<1>10. ASSUME NEW resolution \in {"release", "refund"}, ResolveDisputeCommit(r, resolution)
       PROVE  ActorCanTransition(q.saw.status, to, q.actor)
  <2>1. PICK care \in {"completed", "cancelled"} :
          booking' = [booking EXCEPT ![q.on].status = care]
    BY <1>10 DEF ResolveDisputeCommit
  <2>2. q.on \in Bookings /\ q.op = resolution
    BY <1>1, <1>10 DEF ResolveDisputeCommit, At, Ops
  <2>3. to = care
    BY <2>1, <2>2 DEF TypeInv, TypeOK, BookingRows
  <2>4. QED
    BY <1>2, <2>2, <2>3, PermittedByRole DEF BegunBy
<1>11. CASE \/ AuthorizeEscrowRead(r) \/ CaptureEscrowRead(r) \/ OpenDisputeWindowRead(r)
             \/ RefundEscrowRead(r) \/ HoldEscrowRead(r) \/ ReleaseEscrowRead(r)
             \/ InsertReview(r) \/ LeaveReviewCommit(r)
  BY <1>11 DEF AuthorizeEscrowRead, CaptureEscrowRead, OpenDisputeWindowRead,
               RefundEscrowRead, HoldEscrowRead, ReleaseEscrowRead, ReadEscrow,
               InsertReview, LeaveReviewCommit, db
<1>12. CASE \/ AuthorizeEscrowCall(r) \/ CaptureEscrowCall(r) \/ RefundEscrowFeeCall(r)
             \/ RefundEscrowRestCall(r) \/ ReleaseEscrowCall(r) \/ ResolveDisputeCall(r)
  BY <1>12 DEF AuthorizeEscrowCall, CaptureEscrowCall, RefundEscrowFeeCall,
               RefundEscrowRestCall, ReleaseEscrowCall, ResolveDisputeCall, CallGateway, db
<1>13. CASE \/ AuthorizeEscrowWrite(r) \/ CaptureEscrowWrite(r) \/ OpenDisputeWindowWrite(r)
             \/ RefundEscrowWrite(r) \/ HoldEscrowWrite(r) \/ ReleaseEscrowWrite(r)
  BY <1>13 DEF AuthorizeEscrowWrite, CaptureEscrowWrite, OpenDisputeWindowWrite,
               RefundEscrowWrite, HoldEscrowWrite, ReleaseEscrowWrite, UpdateEscrow, db
<1>14. QED
  BY <1>5, <1>6, <1>7, <1>8, <1>9, <1>10, <1>11, <1>12, <1>13 DEF Proceeds

\* A step of one request leaves the other slots alone.
LEMMA ProceedsOwn ==
  ASSUME NEW r \in Requests, Proceeds(r)
  PROVE  \E x : request' = [request EXCEPT ![r] = x]
<1> USE DEF Done, Goto
<1>1. ASSUME NEW new, NEW goOn, UpdateBooking(r, new, goOn)
      PROVE  \E x : request' = [request EXCEPT ![r] = x]
  BY <1>1 DEF UpdateBooking
<1>2. ASSUME NEW step, Goto(r, step) PROVE \E x : request' = [request EXCEPT ![r] = x]
  <2>1. request' = [request EXCEPT ![r] = [request[r] EXCEPT !.at = step]]
    BY <1>2
  <2>2. QED
    BY <2>1
<1>3. CASE Done(r)
  BY <1>3
<1> HIDE DEF Done, Goto
<1>4. CASE \/ AcceptBookingCommit(r) \/ DeclineBookingCommit(r) \/ StartSessionCommit(r)
            \/ ConfirmEndCommit(r) \/ CancelBookingCommit(r) \/ RaiseDisputeCommit(r)
  BY <1>1, <1>4 DEF AcceptBookingCommit, DeclineBookingCommit, StartSessionCommit,
                    ConfirmEndCommit, CancelBookingCommit, RaiseDisputeCommit, UpdateStatus
<1>5. CASE \/ AuthorizeEscrowRead(r) \/ CaptureEscrowRead(r) \/ OpenDisputeWindowRead(r)
            \/ HoldEscrowRead(r) \/ ReleaseEscrowRead(r) \/ InsertReview(r)
  BY <1>2, <1>3, <1>5
     DEF AuthorizeEscrowRead, CaptureEscrowRead, OpenDisputeWindowRead, HoldEscrowRead,
         ReleaseEscrowRead, ReadEscrow, InsertReview
<1>6. CASE RefundEscrowRead(r) \/ LeaveReviewCommit(r)
  BY <1>3, <1>6 DEF RefundEscrowRead, LeaveReviewCommit
<1>7. CASE \/ AuthorizeEscrowCall(r) \/ CaptureEscrowCall(r) \/ RefundEscrowFeeCall(r)
            \/ RefundEscrowRestCall(r) \/ ReleaseEscrowCall(r) \/ ResolveDisputeCall(r)
  BY <1>2, <1>7 DEF AuthorizeEscrowCall, CaptureEscrowCall, RefundEscrowFeeCall,
                    RefundEscrowRestCall, ReleaseEscrowCall, ResolveDisputeCall, CallGateway
<1>8. CASE \/ AuthorizeEscrowWrite(r) \/ CaptureEscrowWrite(r) \/ OpenDisputeWindowWrite(r)
            \/ RefundEscrowWrite(r) \/ HoldEscrowWrite(r) \/ ReleaseEscrowWrite(r)
            \/ \E resolution \in {"release", "refund"} : ResolveDisputeCommit(r, resolution)
  BY <1>3, <1>8 DEF AuthorizeEscrowWrite, CaptureEscrowWrite, OpenDisputeWindowWrite,
                    RefundEscrowWrite, HoldEscrowWrite, ReleaseEscrowWrite, UpdateEscrow,
                    ResolveDisputeCommit
<1>9. QED
  BY <1>4, <1>5, <1>6, <1>7, <1>8 DEF Proceeds

LEMMA PermittedStep ==
  ASSUME TypeInv, RefundInv, [Next]_vars, NEW r \in Requests, NEW q, q = request[r],
         q.on \in Bookings, request'[r] # q, booking' # booking
  PROVE  \/ q.saw.status = booking'[q.on].status
         \/ ActorCanTransition(q.saw.status, booking'[q.on].status, q.actor)
<1>1. ASSUME NEW s \in Requests, NEW b \in Bookings, Opens(s, b) PROVE UNCHANGED booking
  BY <1>1 DEF Opens, AcceptBooking, DeclineBooking, StartSession, ConfirmEnd, CancelBooking,
              RaiseDispute, LeaveReview, ResolveDispute, Begin, db
<1>2. ASSUME NEW b \in Bookings, RequestBooking(b) \/ WindowElapses(b) PROVE UNCHANGED request
  BY <1>2 DEF RequestBooking, WindowElapses
<1>3. ASSUME NEW s \in Requests, RequestFails(s) PROVE UNCHANGED booking
  BY <1>3 DEF RequestFails, db
<1>4. ASSUME NEW w \in Workers, Sweeps(w) \/ SweepFails(w) PROVE UNCHANGED booking
  BY <1>4 DEF Sweeps, SweepRead, SweepPayout, SweepWrite, SweepFails, db
<1>5. ASSUME NEW s \in Requests, Proceeds(s)
      PROVE  \/ q.saw.status = booking'[q.on].status
             \/ ActorCanTransition(q.saw.status, booking'[q.on].status, q.actor)
  <2>1. s = r
    <3>1. ASSUME NEW x, request' = [request EXCEPT ![s] = x], s # r PROVE FALSE
      BY <3>1 DEF TypeInv, TypeOK
    <3>2. \E x : request' = [request EXCEPT ![s] = x]
      BY <1>5, ProceedsOwn
    <3>3. QED
      BY <3>1, <3>2
  <2>2. QED
    BY <1>5, <2>1, ProceedsPermitted
<1>6. QED
  BY <1>1, <1>2, <1>3, <1>4, <1>5 DEF Next, vars

\* No party drives a transition that TRANSITION_ACTORS does not give it, though no
\* server action consults that table and what each has read may be stale.
THEOREM OnlyPermittedActorsHold == Spec => OnlyPermittedActors
<1>1. Init => TypeInv /\ RefundInv
  BY TypeInvInit, RefundInvInit
<1>2. (TypeInv /\ RefundInv) /\ [Next]_vars => (TypeInv /\ RefundInv)'
  BY TypeInvNext, RefundInvNext
<1> DEFINE Permitted ==
      \A r \in Requests :
        LET q == request[r]
            to == booking'[q.on].status
        IN q.on \in Bookings /\ request'[r] # q /\ booking' # booking =>
             q.saw.status = to \/ ActorCanTransition(q.saw.status, to, q.actor)
<1>3. (TypeInv /\ RefundInv) /\ [Next]_vars => [Permitted]_vars
  BY PermittedStep
<1> HIDE DEF Permitted
<1>4. Spec => [][Permitted]_vars
  BY <1>1, <1>2, <1>3, PTL DEF Spec
<1>5. QED
  BY <1>4 DEF OnlyPermittedActors, Permitted

============================================================================
