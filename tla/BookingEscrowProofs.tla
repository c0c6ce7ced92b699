------------------------ MODULE BookingEscrowProofs ------------------------
(***************************************************************************)
(* Theorems about BookingEscrow, for any set of bookings, of server        *)
(* actions in flight and of sweeps, and any amounts.                       *)
(***************************************************************************)
EXTENDS BookingEscrow, TLAPS

----------------------------------------------------------------------------
(* Type correctness.  The fee a cancellation is about to record is capped  *)
(* once its escrow transaction has read the row, and a review that is not  *)
(* committed yet is one of the two parties'.                               *)

SlotOK(q) ==
  /\ q.op = "cancel" /\ q.at \in {"fee", "rest", "write"} => q.fee \in 0..FamilyPays
  /\ q.op = "review" /\ q.at \in {"insert", "one", "both"} => q.actor \in Sides

SlotsOK == \A r \in Requests : SlotOK(request[r])

TypeInv == TypeOK /\ SlotsOK

USE DEF Sides, Both

\* A request that returns, moves on, or fails keeps the slots well typed.
LEMMA SlotTypes ==
  ASSUME TypeOK, NEW r \in Requests
  PROVE  /\ request[r] \in RunningRequests \cup {Idle}
         /\ request[r].op \in Ops => request[r] \in RunningRequests
         /\ Done(r) => request' \in [Requests -> RunningRequests \cup {Idle}]
         /\ \A step \in Steps : request[r].op \in Ops /\ Goto(r, step) =>
              request' \in [Requests -> RunningRequests \cup {Idle}]
  <1>1. request[r] \in RunningRequests \cup {Idle}
    BY DEF TypeOK
  <1>2. request[r].op \in Ops => request[r] \in RunningRequests
    BY <1>1 DEF Idle, Ops
  <1>3. Done(r) => request' \in [Requests -> RunningRequests \cup {Idle}]
    BY DEF TypeOK, Done
  <1>4. ASSUME NEW step \in Steps, request[r].op \in Ops, Goto(r, step)
        PROVE  request' \in [Requests -> RunningRequests \cup {Idle}]
    <2>1. [request[r] EXCEPT !.at = step] \in RunningRequests
      BY <1>2, <1>4 DEF RunningRequests
    <2> QED
      BY <2>1, <1>4 DEF TypeOK, Goto
  <1> QED
    BY <1>1, <1>2, <1>3, <1>4

LEMMA ElevatedType ==
  ASSUME NEW q \in RunningRequests
  PROVE  Elevated(q) \in RunningRequests
  BY DEF Elevated, RunningRequests, NoRow, BookingRows, Steps

\* A server action begins with a well-typed request.
LEMMA BeginType ==
  ASSUME TypeInv, NEW r \in Requests, NEW q \in RunningRequests, Begin(r, q),
         q.at \notin {"fee", "rest", "write"}, q.op = "review" => q.actor \in Sides
  PROVE  TypeInv'
  <1>1. TypeOK'
    BY DEF TypeInv, TypeOK, Begin, db
  <1>2. SlotsOK'
    BY DEF TypeInv, TypeOK, SlotsOK, SlotOK, Begin
  <1> QED
    BY <1>1, <1>2 DEF TypeInv

LEMMA HavingType ==
  ASSUME TypeOK, NEW op \in Ops, NEW actor \in Sides \cup {"admin"},
         NEW b \in Bookings, NEW step \in Steps
  PROVE  /\ Having(op, actor, b, step) \in RunningRequests
         /\ Having(op, actor, b, step).at = step
         /\ Having(op, actor, b, step).op = op
         /\ Having(op, actor, b, step).actor = actor
         /\ \A fee \in Nat : 
              [Having(op, actor, b, step) EXCEPT !.fee = fee] \in RunningRequests
         /\ \A s \in EscrowStatuses \cup {"none"} : 
              [Having(op, actor, b, step) EXCEPT !.escrowSaw = s] \in RunningRequests
  BY DEF TypeOK, Having, Idle, RunningRequests

\* The pieces of a step in flight keep the state well typed.
LEMMA UpdateBookingType ==
  ASSUME TypeInv, NEW r \in Requests, request[r].op \in Ops,
         NEW new \in BookingRows, new.status # "none", NEW goOn \in BOOLEAN,
         UpdateBooking(r, new, goOn),
         UNCHANGED <<escrow, reviews, gateway, sweep>>
  PROVE  TypeInv'
  <1> DEFINE q == request[r]
  <1>1. q \in RunningRequests /\ q.on \in Bookings /\ q.saw.status \in BookingStatuses \cup {"none"}
    BY SlotTypes DEF TypeInv, RunningRequests, BookingRows
  <1>2. Elevated(q) \in RunningRequests
    BY <1>1, ElevatedType
  <1>3. Row("booking", q.saw.status, new.status) \in AuditRows
    BY <1>1 DEF Row, AuditRows, BookingRows
  <1>4. TypeOK'
    BY <1>1, <1>2, <1>3 DEF TypeInv, TypeOK, UpdateBooking, Audited, Done
  <1>5. \E x \in {Elevated(q), Idle} : request' = [request EXCEPT ![r] = x]
    BY DEF UpdateBooking, Done
  <1>6. Elevated(q).at = "escrow" /\ Idle.op = "idle"
    BY <1>1 DEF Elevated, RunningRequests, Idle
  <1>7. SlotsOK'
    BY <1>5, <1>6 DEF TypeInv, TypeOK, SlotsOK, SlotOK
  <1> QED
    BY <1>4, <1>7 DEF TypeInv

LEMMA UpdateStatusType ==
  ASSUME TypeInv, NEW r \in Requests, request[r].op \in Ops,
         NEW status \in BookingStatuses, NEW goOn \in BOOLEAN,
         UpdateStatus(r, status, goOn)
  PROVE  TypeInv'
  <1>1. request[r].on \in Bookings
    BY SlotTypes DEF TypeInv, RunningRequests
  <1> DEFINE row == booking[request[r].on]
  <1>2. row \in BookingRows
    BY <1>1 DEF TypeInv, TypeOK
  <1>3. [row EXCEPT !.status = status] \in BookingRows
    BY <1>2 DEF BookingRows
  <1>4. [row EXCEPT !.status = status].status = status /\ status # "none"
    BY <1>2 DEF BookingRows, BookingStatuses
  <1> QED
    BY <1>3, <1>4, UpdateBookingType DEF UpdateStatus

LEMMA UpdateEscrowType ==
  ASSUME TypeInv, NEW r \in Requests, request[r].op \in Ops,
         NEW new \in EscrowRows, new.status # "none",
         NEW before \in EscrowStatuses \cup {"none"}, UpdateEscrow(r, new, before)
  PROVE  TypeInv'
  <1>1. request[r].on \in Bookings
    BY SlotTypes DEF TypeInv, RunningRequests
  <1>2. Row("escrow", before, new.status) \in AuditRows
    BY DEF Row, AuditRows, EscrowRows
  <1>3. TypeOK'
    BY <1>1, <1>2 DEF TypeInv, TypeOK, UpdateEscrow, Audited, Done
  <1>4. SlotsOK'
    BY DEF TypeInv, TypeOK, SlotsOK, SlotOK, UpdateEscrow, Done, Idle
  <1> QED
    BY <1>3, <1>4 DEF TypeInv

\* A step that only returns, or only moves on.
LEMMA DoneType ==
  ASSUME TypeInv, NEW r \in Requests, Done(r), UNCHANGED <<db, gateway, sweep>>
  PROVE  TypeInv'
  <1>1. TypeOK'
    BY SlotTypes DEF TypeInv, TypeOK, Done, db
  <1>2. SlotsOK'
    BY DEF TypeInv, TypeOK, SlotsOK, SlotOK, Done, Idle
  <1> QED
    BY <1>1, <1>2 DEF TypeInv

LEMMA GotoType ==
  ASSUME TypeInv, NEW r \in Requests, request[r].op \in Ops, NEW step \in Steps,
         Goto(r, step), UNCHANGED <<db, sweep>>,
         gateway' \in [Bookings -> SUBSET GatewayCalls],
         \/ request[r].op \notin {"cancel", "review"}
         \/ request[r].op = "cancel" /\ request[r].at \in {"fee", "rest", "write"}
         \/ /\ request[r].op = "review"
            /\ request[r].at = "insert" \/ step \notin {"insert", "one", "both"}
  PROVE  TypeInv'
  <1>1. TypeOK'
    BY SlotTypes DEF TypeInv, TypeOK, db
  <1>2. request[r] \in RunningRequests
    BY SlotTypes DEF TypeInv
  <1>3. SlotsOK'
    BY <1>2 DEF TypeInv, TypeOK, SlotsOK, SlotOK, Goto, RunningRequests
  <1> QED
    BY <1>1, <1>3 DEF TypeInv

LEMMA ReadEscrowType ==
  ASSUME TypeInv, NEW r \in Requests, request[r].op \in Ops \ {"cancel"},
         NEW wanted, NEW step \in Steps \ {"insert", "one", "both"},
         ReadEscrow(r, wanted, step)
  PROVE  TypeInv'
  <1>1. CASE Done(r)
    BY <1>1, DoneType DEF ReadEscrow
  <1>2. CASE Goto(r, step)
    BY <1>2, GotoType DEF ReadEscrow, TypeInv, TypeOK
  <1> QED
    BY <1>1, <1>2 DEF ReadEscrow

LEMMA CallGatewayType ==
  ASSUME TypeInv, NEW r \in Requests, request[r].op \in Ops \ {"cancel"},
         NEW call \in GatewayCalls, NEW step \in Steps \ {"insert", "one", "both"},
         CallGateway(r, call, step)
  PROVE  TypeInv'
  <1>1. request[r].on \in Bookings
    BY SlotTypes DEF TypeInv, RunningRequests
  <1>2. gateway' \in [Bookings -> SUBSET GatewayCalls]
    BY <1>1 DEF CallGateway, Called, TypeInv, TypeOK
  <1> QED
    BY <1>2, GotoType DEF CallGateway

\* Every request step, and every sweep step, keeps the state well typed.
LEMMA OpensType ==
  ASSUME TypeInv, NEW r \in Requests, NEW b \in Bookings, Opens(r, b)
  PROVE  TypeInv'
  <1> USE DEF Ops, Steps
  <1> DEFINE Plain(op, actor, step) == Begin(r, Having(op, actor, b, step))
  <1>1. ASSUME NEW op \in Ops, NEW actor \in Sides, NEW step \in {"book", "insert"},
               Plain(op, actor, step)
        PROVE  TypeInv'
    <2> DEFINE q == Having(op, actor, b, step)
    <2>1. q \in RunningRequests /\ q.at = step /\ q.actor = actor
      BY HavingType DEF TypeInv
    <2> HIDE DEF q
    <2>2. Begin(r, q)
      BY <1>1 DEF q
    <2> QED
      BY <2>1, <2>2, BeginType
  <1>2. CASE AcceptBooking(r, b)
    BY <1>1, <1>2 DEF AcceptBooking
  <1>3. CASE DeclineBooking(r, b)
    BY <1>1, <1>3 DEF DeclineBooking
  <1>4. CASE StartSession(r, b)
    BY <1>1, <1>4 DEF StartSession
  <1>5. ASSUME NEW side \in Sides, ConfirmEnd(r, b, side) PROVE TypeInv'
    BY <1>1, <1>5 DEF ConfirmEnd
  <1>6. CASE CancelBooking(r, b)
    <2> DEFINE h == Having("cancel", "family", b, "book")
    <2>1. PICK fee \in Nat : Begin(r, [h EXCEPT !.fee = fee])
      BY <1>6, AmountsAssumption DEF CancelBooking
    <2>2. h \in RunningRequests /\ h.at = "book" /\ h.op = "cancel"
      BY HavingType DEF TypeInv
    <2> HIDE DEF h
    <2> DEFINE q == [h EXCEPT !.fee = fee]
    <2>3. q \in RunningRequests /\ q.at = "book" /\ q.op = "cancel"
      BY <2>2 DEF RunningRequests
    <2> HIDE DEF q
    <2>4. Begin(r, q)
      BY <2>1 DEF q
    <2> QED
      BY <2>3, <2>4, BeginType
  <1>7. ASSUME NEW side \in Sides, RaiseDispute(r, b, side) PROVE TypeInv'
    BY <1>1, <1>7 DEF RaiseDispute
  <1>8. ASSUME NEW side \in Sides, LeaveReview(r, b, side) PROVE TypeInv'
    BY <1>1, <1>8 DEF LeaveReview
  <1>9. ASSUME NEW resolution \in {"release", "refund"}, ResolveDispute(r, b, resolution)
        PROVE  TypeInv'
    <2> DEFINE step == IF resolution = "release" THEN "payout" ELSE "refund"
               h == Having(resolution, "admin", b, step)
    <2>1. escrow[b].status \in EscrowStatuses \cup {"none"}
      BY DEF TypeInv, TypeOK, EscrowRows
    <2>2. step \in Steps /\ h \in RunningRequests /\ h.at = step /\ h.op = resolution
      BY HavingType DEF TypeInv
    <2> HIDE DEF h
    <2> DEFINE q == [h EXCEPT !.escrowSaw = escrow[b].status]
    <2>3. q \in RunningRequests /\ q.at = step /\ q.op = resolution
      BY <2>1, <2>2 DEF RunningRequests
    <2>4. Begin(r, q)
      BY <1>9 DEF ResolveDispute, h
    <2> HIDE DEF q
    <2> QED
      BY <2>3, <2>4, BeginType
  <1> QED
    BY <1>2, <1>3, <1>4, <1>5, <1>6, <1>7, <1>8, <1>9 DEF Opens

LEMMA ProceedsType ==
  ASSUME TypeInv, NEW r \in Requests, Proceeds(r)
  PROVE  TypeInv'
  <1> DEFINE q == request[r]
             e == escrow[q.on]
  <1> USE DEF At, Ops, Steps
  <1>1. q.op \in Ops => q \in RunningRequests /\ q.on \in Bookings /\ e \in EscrowRows
    BY SlotTypes DEF TypeInv, TypeOK, RunningRequests
  <1>2. ASSUME NEW status \in BookingStatuses, NEW goOn \in BOOLEAN, q.op \in Ops,
               UpdateStatus(r, status, goOn)
        PROVE  TypeInv'
    BY <1>2, UpdateStatusType
  <1> USE DEF BookingStatuses
  <1>3. CASE AcceptBookingCommit(r)
    BY <1>2, <1>3 DEF AcceptBookingCommit
  <1>4. CASE AuthorizeEscrowRead(r)
    BY <1>4, ReadEscrowType DEF AuthorizeEscrowRead
  <1>5. CASE AuthorizeEscrowCall(r)
    BY <1>5, CallGatewayType, AmountsAssumption DEF AuthorizeEscrowCall, GatewayCalls
  <1>6. CASE AuthorizeEscrowWrite(r)
    <2> DEFINE new == [NoEscrow EXCEPT !.status = "authorized"]
    <2>1. new \in EscrowRows /\ new.status # "none"
      BY AmountsAssumption DEF NoEscrow, EscrowRows, EscrowStatuses
    <2> HIDE DEF new
    <2>2. UpdateEscrow(r, new, "none") \/ (Done(r) /\ UNCHANGED <<db, gateway, sweep>>)
      BY <1>6 DEF AuthorizeEscrowWrite, new
    <2> QED
      BY <1>6, <2>1, <2>2, UpdateEscrowType, DoneType DEF AuthorizeEscrowWrite
  <1>7. CASE DeclineBookingCommit(r)
    BY <1>2, <1>7 DEF DeclineBookingCommit
  <1>8. CASE StartSessionCommit(r)
    BY <1>2, <1>8 DEF StartSessionCommit
  <1>9. CASE CaptureEscrowRead(r)
    BY <1>9, ReadEscrowType DEF CaptureEscrowRead
  <1>10. CASE CaptureEscrowCall(r)
    BY <1>10, CallGatewayType, AmountsAssumption DEF CaptureEscrowCall, GatewayCalls
  <1>11. ASSUME NEW s \in EscrowStatuses, NEW before \in EscrowStatuses, q.op \in Ops,
                UpdateEscrow(r, [e EXCEPT !.status = s], before)
         PROVE  TypeInv'
    <2> DEFINE new == [e EXCEPT !.status = s]
    <2>1. new \in EscrowRows /\ new.status # "none"
      BY <1>1, <1>11 DEF EscrowRows, EscrowStatuses
    <2> HIDE DEF new
    <2>2. UpdateEscrow(r, new, before)
      BY <1>11 DEF new
    <2> QED
      BY <1>11, <2>1, <2>2, UpdateEscrowType
  <1>12. CASE CaptureEscrowWrite(r)
    BY <1>11, <1>12 DEF CaptureEscrowWrite, EscrowStatuses
  <1>13. CASE ConfirmEndCommit(r)
    <2> DEFINE new == [status |-> IF BothConfirmed(q) THEN "completed" ELSE "in_progress",
                       familyEnded |-> Ended(q).familyEnded,
                       caregiverEnded |-> Ended(q).caregiverEnded]
    <2>0. q \in RunningRequests
      BY <1>1, <1>13 DEF ConfirmEndCommit
    <2>1. q.saw.familyEnded \in BOOLEAN /\ q.saw.caregiverEnded \in BOOLEAN
      BY <2>0 DEF RunningRequests, BookingRows
    <2>2. new \in BookingRows /\ new.status # "none" /\ BothConfirmed(q) \in BOOLEAN
      BY <2>1, Zenon DEF BookingRows, Ended, BothConfirmed
    <2> HIDE DEF new
    <2>3. UpdateBooking(r, new, BothConfirmed(q)) /\ UNCHANGED <<escrow, reviews, gateway, sweep>>
      BY <1>13 DEF ConfirmEndCommit, new
    <2> QED
      BY <1>13, <2>2, <2>3, UpdateBookingType DEF ConfirmEndCommit
  <1>14. CASE OpenDisputeWindowRead(r)
    BY <1>14, DoneType, GotoType DEF OpenDisputeWindowRead, TypeInv, TypeOK
  <1>15. CASE OpenDisputeWindowWrite(r)
    <2>1. [e EXCEPT !.window = "open"] \in EscrowRows
      BY <1>1, <1>15 DEF OpenDisputeWindowWrite, EscrowRows
    <2>2. escrow' = [escrow EXCEPT ![q.on] = [e EXCEPT !.window = "open"]]
      BY <1>15 DEF OpenDisputeWindowWrite
    <2>3. Row("escrow", "none", "window") \in AuditRows
      BY DEF Row, AuditRows
    <2> HIDE DEF e
    <2>4. TypeOK'
      BY <1>1, <1>15, <2>1, <2>2, <2>3, SlotTypes
      DEF OpenDisputeWindowWrite, TypeInv, TypeOK, Audited
    <2>5. SlotsOK'
      BY <1>15 DEF OpenDisputeWindowWrite, TypeInv, TypeOK, SlotsOK, SlotOK, Done, Idle
    <2> QED
      BY <2>4, <2>5 DEF TypeInv
  <1>16. CASE CancelBookingCommit(r)
    BY <1>2, <1>16 DEF CancelBookingCommit
  <1>17. CASE RefundEscrowRead(r)
    <2>1. CASE Done(r)
      BY <1>17, <2>1, DoneType DEF RefundEscrowRead
    <2>2. CASE request' = [request EXCEPT ![r] = [q EXCEPT !.fee = CoveredFee(@), !.at = "fee"]]
      <3> DEFINE p == [q EXCEPT !.fee = CoveredFee(@), !.at = "fee"]
      <3>1. q \in RunningRequests
        BY <1>1, <1>17 DEF RefundEscrowRead
      <3>2. q.fee \in Nat
        BY <3>1 DEF RunningRequests
      <3>3. CoveredFee(q.fee) \in 0..FamilyPays
        BY <3>2, AmountsAssumption DEF CoveredFee
      <3> DEFINE capped == [q EXCEPT !.fee = CoveredFee(q.fee)]
      <3>4. capped \in RunningRequests /\ capped.fee = CoveredFee(q.fee) /\ capped.op = q.op
        BY <3>1, <3>3, AmountsAssumption DEF RunningRequests
      <3>5. p = [capped EXCEPT !.at = "fee"]
        OBVIOUS
      <3> HIDE DEF capped
      <3>6. p \in RunningRequests /\ p.fee = capped.fee /\ p.op = q.op
        BY <3>4, <3>5 DEF RunningRequests
      <3> HIDE DEF p
      <3>7. request' = [request EXCEPT ![r] = p]
        BY <2>2 DEF p
      <3>8. TypeOK'
        BY <1>17, <3>6, <3>7 DEF RefundEscrowRead, TypeInv, TypeOK, db
      <3>9. SlotsOK'
        BY <1>17, <3>3, <3>4, <3>6, <3>7 DEF RefundEscrowRead, TypeInv, TypeOK, SlotsOK, SlotOK
      <3> QED
        BY <3>8, <3>9 DEF TypeInv
    <2> QED
      BY <1>17, <2>1, <2>2 DEF RefundEscrowRead
  <1>18. CASE RefundEscrowFeeCall(r)
    <2>1. q.fee \in Nat
      BY <1>1, <1>18 DEF RefundEscrowFeeCall, RunningRequests
    <2>2. gateway' \in [Bookings -> SUBSET GatewayCalls]
      BY <1>1, <1>18, <2>1 DEF RefundEscrowFeeCall, Called, GatewayCalls, TypeInv, TypeOK
    <2> QED
      BY <1>18, <2>2, GotoType DEF RefundEscrowFeeCall
  <1>19. CASE RefundEscrowRestCall(r)
    <2>1. q.fee \in 0..FamilyPays
      BY <1>19 DEF RefundEscrowRestCall, TypeInv, SlotsOK, SlotOK
    <2>2. FamilyPays - q.fee \in Nat
      BY <2>1, AmountsAssumption
    <2>3. gateway' \in [Bookings -> SUBSET GatewayCalls]
      BY <1>1, <1>19, <2>2 DEF RefundEscrowRestCall, Called, GatewayCalls, TypeInv, TypeOK
    <2> QED
      BY <1>19, <2>3, GotoType DEF RefundEscrowRestCall
  <1>20. CASE RefundEscrowWrite(r)
    <2> DEFINE new == [e EXCEPT !.status = "refunded", !.fee = q.fee]
    <2>1. q.fee \in 0..FamilyPays
      BY <1>20 DEF RefundEscrowWrite, TypeInv, SlotsOK, SlotOK
    <2>2. new \in EscrowRows /\ new.status # "none"
      BY <1>1, <1>20, <2>1 DEF RefundEscrowWrite, EscrowRows, EscrowStatuses
    <2> HIDE DEF new
    <2>3. UpdateEscrow(r, new, "authorized")
      BY <1>20 DEF RefundEscrowWrite, new
    <2> QED
      BY <1>20, <2>2, <2>3, UpdateEscrowType DEF RefundEscrowWrite, EscrowStatuses
  <1>21. CASE RaiseDisputeCommit(r)
    BY <1>2, <1>21 DEF RaiseDisputeCommit
  <1>22. CASE HoldEscrowRead(r)
    BY <1>22, ReadEscrowType DEF HoldEscrowRead
  <1>23. CASE HoldEscrowWrite(r)
    <2>1. [e EXCEPT !.status = "disputed"] \in EscrowRows
      BY <1>1, <1>23 DEF HoldEscrowWrite, EscrowRows, EscrowStatuses
    <2>2. escrow' \in [Bookings -> EscrowRows]
      BY <1>1, <1>23, <2>1 DEF HoldEscrowWrite, TypeInv, TypeOK
    <2>3. Row("escrow", "captured", "disputed") \in AuditRows
      BY DEF Row, AuditRows, EscrowStatuses
    <2> HIDE DEF e
    <2>4. TypeOK'
      BY <1>1, <1>23, <2>2, <2>3, SlotTypes DEF HoldEscrowWrite, TypeInv, TypeOK, Audited
    <2>5. SlotsOK'
      BY <1>23 DEF HoldEscrowWrite, TypeInv, TypeOK, SlotsOK, SlotOK, Done, Idle
    <2> QED
      BY <2>4, <2>5 DEF TypeInv
  <1>24. CASE InsertReview(r)
    BY <1>24, GotoType DEF InsertReview, TypeInv, TypeOK
  <1>25. CASE LeaveReviewCommit(r)
    <2>1. Elevated(q) \in RunningRequests /\ Elevated(q).at = "escrow"
      BY <1>1, <1>25, ElevatedType DEF LeaveReviewCommit, Elevated, RunningRequests
    <2>2. \E x \in {Elevated(q), Idle} : request' = [request EXCEPT ![r] = x]
      BY <1>25 DEF LeaveReviewCommit, Done
    <2>3. q.actor \in Sides
      BY <1>25 DEF LeaveReviewCommit, TypeInv, SlotsOK, SlotOK
    <2>4. reviews' \in [Bookings -> SUBSET Sides]
      BY <1>1, <1>25, <2>3 DEF LeaveReviewCommit, TypeInv, TypeOK
    <2>5. TypeOK'
      BY <1>25, <2>1, <2>2, <2>4 DEF LeaveReviewCommit, TypeInv, TypeOK
    <2>6. SlotsOK'
      BY <1>25, <2>1, <2>2 DEF LeaveReviewCommit, TypeInv, TypeOK, SlotsOK, SlotOK, Idle
    <2> QED
      BY <2>5, <2>6 DEF TypeInv
  <1>26. CASE ReleaseEscrowRead(r)
    BY <1>26, ReadEscrowType DEF ReleaseEscrowRead
  <1>27. CASE ReleaseEscrowCall(r)
    BY <1>27, CallGatewayType, AmountsAssumption DEF ReleaseEscrowCall, GatewayCalls
  <1>28. CASE ReleaseEscrowWrite(r)
    BY <1>11, <1>28, DoneType DEF ReleaseEscrowWrite, EscrowStatuses
  <1>29. CASE ResolveDisputeCall(r)
    BY <1>29, CallGatewayType, AmountsAssumption DEF ResolveDisputeCall, GatewayCalls
  <1>30. ASSUME NEW resolution \in {"release", "refund"}, ResolveDisputeCommit(r, resolution)
         PROVE  TypeInv'
    <2> DEFINE money == Outcome(resolution)
               care == IF resolution = "release" THEN "completed" ELSE "cancelled"
    <2>1. money \in EscrowStatuses /\ care \in BookingStatuses
      BY DEF Outcome, EscrowStatuses
    <2>2. q \in RunningRequests
      BY <1>1, <1>30 DEF ResolveDisputeCommit
    <2>3. /\ Row("escrow", q.escrowSaw, money) \in AuditRows
          /\ Row("booking", q.saw.status, care) \in AuditRows
      BY <2>1, <2>2 DEF Row, AuditRows, RunningRequests, BookingRows
    <2>4. escrow' \in [Bookings -> EscrowRows] /\ booking' \in [Bookings -> BookingRows]
      BY <1>1, <1>30, <2>1 DEF ResolveDisputeCommit, TypeInv, TypeOK, EscrowRows, BookingRows
    <2> HIDE DEF e, money, care
    <2>5. TypeOK'
      BY <1>1, <1>30, <2>3, <2>4, SlotTypes
      DEF ResolveDisputeCommit, TypeInv, TypeOK, Audited, money, care
    <2>6. SlotsOK'
      BY <1>30 DEF ResolveDisputeCommit, TypeInv, TypeOK, SlotsOK, SlotOK, Done, Idle
    <2> QED
      BY <2>5, <2>6 DEF TypeInv
  <1> QED
    BY <1>3, <1>4, <1>5, <1>6, <1>7, <1>8, <1>9, <1>10, <1>12, <1>13, <1>14, <1>15, <1>16,
       <1>17, <1>18, <1>19, <1>20, <1>21, <1>22, <1>23, <1>24, <1>25, <1>26, <1>27, <1>28,
       <1>29, <1>30 DEF Proceeds

LEMMA SweepsType ==
  ASSUME TypeInv, NEW w \in Workers, Sweeps(w) \/ SweepFails(w)
  PROVE  TypeInv'
  <1>1. sweep[w] \in [batch : SUBSET Bookings, paying : Bookings \cup {NoBooking}]
    BY DEF TypeInv, TypeOK
  <1>2. CASE SweepRead(w)
    <2>1. Due \subseteq Bookings
      BY DEF Due
    <2> QED
      BY <1>1, <1>2, <2>1 DEF SweepRead, TypeInv, TypeOK, SlotsOK, db
  <1>3. ASSUME NEW b \in Bookings, SweepPayout(w, b) PROVE TypeInv'
    BY <1>1, <1>3, AmountsAssumption
    DEF SweepPayout, Called, GatewayCalls, TypeInv, TypeOK, SlotsOK, db
  <1>4. CASE SweepWrite(w)
    <2> DEFINE b == sweep[w].paying
    <2>1. b \in Bookings /\ escrow[b] \in EscrowRows
      BY <1>4 DEF SweepWrite, TypeInv, TypeOK
    <2>2. [escrow[b] EXCEPT !.status = "released"] \in EscrowRows
      BY <2>1 DEF EscrowRows, EscrowStatuses
    <2>3. escrow' \in [Bookings -> EscrowRows]
      BY <1>4, <2>1, <2>2 DEF SweepWrite, TypeInv, TypeOK
    <2>4. Row("escrow", "captured", "released") \in AuditRows
      BY DEF Row, AuditRows, EscrowStatuses
    <2>5. audit' \in [Bookings -> SUBSET AuditRows]
      BY <1>4, <2>1, <2>4 DEF SweepWrite, Audited, TypeInv, TypeOK
    <2>6. sweep' \in [Workers -> [batch : SUBSET Bookings, paying : Bookings \cup {NoBooking}]]
      BY <1>1, <1>4 DEF SweepWrite, TypeInv, TypeOK
    <2> QED
      BY <1>4, <2>3, <2>5, <2>6 DEF SweepWrite, TypeInv, TypeOK, SlotsOK
  <1>5. CASE SweepFails(w)
    BY <1>5 DEF SweepFails, Resting, TypeInv, TypeOK, SlotsOK, db
  <1> QED
    BY <1>2, <1>3, <1>4, <1>5 DEF Sweeps

LEMMA TypeInvInit == Init => TypeInv
  BY AmountsAssumption
  DEF Init, TypeInv, TypeOK, SlotsOK, SlotOK, NoRow, NoEscrow, BookingRows, EscrowRows,
      Idle, Resting

LEMMA TypeInvNext == TypeInv /\ [Next]_vars => TypeInv'
  <1> SUFFICES ASSUME TypeInv, [Next]_vars
               PROVE  TypeInv'
    OBVIOUS
  <1>1. ASSUME NEW b \in Bookings, RequestBooking(b) PROVE TypeInv'
    <2>1. [booking[b] EXCEPT !.status = "requested"] \in BookingRows
      BY DEF TypeInv, TypeOK, BookingRows, BookingStatuses
    <2>2. Row("booking", "none", "requested") \in AuditRows
      BY DEF Row, AuditRows, BookingStatuses
    <2> QED
      BY <1>1, <2>1, <2>2 DEF RequestBooking, Audited, TypeInv, TypeOK, SlotsOK
  <1>2. ASSUME NEW b \in Bookings, WindowElapses(b) PROVE TypeInv'
    <2>1. escrow[b] \in EscrowRows
      BY DEF TypeInv, TypeOK
    <2>2. [escrow[b] EXCEPT !.window = "elapsed"] \in EscrowRows
      BY <2>1 DEF EscrowRows
    <2> QED
      BY <1>2, <2>2 DEF WindowElapses, TypeInv, TypeOK, SlotsOK
  <1>3. ASSUME NEW r \in Requests, RequestFails(r) PROVE TypeInv'
    BY <1>3, DoneType DEF RequestFails
  <1>4. CASE UNCHANGED vars
    BY <1>4 DEF vars, TypeInv, TypeOK, SlotsOK
  <1> QED
    BY <1>1, <1>2, <1>3, <1>4, OpensType, ProceedsType, SweepsType DEF Next

\* The state is well typed: in particular no fee above what the family pays is
\* ever recorded, and the gateway is never sent a negative amount.
THEOREM TypeCorrect == Spec => []TypeOK
  <1>1. TypeInv => TypeOK
    BY DEF TypeInv
  <1> QED
    BY <1>1, TypeInvInit, TypeInvNext, PTL DEF Spec

LEMMA TypeInvHolds == Spec => []TypeInv
  BY TypeInvInit, TypeInvNext, PTL DEF Spec

----------------------------------------------------------------------------
(* Payout only from a charge.  PaidOnlyFromCharge alone is not inductive:  *)
(* a request or a sweep acts on an escrow status it read some steps ago.   *)
(* What survives every interleaving is that the gateway's ledger never     *)
(* forgets, so what a process has read of an escrow still stands in it.    *)

Authorized(b) == <<"authorize", FamilyPays>> \in gateway[b]
Charged(b) == <<"capture", FamilyPays>> \in gateway[b]
Paid(b) == <<"payout", CaregiverPayout>> \in gateway[b]

\* The ledger backs every status of an escrow ...
EscrowFunded(b) ==
  /\ escrow[b].status # "none" => Authorized(b)
  /\ escrow[b].status \in {"captured", "disputed", "released"} => Charged(b)

\* ... and what a request that will move money, or a frozen escrow, relies on.
NeedsAuthorization(op, at) ==
  \/ op = "accept" /\ at = "write"
  \/ op = "start" /\ at \in {"capture", "write"}
  \/ op = "cancel" /\ at \in {"fee", "rest", "write"}
  \/ op \in {"refund", "release"}

NeedsCharge(op, at) ==
  \/ op \in {"start", "dispute"} /\ at = "write"
  \/ op = "review" /\ at \in {"payout", "write"}
  \/ op = "release"

SlotFunded(q) ==
  /\ NeedsAuthorization(q.op, q.at) => Authorized(q.on)
  /\ NeedsCharge(q.op, q.at) => Charged(q.on)

SweepFunded(w) ==
  \A b \in Bookings : b \in sweep[w].batch \/ b = sweep[w].paying => Charged(b)

MoneyInv ==
  /\ \A b \in Bookings : EscrowFunded(b) /\ (Paid(b) => Charged(b))
  /\ \A r \in Requests : SlotFunded(request[r])
  /\ \A w \in Workers : SweepFunded(w)

LedgerGrows == \A b \in Bookings : gateway[b] \subseteq gateway'[b]

\* How a step of one request keeps the money invariant: what it leaves alone is
\* backed by the same ledger.
LEMMA MoneyByRequest ==
  ASSUME TypeInv, MoneyInv, NEW r \in Requests, NEW x,
         request' = [request EXCEPT ![r] = x],
         x.op # "idle" => x.on \in Bookings,
         (NeedsAuthorization(x.op, x.at) => Authorized(x.on))',
         (NeedsCharge(x.op, x.at) => Charged(x.on))',
         LedgerGrows,
         \A b \in Bookings : escrow'[b].status = escrow[b].status \/ EscrowFunded(b)',
         \A b \in Bookings : Paid(b)' => Paid(b) \/ Charged(b),
         UNCHANGED sweep
  PROVE  MoneyInv'
  <1>1. \A b \in Bookings : EscrowFunded(b)' /\ (Paid(b)' => Charged(b)')
    BY DEF MoneyInv, EscrowFunded, LedgerGrows, Authorized, Charged
  <1>2. ASSUME NEW s \in Requests PROVE SlotFunded(request[s])'
    <2>1. CASE s = r
      BY <2>1 DEF TypeInv, TypeOK, SlotFunded, NeedsAuthorization, NeedsCharge, Authorized, Charged
    <2>2. CASE s # r
      <3>1. request'[s] = request[s] /\ SlotFunded(request[s])
        BY <2>2 DEF TypeInv, TypeOK, MoneyInv
      <3>2. request[s] = Idle \/ request[s].on \in Bookings
        BY DEF TypeInv, TypeOK, RunningRequests
      <3>3. CASE request[s] = Idle
        BY <3>1, <3>3 DEF SlotFunded, NeedsAuthorization, NeedsCharge, Idle
      <3>4. CASE request[s].on \in Bookings
        BY <3>1, <3>4 DEF SlotFunded, NeedsAuthorization, NeedsCharge, Authorized, Charged, LedgerGrows
      <3> QED
        BY <3>2, <3>3, <3>4
    <2> QED
      BY <2>1, <2>2
  <1>3. \A w \in Workers : SweepFunded(w)'
    BY DEF MoneyInv, SweepFunded, LedgerGrows, Charged
  <1> QED
    BY <1>1, <1>2, <1>3 DEF MoneyInv

\* A call for booking b only adds to its ledger, and pays only if it is a payout.
LEMMA CalledGrows ==
  ASSUME TypeInv, NEW b \in Bookings, NEW call, Called(b, call)
  PROVE  /\ LedgerGrows
         /\ call \in gateway'[b]
         /\ \A c \in Bookings : Paid(c)' => Paid(c) \/ (c = b /\ call = <<"payout", CaregiverPayout>>)
  BY DEF TypeInv, TypeOK, Called, LedgerGrows, Paid

LEMMA UnchangedGrows ==
  ASSUME UNCHANGED gateway
  PROVE  LedgerGrows /\ \A b \in Bookings : Paid(b)' => Paid(b)
  BY DEF LedgerGrows, Paid

\* A request that returns relies on nothing, and neither does one that has only
\* committed its booking transaction.
LEMMA IdleFunded ==
  /\ Idle.op = "idle" /\ ~NeedsAuthorization(Idle.op, Idle.at) /\ ~NeedsCharge(Idle.op, Idle.at)
  /\ \A q \in RunningRequests :
       /\ Elevated(q).op = q.op /\ Elevated(q).on = q.on /\ Elevated(q).at = "escrow"
       /\ q.op \notin {"refund", "release"} =>
            ~NeedsAuthorization(Elevated(q).op, Elevated(q).at) /\ ~NeedsCharge(Elevated(q).op, Elevated(q).at)
  BY DEF Idle, RunningRequests, Elevated, NeedsAuthorization, NeedsCharge

\* The status a booking transaction writes is no business of the escrow.
LEMMA MoneyByBooking ==
  ASSUME TypeInv, MoneyInv, NEW r \in Requests, request[r].op \in Ops \ {"refund", "release"},
         NEW new, NEW goOn, UpdateBooking(r, new, goOn),
         UNCHANGED <<escrow, reviews, gateway, sweep>>
  PROVE  MoneyInv'
  <1> DEFINE q == request[r]
  <1>1. q \in RunningRequests
    BY SlotTypes DEF TypeInv
  <1>2. PICK x \in {Elevated(q), Idle} : request' = [request EXCEPT ![r] = x]
    BY DEF UpdateBooking, Done
  <1>3. /\ x.op # "idle" => x.on \in Bookings
        /\ ~NeedsAuthorization(x.op, x.at) /\ ~NeedsCharge(x.op, x.at)
    BY <1>1, IdleFunded DEF RunningRequests
  <1> QED
    BY <1>2, <1>3, MoneyByRequest, UnchangedGrows DEF NeedsAuthorization, NeedsCharge

\* A request that ends leaves the books to the escrow row it wrote, if it did.
LEMMA MoneyByReturn ==
  ASSUME TypeInv, MoneyInv, NEW r \in Requests, Done(r), UNCHANGED <<gateway, sweep>>,
         \A b \in Bookings : escrow'[b].status = escrow[b].status \/ EscrowFunded(b)'
  PROVE  MoneyInv'
  BY IdleFunded, MoneyByRequest, UnchangedGrows DEF Done, NeedsAuthorization, NeedsCharge

\* A request that moves on must find what it will rely on in the ledger.
LEMMA MoneyByMove ==
  ASSUME TypeInv, MoneyInv, NEW r \in Requests, request[r] \in RunningRequests,
         NEW step, Goto(r, step), UNCHANGED <<escrow, sweep>>, LedgerGrows,
         \A b \in Bookings : Paid(b)' => Paid(b) \/ Charged(b),
         NEW on, on = request[r].on,
         NeedsAuthorization(request[r].op, step) => Authorized(on)',
         NeedsCharge(request[r].op, step) => Charged(on)'
  PROVE  MoneyInv'
  <1>1. PICK x : x = [request[r] EXCEPT !.at = step]
    OBVIOUS
  <1>2. x.on = on /\ on \in Bookings /\ x.op = request[r].op /\ x.at = step
    BY <1>1 DEF RunningRequests
  <1>3. request' = [request EXCEPT ![r] = x]
    BY <1>1 DEF Goto
  <1>4. /\ NeedsAuthorization(x.op, x.at) => Authorized(x.on)'
        /\ NeedsCharge(x.op, x.at) => Charged(x.on)'
    BY <1>2
  <1> QED
    BY <1>2, <1>3, <1>4, MoneyByRequest DEF Authorized, Charged, NeedsAuthorization, NeedsCharge

\* The escrow transaction's read: the helper goes on only with a row whose
\* status is backed, and the gateway is not involved.
LEMMA MoneyByRead ==
  ASSUME TypeInv, MoneyInv, NEW r \in Requests, request[r].op \in Ops,
         NEW wanted, NEW step, ReadEscrow(r, wanted, step),
         ~NeedsAuthorization(request[r].op, step) \/ wanted \notin {"none"},
         ~NeedsCharge(request[r].op, step) \/ wanted \in {"captured", "disputed", "released"}
  PROVE  MoneyInv'
  <1>1. PICK on : on = request[r].on
    OBVIOUS
  <1>2. on \in Bookings /\ request[r] \in RunningRequests
    BY <1>1, SlotTypes DEF TypeInv, RunningRequests
  <1>3. CASE Done(r)
    BY <1>3, MoneyByReturn DEF ReadEscrow, db
  <1>4. CASE escrow[on].status = wanted /\ Goto(r, step)
    <2>1. /\ NeedsAuthorization(request[r].op, step) => Authorized(on)
          /\ NeedsCharge(request[r].op, step) => Charged(on)
      BY <1>2, <1>4 DEF MoneyInv, EscrowFunded
    <2>2. UNCHANGED <<escrow, gateway, sweep>>
      BY DEF ReadEscrow, db
    <2>3. Authorized(on)' = Authorized(on) /\ Charged(on)' = Charged(on)
      BY <2>2 DEF Authorized, Charged
    <2> QED
      BY <1>1, <1>2, <1>4, <2>1, <2>2, <2>3, UnchangedGrows, MoneyByMove
  <1> QED
    BY <1>1, <1>3, <1>4 DEF ReadEscrow

\* A gateway call: afterwards the request may rely on what it was answered.
LEMMA MoneyByCall ==
  ASSUME TypeInv, MoneyInv, NEW r \in Requests, request[r] \in RunningRequests,
         NEW call, NEW step, Called(request[r].on, call), Goto(r, step),
         UNCHANGED <<db, sweep>>,
         NEW on, on = request[r].on,
         call = <<"payout", CaregiverPayout>> => Charged(on),
         NeedsAuthorization(request[r].op, step) =>
           Authorized(on) \/ call = <<"authorize", FamilyPays>>,
         NeedsCharge(request[r].op, step) =>
           Charged(on) \/ call = <<"capture", FamilyPays>>
  PROVE  MoneyInv'
  <1>1. on \in Bookings
    BY DEF RunningRequests
  <1>2. /\ LedgerGrows /\ call \in gateway'[on]
        /\ \A b \in Bookings : Paid(b)' => Paid(b) \/ Charged(b)
    BY <1>1, CalledGrows
  <1>3. /\ NeedsAuthorization(request[r].op, step) => Authorized(on)'
        /\ NeedsCharge(request[r].op, step) => Charged(on)'
    BY <1>1, <1>2 DEF LedgerGrows, Authorized, Charged
  <1> QED
    BY <1>2, <1>3, MoneyByMove DEF db

LEMMA ProceedsMoney ==
  ASSUME TypeInv, MoneyInv, NEW r \in Requests, Proceeds(r)
  PROVE  MoneyInv'
  <1> DEFINE q == request[r]
  <1> USE DEF At, Ops, NeedsAuthorization, NeedsCharge
  <1>1. PICK on : on = q.on
    OBVIOUS
  <1>2. q.op \in Ops => /\ q \in RunningRequests /\ on \in Bookings
                        /\ escrow[on] \in EscrowRows /\ EscrowFunded(on)
    BY <1>1, SlotTypes DEF TypeInv, TypeOK, RunningRequests, MoneyInv
  <1>3. SlotFunded(q)
    BY DEF MoneyInv
  <1>4. CASE AcceptBookingCommit(r)
    BY <1>4, MoneyByBooking DEF AcceptBookingCommit, UpdateStatus
  <1>5. CASE AuthorizeEscrowRead(r)
    BY <1>5, MoneyByRead DEF AuthorizeEscrowRead
  <1>6. CASE AuthorizeEscrowCall(r)
    BY <1>1, <1>2, <1>6, MoneyByCall DEF AuthorizeEscrowCall, CallGateway
  <1>7. CASE AuthorizeEscrowWrite(r)
    <2>1. Authorized(on)
      BY <1>1, <1>3, <1>7 DEF AuthorizeEscrowWrite, SlotFunded
    <2>2. CASE UNCHANGED <<db, gateway, sweep>>
      BY <1>7, <2>2, MoneyByReturn DEF AuthorizeEscrowWrite, UpdateEscrow, db
    <2>3. CASE UpdateEscrow(r, [NoEscrow EXCEPT !.status = "authorized"], "none")
      <3>1. UNCHANGED gateway /\ escrow' = [escrow EXCEPT ![on] = [NoEscrow EXCEPT !.status = "authorized"]]
        BY <1>1, <2>3 DEF UpdateEscrow
      <3>2. \A b \in Bookings : escrow'[b].status = escrow[b].status \/ EscrowFunded(b)'
        BY <1>2, <1>7, <2>1, <3>1
        DEF AuthorizeEscrowWrite, TypeInv, TypeOK, EscrowFunded, Authorized, NoEscrow
      <3> QED
        BY <2>3, <3>2, MoneyByReturn DEF UpdateEscrow
    <2> QED
      BY <1>7, <2>2, <2>3 DEF AuthorizeEscrowWrite
  <1>8. CASE DeclineBookingCommit(r)
    BY <1>8, MoneyByBooking DEF DeclineBookingCommit, UpdateStatus
  <1>9. CASE StartSessionCommit(r)
    BY <1>9, MoneyByBooking DEF StartSessionCommit, UpdateStatus
  <1>10. CASE CaptureEscrowRead(r)
    BY <1>10, MoneyByRead DEF CaptureEscrowRead
  <1>11. CASE CaptureEscrowCall(r)
    <2>1. Authorized(on)
      BY <1>1, <1>3, <1>11 DEF CaptureEscrowCall, SlotFunded
    <2> QED
      BY <1>1, <1>2, <1>11, <2>1, MoneyByCall DEF CaptureEscrowCall, CallGateway
  \* An escrow given a status the ledger backs.
  <1>12. ASSUME NEW s, UpdateEscrow(r, [escrow[q.on] EXCEPT !.status = s], "authorized")
                       \/ UpdateEscrow(r, [escrow[q.on] EXCEPT !.status = s], "captured"),
                q.op \in Ops, Authorized(on),
                s \in {"captured", "disputed", "released"} => Charged(on)
         PROVE  MoneyInv'
    <2>1. UNCHANGED gateway /\ escrow' = [escrow EXCEPT ![on] = [escrow[on] EXCEPT !.status = s]]
      BY <1>1, <1>12 DEF UpdateEscrow
    <2>2. \A b \in Bookings : escrow'[b].status = escrow[b].status \/ EscrowFunded(b)'
      BY <1>2, <1>12, <2>1 DEF TypeInv, TypeOK, EscrowFunded, Authorized, Charged, EscrowRows
    <2> QED
      BY <1>12, <2>2, MoneyByReturn DEF UpdateEscrow
  <1>13. CASE CaptureEscrowWrite(r)
    <2>1. Charged(on) /\ Authorized(on)
      BY <1>1, <1>3, <1>13 DEF CaptureEscrowWrite, SlotFunded
    <2> QED
      BY <1>12, <1>13, <2>1 DEF CaptureEscrowWrite
  <1>14. CASE ConfirmEndCommit(r)
    BY <1>14, MoneyByBooking DEF ConfirmEndCommit
  <1>15. CASE OpenDisputeWindowRead(r)
    BY <1>1, <1>2, <1>15, MoneyByReturn, MoneyByMove, UnchangedGrows DEF OpenDisputeWindowRead, db
  <1>16. CASE OpenDisputeWindowWrite(r)
    <2>1. \A b \in Bookings : escrow'[b].status = escrow[b].status
      BY <1>1, <1>2, <1>16 DEF OpenDisputeWindowWrite, TypeInv, TypeOK, EscrowRows
    <2> QED
      BY <1>16, <2>1, MoneyByReturn DEF OpenDisputeWindowWrite
  <1>17. CASE CancelBookingCommit(r)
    BY <1>17, MoneyByBooking DEF CancelBookingCommit, UpdateStatus
  <1>18. CASE RefundEscrowRead(r)
    <2>1. CASE Done(r)
      BY <1>18, <2>1, MoneyByReturn DEF RefundEscrowRead, db
    <2>2. CASE /\ escrow[on].status = "authorized"
               /\ request' = [request EXCEPT ![r] = [q EXCEPT !.fee = CoveredFee(@), !.at = "fee"]]
      <3>1. PICK x : x = [q EXCEPT !.fee = CoveredFee(@), !.at = "fee"]
        OBVIOUS
      <3>2. x.op = "cancel" /\ x.at = "fee" /\ x.on = on
        BY <1>1, <1>2, <1>18, <3>1 DEF RefundEscrowRead, RunningRequests
      <3>3. Authorized(on)
        BY <1>2, <1>18, <2>2 DEF RefundEscrowRead, EscrowFunded
      <3>4. UNCHANGED <<escrow, gateway, sweep>> /\ Authorized(on)'
        BY <1>18, <3>3 DEF RefundEscrowRead, db, Authorized
      <3>5. on \in Bookings /\ request' = [request EXCEPT ![r] = x]
        BY <1>2, <1>18, <2>2, <3>1 DEF RefundEscrowRead
      <3> QED
        BY <3>2, <3>4, <3>5, MoneyByRequest, UnchangedGrows DEF Authorized
    <2> QED
      BY <1>1, <1>18, <2>1, <2>2 DEF RefundEscrowRead
  <1>19. ASSUME q.op = "cancel", q.at \in {"fee", "rest"}, NEW step \in {"rest", "write"},
                NEW call \in {"capture", "refund"}, NEW n,
                Called(q.on, <<call, n>>) \/ UNCHANGED gateway,
                Goto(r, step), UNCHANGED <<db, sweep>>
         PROVE  MoneyInv'
    <2>1. Authorized(on)
      BY <1>1, <1>3, <1>19 DEF SlotFunded
    <2>2. CASE Called(q.on, <<call, n>>)
      BY <1>1, <1>2, <1>19, <2>1, <2>2, MoneyByCall
    <2>3. CASE UNCHANGED gateway
      <3>1. Authorized(on)'
        BY <2>1, <2>3 DEF Authorized
      <3> QED
        BY <1>1, <1>2, <1>19, <2>3, <3>1, UnchangedGrows, MoneyByMove DEF db
    <2> QED
      BY <1>19, <2>2, <2>3
  <1>20. CASE RefundEscrowFeeCall(r)
    BY <1>19, <1>20 DEF RefundEscrowFeeCall
  <1>21. CASE RefundEscrowRestCall(r)
    BY <1>19, <1>21 DEF RefundEscrowRestCall
  <1>22. CASE RefundEscrowWrite(r)
    <2>1. Authorized(on)
      BY <1>1, <1>3, <1>22 DEF RefundEscrowWrite, SlotFunded
    <2>2. /\ UNCHANGED gateway
          /\ escrow' = [escrow EXCEPT ![on] = [escrow[on] EXCEPT !.status = "refunded", !.fee = q.fee]]
      BY <1>1, <1>22 DEF RefundEscrowWrite, UpdateEscrow
    <2>3. \A b \in Bookings : escrow'[b].status = escrow[b].status \/ EscrowFunded(b)'
      BY <1>2, <1>22, <2>1, <2>2
      DEF RefundEscrowWrite, TypeInv, TypeOK, EscrowFunded, Authorized, EscrowRows
    <2> QED
      BY <1>22, <2>3, MoneyByReturn DEF RefundEscrowWrite, UpdateEscrow
  <1>23. CASE RaiseDisputeCommit(r)
    BY <1>23, MoneyByBooking DEF RaiseDisputeCommit, UpdateStatus
  <1>24. CASE HoldEscrowRead(r)
    BY <1>24, MoneyByRead DEF HoldEscrowRead
  <1>25. CASE HoldEscrowWrite(r)
    <2>1. Charged(on)
      BY <1>1, <1>3, <1>25 DEF HoldEscrowWrite, SlotFunded
    <2>2. \A b \in Bookings : escrow'[b].status = escrow[b].status \/ EscrowFunded(b)'
      BY <1>1, <1>2, <1>25, <2>1
      DEF HoldEscrowWrite, TypeInv, TypeOK, EscrowFunded, Authorized, Charged, EscrowRows
    <2> QED
      BY <1>25, <2>2, MoneyByReturn DEF HoldEscrowWrite
  <1>26. CASE InsertReview(r)
    BY <1>1, <1>2, <1>26, MoneyByMove, UnchangedGrows DEF InsertReview, db
  <1>27. CASE LeaveReviewCommit(r)
    <2>1. PICK x \in {Elevated(q), Idle} : request' = [request EXCEPT ![r] = x]
      BY <1>27 DEF LeaveReviewCommit, Done
    <2>2. /\ x.op # "idle" => x.on \in Bookings
          /\ ~NeedsAuthorization(x.op, x.at) /\ ~NeedsCharge(x.op, x.at)
      BY <1>1, <1>2, <1>27, <2>1, IdleFunded DEF LeaveReviewCommit
    <2> QED
      BY <1>27, <2>1, <2>2, MoneyByRequest, UnchangedGrows DEF LeaveReviewCommit
  <1>28. CASE ReleaseEscrowRead(r)
    BY <1>28, MoneyByRead DEF ReleaseEscrowRead
  <1>29. CASE ReleaseEscrowCall(r)
    <2>1. Charged(on)
      BY <1>1, <1>3, <1>29 DEF ReleaseEscrowCall, SlotFunded
    <2> QED
      BY <1>1, <1>2, <1>29, <2>1, MoneyByCall DEF ReleaseEscrowCall, CallGateway
  <1>30. CASE ReleaseEscrowWrite(r)
    <2>1. Charged(on)
      BY <1>1, <1>3, <1>30 DEF ReleaseEscrowWrite, SlotFunded
    <2>2. CASE UNCHANGED <<db, gateway, sweep>>
      BY <1>30, <2>2, MoneyByReturn DEF ReleaseEscrowWrite, UpdateEscrow, db
    <2>3. CASE escrow[on].status = "captured"
      <3>1. Authorized(on)
        BY <1>2, <1>30, <2>3 DEF ReleaseEscrowWrite, EscrowFunded
      <3> QED
        BY <1>1, <1>12, <1>30, <2>1, <2>2, <2>3, <3>1 DEF ReleaseEscrowWrite
    <2> QED
      BY <1>1, <1>30, <2>2, <2>3 DEF ReleaseEscrowWrite
  <1>31. CASE ResolveDisputeCall(r)
    <2>1. /\ q.op = "release" => Charged(on)
          /\ q.op \in {"refund", "release"} => Authorized(on)
      BY <1>1, <1>3 DEF SlotFunded
    <2> QED
      BY <1>1, <1>2, <1>31, <2>1, MoneyByCall DEF ResolveDisputeCall, CallGateway
  <1>32. ASSUME NEW resolution \in {"release", "refund"}, ResolveDisputeCommit(r, resolution)
         PROVE  MoneyInv'
    <2>1. (resolution = "release" => Charged(on)) /\ Authorized(on)
      BY <1>1, <1>3, <1>32 DEF ResolveDisputeCommit, SlotFunded
    <2>2. \A b \in Bookings : escrow'[b].status = escrow[b].status \/ EscrowFunded(b)'
      BY <1>1, <1>2, <1>32, <2>1
      DEF ResolveDisputeCommit, Outcome, TypeInv, TypeOK, EscrowFunded, Authorized, Charged, EscrowRows
    <2> QED
      BY <1>32, <2>2, MoneyByReturn DEF ResolveDisputeCommit
  <1> QED
    BY <1>4, <1>5, <1>6, <1>7, <1>8, <1>9, <1>10, <1>11, <1>13, <1>14, <1>15, <1>16, <1>17,
       <1>18, <1>20, <1>21, <1>22, <1>23, <1>24, <1>25, <1>26, <1>27, <1>28, <1>29, <1>30,
       <1>31, <1>32 DEF Proceeds

\* What the escrow table says of the two resolutions of a dispute.
LEMMA ResolvableEscrows ==
  ASSUME NEW s \in EscrowStatuses
  PROVE  /\ CanTransitionEscrow(s, "released") => s \in {"captured", "disputed"}
         /\ CanTransitionEscrow(s, "refunded") =>
              s \in {"pending", "authorized", "captured", "disputed"}
  BY DEF EscrowStatuses, CanTransitionEscrow, EscrowTransitions

LEMMA OpensMoney ==
  ASSUME TypeInv, MoneyInv, NEW r \in Requests, NEW b \in Bookings, Opens(r, b)
  PROVE  MoneyInv'
  \* Whatever is opened, except a resolution, relies on nothing yet.
  <1>1. ASSUME NEW q, Begin(r, q), q.on = b,
               NeedsAuthorization(q.op, q.at) => Authorized(b),
               NeedsCharge(q.op, q.at) => Charged(b)
        PROVE  MoneyInv'
    <2>1. UNCHANGED <<escrow, gateway, sweep>> /\ request' = [request EXCEPT ![r] = q]
      BY <1>1 DEF Begin, db
    <2>2. Authorized(b)' = Authorized(b) /\ Charged(b)' = Charged(b)
      BY <2>1 DEF Authorized, Charged
    <2> QED
      BY <1>1, <2>1, <2>2, MoneyByRequest, UnchangedGrows
      DEF NeedsAuthorization, NeedsCharge, Authorized, Charged
  <1>2. ASSUME NEW op \in Ops \ {"refund", "release"}, NEW actor, NEW step \in {"book", "insert"}
        PROVE  LET q == Having(op, actor, b, step)
               IN q.on = b /\ ~NeedsAuthorization(q.op, q.at) /\ ~NeedsCharge(q.op, q.at)
    BY <1>2 DEF Having, Idle, NeedsAuthorization, NeedsCharge, Ops
  <1>3. CASE AcceptBooking(r, b)
    BY <1>1, <1>2, <1>3 DEF AcceptBooking, Ops
  <1>4. CASE DeclineBooking(r, b)
    BY <1>1, <1>2, <1>4 DEF DeclineBooking, Ops
  <1>5. CASE StartSession(r, b)
    BY <1>1, <1>2, <1>5 DEF StartSession, Ops
  <1>6. ASSUME NEW side \in Sides, ConfirmEnd(r, b, side) PROVE MoneyInv'
    BY <1>1, <1>2, <1>6 DEF ConfirmEnd, Ops
  <1>7. CASE CancelBooking(r, b)
    <2>1. PICK fee : Begin(r, [Having("cancel", "family", b, "book") EXCEPT !.fee = fee])
      BY <1>7 DEF CancelBooking
    <2>2. PICK q : q = [Having("cancel", "family", b, "book") EXCEPT !.fee = fee]
      OBVIOUS
    <2>3. q.on = b /\ ~NeedsAuthorization(q.op, q.at) /\ ~NeedsCharge(q.op, q.at)
      BY <2>2 DEF Having, Idle, NeedsAuthorization, NeedsCharge
    <2> QED
      BY <1>1, <2>1, <2>2, <2>3
  <1>8. ASSUME NEW side \in Sides, RaiseDispute(r, b, side) PROVE MoneyInv'
    BY <1>1, <1>2, <1>8 DEF RaiseDispute, Ops
  <1>9. ASSUME NEW side \in Sides, LeaveReview(r, b, side) PROVE MoneyInv'
    BY <1>1, <1>2, <1>9 DEF LeaveReview, Ops
  \* An admin resolves only what is captured or frozen, or refunds what is held.
  <1>10. ASSUME NEW resolution \in {"release", "refund"}, ResolveDispute(r, b, resolution)
         PROVE  MoneyInv'
    <2>1. escrow[b] \in EscrowRows /\ EscrowFunded(b)
      BY DEF TypeInv, TypeOK, MoneyInv
    <2>2. /\ escrow[b].status # "none"
          /\ resolution = "release" => escrow[b].status \in {"captured", "disputed"}
      <3>1. /\ escrow[b].status \in EscrowStatuses
            /\ CanTransitionEscrow(escrow[b].status, Outcome(resolution))
        BY <1>10, <2>1 DEF ResolveDispute, EscrowRows
      <3> QED
        BY <1>10, <3>1, ResolvableEscrows DEF ResolveDispute, Outcome
    <2>3. Authorized(b) /\ (resolution = "release" => Charged(b))
      BY <2>1, <2>2 DEF EscrowFunded
    <2>4. PICK q : /\ Begin(r, q)
                   /\ q = [Having(resolution, "admin", b,
                                 IF resolution = "release" THEN "payout" ELSE "refund")
                          EXCEPT !.escrowSaw = escrow[b].status]
      BY <1>10 DEF ResolveDispute
    <2>5. q.on = b /\ q.op = resolution
      BY <2>4 DEF Having, Idle
    <2> QED
      BY <1>1, <2>3, <2>4, <2>5, <1>10 DEF NeedsAuthorization, NeedsCharge, Having, Idle
  <1> QED
    BY <1>3, <1>4, <1>5, <1>6, <1>7, <1>8, <1>9, <1>10 DEF Opens

LEMMA SweepsMoney ==
  ASSUME TypeInv, MoneyInv, NEW w \in Workers, Sweeps(w) \/ SweepFails(w)
  PROVE  MoneyInv'
  <1>1. CASE SweepRead(w)
    <2>1. \A b \in Due : Charged(b)
      BY DEF Due, MoneyInv, EscrowFunded
    <2>2. UNCHANGED <<escrow, gateway, request>>
      BY <1>1 DEF SweepRead, db
    <2>3. \A v \in Workers : SweepFunded(v)'
      BY <1>1, <2>1, <2>2, NoBookingAssumption
      DEF SweepRead, Resting, TypeInv, TypeOK, MoneyInv, SweepFunded, Charged
    <2> QED
      BY <2>2, <2>3 DEF MoneyInv, EscrowFunded, SlotFunded, Authorized, Charged, Paid
  <1>2. ASSUME NEW b \in Bookings, SweepPayout(w, b) PROVE MoneyInv'
    <2>1. Charged(b)
      BY <1>2 DEF SweepPayout, MoneyInv, SweepFunded
    <2>2. /\ LedgerGrows
          /\ \A c \in Bookings : Paid(c)' => Paid(c) \/ c = b
      BY <1>2, CalledGrows DEF SweepPayout
    <2>3. \A c \in Bookings : EscrowFunded(c)' /\ (Paid(c)' => Charged(c)')
      BY <1>2, <2>1, <2>2
      DEF SweepPayout, db, MoneyInv, EscrowFunded, LedgerGrows, Authorized, Charged
    <2>4. ASSUME NEW s \in Requests PROVE SlotFunded(request[s])'
      <3>1. request[s] = Idle \/ request[s].on \in Bookings
        BY DEF TypeInv, TypeOK, RunningRequests
      <3>2. request'[s] = request[s] /\ SlotFunded(request[s])
        BY <1>2 DEF SweepPayout, MoneyInv
      <3>3. CASE request[s] = Idle
        BY <3>2, <3>3 DEF SlotFunded, NeedsAuthorization, NeedsCharge, Idle
      <3>4. CASE request[s].on \in Bookings
        BY <2>2, <3>2, <3>4
        DEF SlotFunded, NeedsAuthorization, NeedsCharge, Authorized, Charged, LedgerGrows
      <3> QED
        BY <3>1, <3>3, <3>4
    <2>5. ASSUME NEW v \in Workers PROVE SweepFunded(v)'
      <3>1. sweep[v] \in [batch : SUBSET Bookings, paying : Bookings \cup {NoBooking}]
        BY DEF TypeInv, TypeOK
      <3>2. /\ sweep'[v].batch = sweep[v].batch
            /\ sweep'[v].paying \in {sweep[v].paying, b}
        BY <1>2, <3>1 DEF SweepPayout, TypeInv, TypeOK
      <3>3. SweepFunded(v) /\ \A c \in Bookings : Charged(c) => Charged(c)'
        BY <2>2 DEF MoneyInv, LedgerGrows, Charged
      <3> QED
        BY <2>1, <3>2, <3>3 DEF SweepFunded
    <2> QED
      BY <2>3, <2>4, <2>5 DEF MoneyInv
  <1>3. CASE SweepWrite(w)
    <2> DEFINE b == sweep[w].paying
    <2>1. b \in Bookings /\ UNCHANGED <<gateway, request>>
      BY <1>3 DEF SweepWrite
    <2>2. Charged(b) /\ EscrowFunded(b)
      BY <2>1 DEF MoneyInv, SweepFunded
    <2> HIDE DEF b
    <2>3. \A c \in Bookings : EscrowFunded(c)'
      <3>1. CASE UNCHANGED escrow
        BY <2>1, <3>1 DEF MoneyInv, EscrowFunded, Authorized, Charged
      <3>2. CASE escrow[b].status = "captured" /\ escrow' = [escrow EXCEPT ![b].status = "released"]
        BY <2>1, <2>2, <3>2
        DEF TypeInv, TypeOK, EscrowRows, MoneyInv, EscrowFunded, Authorized, Charged
      <3> QED
        BY <1>3, <3>1, <3>2 DEF SweepWrite, b
    <2>4. \A v \in Workers : SweepFunded(v)'
      BY <1>3, <2>1, NoBookingAssumption DEF SweepWrite, b, TypeInv, TypeOK, MoneyInv, SweepFunded, Charged
    <2> QED
      BY <2>1, <2>3, <2>4 DEF MoneyInv, SlotFunded, Authorized, Charged, Paid
  <1>4. CASE SweepFails(w)
    <2>1. \A v \in Workers : SweepFunded(v)'
      BY <1>4, NoBookingAssumption
      DEF SweepFails, db, Resting, TypeInv, TypeOK, MoneyInv, SweepFunded, Charged
    <2> QED
      BY <1>4, <2>1
      DEF SweepFails, db, MoneyInv, EscrowFunded, SlotFunded, Authorized, Charged, Paid
  <1> QED
    BY <1>1, <1>2, <1>3, <1>4 DEF Sweeps

LEMMA MoneyInvInit == Init => MoneyInv
  BY NoBookingAssumption
  DEF Init, NoEscrow, Resting, Idle, MoneyInv, EscrowFunded, SlotFunded, SweepFunded,
      NeedsAuthorization, NeedsCharge, Paid

LEMMA MoneyInvNext == TypeInv /\ MoneyInv /\ [Next]_vars => MoneyInv'
  <1> SUFFICES ASSUME TypeInv, MoneyInv, [Next]_vars
               PROVE  MoneyInv'
    OBVIOUS
  <1>1. ASSUME UNCHANGED <<gateway, request, sweep>>,
               \A b \in Bookings : escrow'[b].status = escrow[b].status
        PROVE  MoneyInv'
    BY <1>1 DEF MoneyInv, EscrowFunded, SlotFunded, SweepFunded, Authorized, Charged, Paid
  <1>2. ASSUME NEW b \in Bookings, RequestBooking(b) PROVE MoneyInv'
    BY <1>1, <1>2 DEF RequestBooking
  <1>3. ASSUME NEW b \in Bookings, WindowElapses(b) PROVE MoneyInv'
    <2>1. \A c \in Bookings : escrow'[c].status = escrow[c].status
      BY <1>3 DEF WindowElapses, TypeInv, TypeOK, EscrowRows
    <2> QED
      BY <1>1, <1>3, <2>1 DEF WindowElapses
  <1>4. ASSUME NEW r \in Requests, RequestFails(r) PROVE MoneyInv'
    BY <1>4, MoneyByReturn DEF RequestFails, db
  <1>5. CASE UNCHANGED vars
    BY <1>1, <1>5 DEF vars
  <1> QED
    BY <1>2, <1>3, <1>4, <1>5, OpensMoney, ProceedsMoney, SweepsMoney DEF Next

\* No interleaving of requests, sweeps and crashes pays a caregiver without the
\* family's charge having been taken in full, on any of the three payout paths.
THEOREM PaidOnlyFromChargeHolds == Spec => []PaidOnlyFromCharge
  <1>1. MoneyInv => PaidOnlyFromCharge
    BY DEF MoneyInv, PaidOnlyFromCharge, Paid, Charged
  <1>2. Init => TypeInv /\ MoneyInv
    BY TypeInvInit, MoneyInvInit
  <1>3. (TypeInv /\ MoneyInv) /\ [Next]_vars => (TypeInv /\ MoneyInv)'
    BY TypeInvNext, MoneyInvNext
  <1> QED
    BY <1>1, <1>2, <1>3, PTL DEF Spec

----------------------------------------------------------------------------
(* The implementation of PaymentContract.  The ledger the gateway holds is *)
(* the abstract one; every step of the system is one accepted call or      *)
(* leaves it alone.                                                        *)

\* An action that calls the gateway makes one of the calls the contract allows.
ContractCall(b) ==
  \/ Contract!Authorize(b) \/ Contract!Capture(b) \/ Contract!Refund(b) \/ Contract!Payout(b)

LEMMA ProceedsCalls ==
  ASSUME TypeInv, MoneyInv, NEW r \in Requests, Proceeds(r)
  PROVE  UNCHANGED gateway \/ \E b \in Bookings : ContractCall(b)
  <1> DEFINE q == request[r]
  <1> USE DEF At, Ops
  <1>1. PICK on : on = q.on
    OBVIOUS
  <1>2. q.op \in Ops => q \in RunningRequests /\ on \in Bookings
    BY <1>1, SlotTypes DEF TypeInv, RunningRequests
  <1>3. SlotFunded(q) /\ SlotOK(q)
    BY DEF MoneyInv, TypeInv, SlotsOK
  <1>0. FamilyPays \in 0..FamilyPays
    BY AmountsAssumption
  <1>4. CASE AuthorizeEscrowCall(r)
    <2>1. on \in Bookings /\ Called(on, <<"authorize", FamilyPays>>)
      BY <1>1, <1>2, <1>4 DEF AuthorizeEscrowCall, CallGateway
    <2>2. Contract!Authorize(on)
      BY <2>1 DEF Called, Contract!Authorize, Contract!Accepts
    <2> QED
      BY <2>1, <2>2 DEF ContractCall
  <1>5. CASE CaptureEscrowCall(r)
    <2>1. on \in Bookings /\ Authorized(on) /\ Called(on, <<"capture", FamilyPays>>)
      BY <1>1, <1>2, <1>3, <1>5
      DEF CaptureEscrowCall, CallGateway, SlotFunded, NeedsAuthorization
    <2>2. Contract!Capture(on)
      BY <1>0, <2>1, Zenon DEF Called, Authorized, Contract!Capture, Contract!Accepts
    <2> QED
      BY <2>1, <2>2 DEF ContractCall
  <1>6. CASE RefundEscrowFeeCall(r)
    <2>1. on \in Bookings /\ Authorized(on) /\ q.fee \in 0..FamilyPays
      BY <1>1, <1>2, <1>3, <1>6
      DEF RefundEscrowFeeCall, SlotFunded, NeedsAuthorization, SlotOK
    <2>2. CASE Called(on, <<"capture", q.fee>>)
      <3>1. Contract!Capture(on)
        BY <2>1, <2>2 DEF Called, Authorized, Contract!Capture, Contract!Accepts
      <3> QED
        BY <2>1, <3>1 DEF ContractCall
    <2> QED
      BY <1>1, <1>6, <2>2 DEF RefundEscrowFeeCall
  <1>7. CASE RefundEscrowRestCall(r)
    <2>1. on \in Bookings /\ Authorized(on) /\ FamilyPays - q.fee \in 0..FamilyPays
      BY <1>1, <1>2, <1>3, <1>7, AmountsAssumption
      DEF RefundEscrowRestCall, SlotFunded, NeedsAuthorization, SlotOK
    <2>2. CASE Called(on, <<"refund", FamilyPays - q.fee>>)
      <3>1. Contract!Refund(on)
        BY <2>1, <2>2 DEF Called, Authorized, Contract!Refund, Contract!Accepts
      <3> QED
        BY <2>1, <3>1 DEF ContractCall
    <2> QED
      BY <1>1, <1>7, <2>2 DEF RefundEscrowRestCall
  <1>8. CASE ReleaseEscrowCall(r)
    <2>1. on \in Bookings /\ Charged(on) /\ Called(on, <<"payout", CaregiverPayout>>)
      BY <1>1, <1>2, <1>3, <1>8 DEF ReleaseEscrowCall, CallGateway, SlotFunded, NeedsCharge
    <2>2. Contract!Payout(on)
      BY <2>1 DEF Called, Charged, Contract!Payout, Contract!Accepts
    <2> QED
      BY <2>1, <2>2 DEF ContractCall
  <1>9. CASE ResolveDisputeCall(r)
    <2>1. CASE At(r, "release", "payout") /\ Called(on, <<"payout", CaregiverPayout>>)
      <3>1. on \in Bookings /\ Charged(on)
        BY <1>1, <1>2, <1>3, <2>1 DEF SlotFunded, NeedsCharge
      <3>2. Contract!Payout(on)
        BY <2>1, <3>1 DEF Called, Charged, Contract!Payout, Contract!Accepts
      <3> QED
        BY <3>1, <3>2 DEF ContractCall
    <2>2. CASE At(r, "refund", "refund") /\ Called(on, <<"refund", FamilyPays>>)
      <3>1. on \in Bookings /\ Authorized(on)
        BY <1>1, <1>2, <1>3, <2>2 DEF SlotFunded, NeedsAuthorization
      <3>2. Contract!Refund(on)
        BY <1>0, <2>2, <3>1, Zenon
        DEF Called, Authorized, Contract!Refund, Contract!Accepts
      <3> QED
        BY <3>1, <3>2 DEF ContractCall
    <2> QED
      BY <1>1, <1>9, <2>1, <2>2 DEF ResolveDisputeCall, CallGateway
  \* The rest leave the ledger alone: first the booking transactions ...
  <1>10. CASE \/ AcceptBookingCommit(r) \/ DeclineBookingCommit(r) \/ StartSessionCommit(r)
              \/ ConfirmEndCommit(r) \/ CancelBookingCommit(r) \/ RaiseDisputeCommit(r)
    BY <1>10 DEF AcceptBookingCommit, DeclineBookingCommit, StartSessionCommit,
                 ConfirmEndCommit, CancelBookingCommit, RaiseDisputeCommit, UpdateStatus
  \* ... the reads ...
  <1>11. CASE \/ AuthorizeEscrowRead(r) \/ CaptureEscrowRead(r) \/ OpenDisputeWindowRead(r)
              \/ RefundEscrowRead(r) \/ HoldEscrowRead(r) \/ ReleaseEscrowRead(r)
              \/ InsertReview(r) \/ LeaveReviewCommit(r)
    BY <1>11 DEF AuthorizeEscrowRead, CaptureEscrowRead, OpenDisputeWindowRead,
                 RefundEscrowRead, HoldEscrowRead, ReleaseEscrowRead, ReadEscrow,
                 InsertReview, LeaveReviewCommit
  \* ... and the escrow transactions' writes.
  <1>12. CASE \/ AuthorizeEscrowWrite(r) \/ CaptureEscrowWrite(r) \/ OpenDisputeWindowWrite(r)
              \/ RefundEscrowWrite(r) \/ HoldEscrowWrite(r) \/ ReleaseEscrowWrite(r)
              \/ \E resolution \in {"release", "refund"} : ResolveDisputeCommit(r, resolution)
    BY <1>12 DEF AuthorizeEscrowWrite, CaptureEscrowWrite, OpenDisputeWindowWrite,
                 RefundEscrowWrite, HoldEscrowWrite, ReleaseEscrowWrite,
                 ResolveDisputeCommit, UpdateEscrow
  <1> QED
    BY <1>4, <1>5, <1>6, <1>7, <1>8, <1>9, <1>10, <1>11, <1>12 DEF Proceeds

LEMMA ContractStep ==
  TypeInv /\ MoneyInv /\ [Next]_vars => [Contract!Next]_gateway
  <1> SUFFICES ASSUME TypeInv, MoneyInv, [Next]_vars
               PROVE  UNCHANGED gateway \/ \E b \in Bookings : ContractCall(b)
    BY DEF ContractCall, Contract!Next
  <1>1. ASSUME NEW b \in Bookings, RequestBooking(b) \/ WindowElapses(b)
        PROVE  UNCHANGED gateway
    BY <1>1 DEF RequestBooking, WindowElapses
  <1>2. ASSUME NEW r \in Requests, NEW b \in Bookings, Opens(r, b)
        PROVE  UNCHANGED gateway
    BY <1>2 DEF Opens, AcceptBooking, DeclineBooking, StartSession, ConfirmEnd, CancelBooking,
                RaiseDispute, LeaveReview, ResolveDispute, Begin
  <1>3. ASSUME NEW r \in Requests, RequestFails(r)
        PROVE  UNCHANGED gateway
    BY <1>3 DEF RequestFails
  <1>4. ASSUME NEW w \in Workers, NEW b \in Bookings, SweepPayout(w, b)
        PROVE  ContractCall(b)
    <2>1. Charged(b) /\ Called(b, <<"payout", CaregiverPayout>>)
      BY <1>4 DEF SweepPayout, MoneyInv, SweepFunded
    <2> QED
      BY <2>1 DEF ContractCall, Called, Charged, Contract!Payout, Contract!Accepts
  <1>5. ASSUME NEW w \in Workers, SweepRead(w) \/ SweepWrite(w) \/ SweepFails(w)
        PROVE  UNCHANGED gateway
    BY <1>5 DEF SweepRead, SweepWrite, SweepFails
  <1>6. CASE UNCHANGED vars
    BY <1>6 DEF vars
  <1> QED
    BY <1>1, <1>2, <1>3, <1>4, <1>5, <1>6, ProceedsCalls DEF Next, Sweeps

\* The system implements PaymentContract: whatever interleaves or crashes, the
\* gateway never captures or refunds without a pre-authorization, never captures
\* or refunds more than the family owes, and never pays out of an untaken charge.
THEOREM GatewayContractHolds == Spec => GatewayContract
  <1>1. Init => Contract!Init
    BY DEF Init, Contract!Init
  <1>2. Init => TypeInv /\ MoneyInv
    BY TypeInvInit, MoneyInvInit
  <1>3. (TypeInv /\ MoneyInv) /\ [Next]_vars => (TypeInv /\ MoneyInv)'
    BY TypeInvNext, MoneyInvNext
  <1> QED
    BY <1>1, <1>2, <1>3, ContractStep, PTL DEF Spec, GatewayContract, Contract!Spec

----------------------------------------------------------------------------
(* The caregiver's time.  Only the exclusion constraint in UpdateBooking    *)
(* looks at other bookings, so it alone has to keep them apart.            *)

LEMMA PairComm == \A b, c : {b, c} = {c, b}
  OBVIOUS

\* Writing one row keeps bookings apart if it is inactive or fits.
LEMMA OneRowFits ==
  ASSUME TypeInv, NoDoubleBooking, NEW b \in Bookings, NEW new,
         booking' = [booking EXCEPT ![b] = new],
         new.status \in Active => Available(b)
  PROVE  NoDoubleBooking'
  <1> SUFFICES ASSUME NEW c \in Bookings, NEW d \in Bookings, c # d, {c, d} \in Clashes,
                      booking'[c].status \in Active, booking'[d].status \in Active
               PROVE  FALSE
    BY DEF NoDoubleBooking
  <1>1. \A e \in Bookings : booking'[e] = IF e = b THEN new ELSE booking[e]
    BY DEF TypeInv, TypeOK
  <1>2. CASE c = b
    BY <1>1, <1>2 DEF Available
  <1>3. CASE d = b
    BY <1>1, <1>3, PairComm DEF Available
  <1>4. CASE c # b /\ d # b
    BY <1>1, <1>4 DEF NoDoubleBooking
  <1> QED
    BY <1>2, <1>3, <1>4

LEMMA ProceedsFits ==
  ASSUME TypeInv, NoDoubleBooking, NEW r \in Requests, Proceeds(r)
  PROVE  NoDoubleBooking'
  <1> USE DEF At, Ops
  <1>1. request[r].op \in Ops => request[r].on \in Bookings
    BY SlotTypes DEF TypeInv, RunningRequests
  <1>2. ASSUME NEW new, NEW goOn, UpdateBooking(r, new, goOn), request[r].op \in Ops
        PROVE  NoDoubleBooking'
    <2>1. CASE UNCHANGED booking
      BY <2>1 DEF NoDoubleBooking
    <2>2. CASE /\ new.status \in Active => Available(request[r].on)
               /\ booking' = [booking EXCEPT ![request[r].on] = new]
      BY <1>1, <1>2, <2>2, OneRowFits
    <2> QED
      BY <1>2, <2>1, <2>2 DEF UpdateBooking
  <1>3. CASE \/ AcceptBookingCommit(r) \/ DeclineBookingCommit(r) \/ StartSessionCommit(r)
             \/ ConfirmEndCommit(r) \/ CancelBookingCommit(r) \/ RaiseDisputeCommit(r)
    BY <1>2, <1>3 DEF AcceptBookingCommit, DeclineBookingCommit, StartSessionCommit,
                      ConfirmEndCommit, CancelBookingCommit, RaiseDisputeCommit, UpdateStatus
  <1>4. ASSUME NEW resolution \in {"release", "refund"}, ResolveDisputeCommit(r, resolution)
        PROVE  NoDoubleBooking'
    <2>1. PICK care \in {"completed", "cancelled"} :
            booking' = [booking EXCEPT ![request[r].on].status = care]
      BY <1>4 DEF ResolveDisputeCommit
    <2>2. PICK b \in Bookings : b = request[r].on
      BY <1>1, <1>4 DEF ResolveDisputeCommit
    <2>3. PICK new : new = [booking[b] EXCEPT !.status = care]
      OBVIOUS
    <2>4. new.status \notin Active
      BY <2>3 DEF TypeInv, TypeOK, BookingRows, Active
    <2> QED
      BY <2>1, <2>2, <2>3, <2>4, OneRowFits
  \* The other steps do not write bookings.
  <1>5. CASE \/ AuthorizeEscrowRead(r) \/ CaptureEscrowRead(r) \/ OpenDisputeWindowRead(r)
             \/ RefundEscrowRead(r) \/ HoldEscrowRead(r) \/ ReleaseEscrowRead(r)
             \/ InsertReview(r) \/ LeaveReviewCommit(r)
    BY <1>5 DEF AuthorizeEscrowRead, CaptureEscrowRead, OpenDisputeWindowRead,
                RefundEscrowRead, HoldEscrowRead, ReleaseEscrowRead, ReadEscrow,
                InsertReview, LeaveReviewCommit, db, NoDoubleBooking
  <1>6. CASE \/ AuthorizeEscrowCall(r) \/ CaptureEscrowCall(r) \/ RefundEscrowFeeCall(r)
             \/ RefundEscrowRestCall(r) \/ ReleaseEscrowCall(r) \/ ResolveDisputeCall(r)
    BY <1>6 DEF AuthorizeEscrowCall, CaptureEscrowCall, RefundEscrowFeeCall,
                RefundEscrowRestCall, ReleaseEscrowCall, ResolveDisputeCall, CallGateway,
                db, NoDoubleBooking
  <1>7. CASE \/ AuthorizeEscrowWrite(r) \/ CaptureEscrowWrite(r) \/ OpenDisputeWindowWrite(r)
             \/ RefundEscrowWrite(r) \/ HoldEscrowWrite(r) \/ ReleaseEscrowWrite(r)
    BY <1>7 DEF AuthorizeEscrowWrite, CaptureEscrowWrite, OpenDisputeWindowWrite,
                RefundEscrowWrite, HoldEscrowWrite, ReleaseEscrowWrite, UpdateEscrow,
                db, NoDoubleBooking
  <1> QED
    BY <1>3, <1>4, <1>5, <1>6, <1>7 DEF Proceeds

LEMMA NoDoubleBookingNext ==
  TypeInv /\ NoDoubleBooking /\ [Next]_vars => NoDoubleBooking'
  <1> SUFFICES ASSUME TypeInv, NoDoubleBooking, [Next]_vars
               PROVE  NoDoubleBooking'
    OBVIOUS
  <1>1. ASSUME NEW b \in Bookings, RequestBooking(b) PROVE NoDoubleBooking'
    <2>1. PICK new : new = [booking[b] EXCEPT !.status = "requested"]
      OBVIOUS
    <2>2. new.status \notin Active
      BY <2>1 DEF TypeInv, TypeOK, BookingRows, Active
    <2> QED
      BY <1>1, <2>1, <2>2, OneRowFits DEF RequestBooking
  <1>2. CASE UNCHANGED booking
    BY <1>2 DEF NoDoubleBooking
  <1>3. ASSUME NEW b \in Bookings, WindowElapses(b) PROVE UNCHANGED booking
    BY <1>3 DEF WindowElapses
  <1>4. ASSUME NEW r \in Requests, NEW b \in Bookings, Opens(r, b) PROVE UNCHANGED booking
    BY <1>4 DEF Opens, AcceptBooking, DeclineBooking, StartSession, ConfirmEnd, CancelBooking,
                RaiseDispute, LeaveReview, ResolveDispute, Begin, db
  <1>5. ASSUME NEW r \in Requests, RequestFails(r) PROVE UNCHANGED booking
    BY <1>5 DEF RequestFails, db
  <1>6. ASSUME NEW w \in Workers, Sweeps(w) \/ SweepFails(w) PROVE UNCHANGED booking
    BY <1>6 DEF Sweeps, SweepRead, SweepPayout, SweepWrite, SweepFails, db
  <1>7. CASE UNCHANGED vars
    BY <1>2, <1>7 DEF vars
  <1> QED
    BY <1>1, <1>2, <1>3, <1>4, <1>5, <1>6, <1>7, ProceedsFits DEF Next

\* A caregiver never holds two overlapping confirmed or running bookings, however
\* many accepts, starts and confirmations are in flight: the check of an accept is
\* stale when it commits and the others make none, but every commit is constrained.
THEOREM NoDoubleBookingHolds == Spec => []NoDoubleBooking
  <1>1. Init => TypeInv /\ NoDoubleBooking
    BY TypeInvInit DEF Init, NoRow, NoDoubleBooking, Active
  <1>2. (TypeInv /\ NoDoubleBooking) /\ [Next]_vars => (TypeInv /\ NoDoubleBooking)'
    BY TypeInvNext, NoDoubleBookingNext
  <1> QED
    BY <1>1, <1>2, PTL DEF Spec
============================================================================
