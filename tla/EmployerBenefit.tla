-------------------------- MODULE EmployerBenefit --------------------------
(***************************************************************************)
(* What an employer pays of its employees' bookings.                       *)
(*                                                                         *)
(* A request of a family whose enrolment is linked to its user is tagged   *)
(* with the employer.  No code links one: see LinkByHand.  When the        *)
(* caregiver accepts, a second transaction reads the caregiver's rate and  *)
(* what is left of the month's benefit, and then inserts the escrow and    *)
(* adds the subsidy to the employer's running total.  Between its reads    *)
(* and its insert any other transaction may commit.  On the first of each  *)
(* month a job invoices the subsidies of the month before, in two          *)
(* statements per employer.  The steps of a booking's status and its       *)
(* money are those of BookingEscrow; only what moves a subsidy is here.    *)
(***************************************************************************)
EXTENDS EscrowAmounts, FiniteSets, Functions

CONSTANTS
  Employers,    \* employer accounts
  Families,     \* families
  Bookings,     \* bookings that may be made
  FamilyOf,     \* the family that asks for each booking
  MonthOf,      \* the month each booking's care starts in
  Minutes,      \* how long each booking lasts
  Rates,        \* the rates the caregiver may ask: [per, amount]
  Policy,       \* the caregiver's cancellation policy: [freeHours, feePercent]
  Benefits,     \* the monthly benefits an employee may be enrolled with
  LastMonth,    \* bound: the clock stops one month after this one
  MaxEnrolled,  \* bound: enrolments there may be
  NoEmployer    \* employerAccountId is null

ASSUME CalendarAssumption ==
  /\ LastMonth \in Nat
  /\ MonthOf \in [Bookings -> 1..LastMonth]
  /\ Minutes \in [Bookings -> Nat]
  /\ FamilyOf \in [Bookings -> Families]

ASSUME BookingsAssumption == IsFiniteSet(Bookings)

ASSUME MoneyAssumption ==
  /\ Rates \subseteq [per : {"hour", "day", "none"}, amount : Nat]
  /\ Policy \in [freeHours : Nat, feePercent : Int]
  /\ Benefits \subseteq Nat

ASSUME NoEmployerAssumption == NoEmployer \notin Employers

VARIABLES
  enrolled,     \* enrolled_employees: each row, linked to the family's user or not
  used,         \* employer_accounts.total_budget_used of each employer
  rate,         \* caregiver_profiles: the rate asked today
  booking,      \* bookings: [status, employer] of each id
  escrow,       \* escrows: the amounts and status of each booking's escrow
  accept,       \* the authorization in flight for each booking
  month,        \* the month of the clock
  invoice,      \* employer_invoices: one per employer and month
  sweep,        \* the employer.invoice job
  overlapped    \* history: families two of whose authorizations overlapped

vars == <<enrolled, used, rate, booking, escrow, accept, month, invoice, sweep, overlapped>>

----------------------------------------------------------------------------
Enrolments ==
  [employer : Employers, family : Families, benefit : Benefits, linked : BOOLEAN]

NoEscrow == [status |-> "none"]

Amounts ==
  [gross : Nat, familyFee : Nat, caregiverFee : Nat, caregiverPayout : Nat,
   subsidy : Nat, familyPays : Nat]

Escrows ==
  [amounts : Amounts, status : {"authorized", "refunded"}, fee : Nat,
   authorizedIn : 1..(LastMonth + 1)]

NotAccepting == [at |-> "rest"]
Accepting == [at : {"read"}] \cup [at : {"insert"}, amounts : Amounts]

NoInvoice == [status |-> "none"]
Invoices == [status : {"issued"}, total : Int, bookingCount : Int]

Asleep == [at |-> "asleep"]
Sweeping ==
  [at : {"next"}, of : 1..LastMonth, left : SUBSET Employers]
    \cup [at : {"insert"}, of : 1..LastMonth, left : SUBSET Employers,
          account : Employers, total : Int, bookingCount : Int]

TypeOK ==
  /\ enrolled \subseteq Enrolments
  /\ used \in [Employers -> Nat]
  /\ rate \in Rates
  /\ booking \in [Bookings -> [status : {"none", "requested", "confirmed", "cancelled"},
                               employer : Employers \cup {NoEmployer}]]
  /\ escrow \in [Bookings -> Escrows \cup {NoEscrow}]
  /\ accept \in [Bookings -> Accepting \cup {NotAccepting}]
  /\ month \in 1..(LastMonth + 1)
  /\ invoice \in [Employers \X (1..LastMonth) -> Invoices \cup {NoInvoice}]
  /\ sweep \in Sweeping \cup {Asleep}
  /\ overlapped \subseteq Families

Init ==
  /\ enrolled = {}
  /\ used = [e \in Employers |-> 0]
  /\ rate \in Rates
  /\ booking = [b \in Bookings |-> [status |-> "none", employer |-> NoEmployer]]
  /\ escrow = [b \in Bookings |-> NoEscrow]
  /\ accept = [b \in Bookings |-> NotAccepting]
  /\ month = 1
  /\ invoice = [p \in Employers \X (1..LastMonth) |-> NoInvoice]
  /\ sweep = Asleep
  /\ overlapped = {}

----------------------------------------------------------------------------
(* Reads.                                                                  *)

Subsidy(b) == IF escrow[b] = NoEscrow THEN 0 ELSE escrow[b].amounts.subsidy

SubsidyOf(chosen) == SumFunctionOnSet([b \in Bookings |-> Subsidy(b)], chosen)

\* The bookings an employer pays a part of, in a month.  Whatever became of
\* the escrow, a refund included, its subsidy counts.
PaidFor(e, m) ==
  {b \in Bookings : booking[b].employer = e /\ MonthOf[b] = m /\ escrow[b] # NoEscrow}

\* What a family used of its benefit in the month of b.
UsedBenefit(b) ==
  SubsidyOf({c \in PaidFor(booking[b].employer, MonthOf[b]) : FamilyOf[c] = FamilyOf[b]})

Linked == {n \in enrolled : n.linked}

\* The active enrolments of the family of b with the employer b is tagged with.
\* enrolled_employees has no UPDATE policy: no row is ever deactivated.
EnrolmentsFor(b) ==
  {n \in Linked : n.employer = booking[b].employer /\ n.family = FamilyOf[b]}

RemainingBenefit(n, b) == Greater(0, n.benefit - UsedBenefit(b))

\* The code takes the first enrolment the database returns: any of them.
ResolveSubsidies(b, familyGross) ==
  IF EnrolmentsFor(b) = {} THEN {0}
  ELSE {CapSubsidy(RemainingBenefit(n, b), RemainingBenefit(n, b), familyGross) :
          n \in EnrolmentsFor(b)}

GrossForBooking(b) == BookingAmount(rate, Minutes[b])

----------------------------------------------------------------------------
(* Enrolment, the rate and the booking.                                    *)

\* enrollEmployee: an employer enrols an e-mail once (two tabs at once are the
\* concern of EmployerAccounts).  The insert leaves user_id null, whether or not a
\* family has signed up with that e-mail.
Enroll(n) ==
  /\ Cardinality(enrolled) < MaxEnrolled
  /\ ~ n.linked
  /\ \A k \in enrolled : k.employer # n.employer \/ k.family # n.family
  /\ enrolled' = enrolled \cup {n}
  /\ UNCHANGED <<used, rate, booking, escrow, accept, month, invoice, sweep, overlapped>>

\* The bookings read user_id and nothing in the repository writes it, so a row is
\* linked in the database by hand, at any moment, or never.
LinkByHand(n) ==
  /\ n \in enrolled /\ ~ n.linked
  /\ enrolled' = (enrolled \ {n}) \cup {[n EXCEPT !.linked = TRUE]}
  /\ UNCHANGED <<used, rate, booking, escrow, accept, month, invoice, sweep, overlapped>>

\* updateCaregiverProfile: the rate may change while a request waits.
ChangeRate ==
  /\ rate' \in Rates \ {rate}
  /\ UNCHANGED <<enrolled, used, booking, escrow, accept, month, invoice, sweep, overlapped>>

\* requestBooking tags the booking with the employer of any linked enrolment.
RequestBooking(b) ==
  /\ booking[b].status = "none"
  /\ month <= MonthOf[b]
  /\ LET employers == {n.employer : n \in {k \in Linked : k.family = FamilyOf[b]}}
     IN  \E e \in IF employers = {} THEN {NoEmployer} ELSE employers :
           booking' = [booking EXCEPT ![b] = [status |-> "requested", employer |-> e]]
  /\ UNCHANGED <<enrolled, used, rate, escrow, accept, month, invoice, sweep, overlapped>>

\* acceptBooking commits the status; the authorization is its next step.
AcceptBooking(b) ==
  /\ booking[b].status = "requested"
  /\ month <= MonthOf[b]
  /\ booking' = [booking EXCEPT ![b].status = "confirmed"]
  /\ accept' = [accept EXCEPT ![b] = [at |-> "read"]]
  /\ UNCHANGED <<enrolled, used, rate, escrow, month, invoice, sweep, overlapped>>

\* Authorizations of one family in flight between their reads and their insert.
InFlightWith(b) ==
  {c \in Bookings \ {b} : accept[c].at = "insert" /\ FamilyOf[c] = FamilyOf[b]}

\* A bug: the month's benefit is handed out whole for every booking.
AuthorizeEscrowReadWhole(b) ==
  /\ accept[b].at = "read"
  /\ escrow[b] = NoEscrow
  /\ \E n \in EnrolmentsFor(b) :
       accept' = [accept EXCEPT ![b] =
         [at |-> "insert",
          amounts |-> EscrowSplit(GrossForBooking(b),
            CapSubsidy(n.benefit, n.benefit, FamilyGross(GrossForBooking(b))))]]
  /\ overlapped' = IF InFlightWith(b) = {} THEN overlapped ELSE overlapped \cup {FamilyOf[b]}
  /\ UNCHANGED <<enrolled, used, rate, booking, escrow, month, invoice, sweep>>

\* A bug: the benefit is granted with neither cap nor check.
AuthorizeEscrowReadUncapped(b) ==
  /\ accept[b].at = "read"
  /\ escrow[b] = NoEscrow
  /\ \E n \in EnrolmentsFor(b) :
       accept' = [accept EXCEPT ![b] =
         [at |-> "insert", amounts |-> EscrowSplit(GrossForBooking(b), RemainingBenefit(n, b))]]
  /\ UNCHANGED <<enrolled, used, rate, booking, escrow, month, invoice, sweep, overlapped>>

\* authorizeEscrowForBooking up to the gateway call.
AuthorizeEscrowRead(b) ==
  /\ accept[b].at = "read"
  /\ escrow[b] = NoEscrow
  /\ \E subsidy \in ResolveSubsidies(b, FamilyGross(GrossForBooking(b))) :
       /\ SplitAccepts(GrossForBooking(b), subsidy)
       /\ accept' = [accept EXCEPT
            ![b] = [at |-> "insert", amounts |-> EscrowSplit(GrossForBooking(b), subsidy)]]
  /\ overlapped' = IF InFlightWith(b) = {} THEN overlapped ELSE overlapped \cup {FamilyOf[b]}
  /\ UNCHANGED <<enrolled, used, rate, booking, escrow, month, invoice, sweep>>

\* A bug: the new total is computed from the one read before the insert, so
\* one of two increments in flight together is lost; here, every second one.
AuthorizeEscrowWriteOnce(b) ==
  /\ accept[b].at = "insert"
  /\ escrow[b] = NoEscrow
  /\ escrow' = [escrow EXCEPT ![b] =
       [amounts |-> accept[b].amounts, status |-> "authorized", fee |-> 0,
        authorizedIn |-> month]]
  /\ used' = IF booking[b].employer = NoEmployer \/ FamilyOf[b] \in overlapped THEN used
             ELSE [used EXCEPT ![booking[b].employer] = @ + accept[b].amounts.subsidy]
  /\ accept' = [accept EXCEPT ![b] = NotAccepting]
  /\ UNCHANGED <<enrolled, rate, booking, month, invoice, sweep, overlapped>>

\* The insert, and in the same transaction the increment of the running total.
AuthorizeEscrowWrite(b) ==
  /\ accept[b].at = "insert"
  /\ escrow[b] = NoEscrow
  /\ escrow' = [escrow EXCEPT ![b] =
       [amounts |-> accept[b].amounts, status |-> "authorized", fee |-> 0,
        authorizedIn |-> month]]
  /\ used' = IF booking[b].employer = NoEmployer THEN used
             ELSE [used EXCEPT ![booking[b].employer] = @ + accept[b].amounts.subsidy]
  /\ accept' = [accept EXCEPT ![b] = NotAccepting]
  /\ UNCHANGED <<enrolled, rate, booking, month, invoice, sweep, overlapped>>

\* The server stops, or the gateway throws: the transaction rolls back, and
\* nothing authorizes this booking again.
AuthorizeFails(b) ==
  /\ accept[b] # NotAccepting
  /\ accept' = [accept EXCEPT ![b] = NotAccepting]
  /\ UNCHANGED <<enrolled, used, rate, booking, escrow, month, invoice, sweep, overlapped>>

\* A bug: the amounts of the refund are split again at today's rate.
CancelBookingResplit(b, minutesBefore) ==
  /\ booking[b].status \in {"requested", "confirmed"}
  /\ booking' = [booking EXCEPT ![b].status = "cancelled"]
  /\ escrow' = IF escrow[b] = NoEscrow THEN escrow
               ELSE [escrow EXCEPT ![b].status = "refunded",
                      ![b].amounts = EscrowSplit(GrossForBooking(b), @.subsidy)]
  /\ UNCHANGED <<enrolled, used, rate, accept, month, invoice, sweep, overlapped>>

\* cancelBooking and its refund.  The fee comes from today's rate, never more
\* than the family pays; the subsidy and the employer's total stay as they are.
CancelBooking(b, minutesBefore) ==
  /\ booking[b].status \in {"requested", "confirmed"}
  /\ booking' = [booking EXCEPT ![b].status = "cancelled"]
  /\ escrow' =
       IF escrow[b] = NoEscrow THEN escrow
       ELSE [escrow EXCEPT
              ![b].status = "refunded",
              ![b].fee = Lesser(CancellationFee(Policy, GrossForBooking(b), minutesBefore),
                                escrow[b].amounts.familyPays)]
  /\ UNCHANGED <<enrolled, used, rate, accept, month, invoice, sweep, overlapped>>

----------------------------------------------------------------------------
(* The invoices.                                                           *)

MonthPasses ==
  /\ month <= LastMonth
  /\ month' = month + 1
  /\ UNCHANGED <<enrolled, used, rate, booking, escrow, accept, invoice, sweep, overlapped>>

\* A bug: the job invoices the month it runs in.
SweepStartsEarly ==
  /\ sweep = Asleep /\ month <= LastMonth
  /\ sweep' = [at |-> "next", of |-> month, left |-> Employers]
  /\ UNCHANGED <<enrolled, used, rate, booking, escrow, accept, month, invoice, overlapped>>

\* The job looks at the month before the one it starts in.
SweepStarts ==
  /\ sweep = Asleep /\ month > 1
  /\ sweep' = [at |-> "next", of |-> month - 1, left |-> Employers]
  /\ UNCHANGED <<enrolled, used, rate, booking, escrow, accept, month, invoice, overlapped>>

SweepRead(e) ==
  /\ sweep.at = "next" /\ e \in sweep.left
  /\ LET rows == PaidFor(e, sweep.of)
         left == sweep.left \ {e}
     IN  sweep' = IF SubsidyOf(rows) <= 0
                  THEN [at |-> "next", of |-> sweep.of, left |-> left]
                  ELSE [at |-> "insert", of |-> sweep.of, left |-> left, account |-> e,
                        total |-> SubsidyOf(rows), bookingCount |-> Cardinality(rows)]
  /\ UNCHANGED <<enrolled, used, rate, booking, escrow, accept, month, invoice, overlapped>>

\* The insert does nothing when the month's invoice is already there.
SweepInsert ==
  /\ sweep.at = "insert"
  /\ LET period == <<sweep.account, sweep.of>>
     IN  invoice' = IF invoice[period] # NoInvoice THEN invoice
                    ELSE [invoice EXCEPT ![period] =
                           [status |-> "issued", total |-> sweep.total,
                            bookingCount |-> sweep.bookingCount]]
  /\ sweep' = [at |-> "next", of |-> sweep.of, left |-> sweep.left]
  /\ UNCHANGED <<enrolled, used, rate, booking, escrow, accept, month, overlapped>>

\* The run is over, or the worker stops in the middle of it.
SweepEnds ==
  /\ sweep # Asleep
  /\ sweep' = Asleep
  /\ UNCHANGED <<enrolled, used, rate, booking, escrow, accept, month, invoice, overlapped>>

Next ==
  \/ \E n \in Enrolments : Enroll(n) \/ LinkByHand(n)
  \/ ChangeRate
  \/ \E b \in Bookings :
       \/ RequestBooking(b) \/ AcceptBooking(b)
       \/ AuthorizeEscrowRead(b) \/ AuthorizeEscrowWrite(b) \/ AuthorizeFails(b)
       \/ \E minutesBefore \in {0, 60 * Policy.freeHours} : CancelBooking(b, minutesBefore)
  \/ MonthPasses
  \/ SweepStarts \/ (\E e \in Employers : SweepRead(e)) \/ SweepInsert \/ SweepEnds

Spec == Init /\ [][Next]_vars

----------------------------------------------------------------------------
(* Properties.                                                             *)

\* Of every escrow: what the family and the employer put in is exactly what
\* the caregiver and the platform take out, and nobody's part is negative,
\* whatever the rate, the benefit left and the rounding of the two fees.
SplitAddsUp ==
  \A b \in Bookings : escrow[b] # NoEscrow =>
    LET a == escrow[b].amounts
    IN  /\ a.familyPays + a.subsidy = a.caregiverPayout + a.familyFee + a.caregiverFee
        /\ a.familyPays >= 0 /\ a.caregiverPayout >= 0 /\ escrow[b].fee <= a.familyPays

\* The employer's running total is the sum of the subsidies of all its
\* bookings, with authorizations in flight together and some of them failing.
BudgetIsTotal ==
  \A e \in Employers :
    used[e] = SubsidyOf(UNION {PaidFor(e, m) : m \in 1..LastMonth})

MonthOfFamily(e, f, m) == {b \in PaidFor(e, m) : FamilyOf[b] = f}

\* "The active enrolled employee's remaining monthly benefit": a family whose
\* authorizations never overlapped is never paid more than the largest of its
\* enrolments with that employer grants for the month.
BenefitKeptInTurn ==
  \A e \in Employers, f \in Families \ overlapped, m \in 1..LastMonth :
    MonthOfFamily(e, f, m) # {} =>
      \/ SubsidyOf(MonthOfFamily(e, f, m)) = 0
      \/ \E n \in enrolled : /\ n.employer = e /\ n.family = f
                             /\ SubsidyOf(MonthOfFamily(e, f, m)) <= n.benefit

\* "If this family's user is an active enrolled employee, tag the booking with
\* their employer": a request of a family that is enrolled carries an employer.
EnrolledAreTagged ==
  [][\A b \in Bookings :
       /\ booking[b].status = "none" /\ booking'[b].status = "requested"
       /\ \E n \in enrolled : n.family = FamilyOf[b]
       => booking'[b].employer # NoEmployer]_vars

\* An invoice counts every subsidy of its month that was authorized before the
\* month was over, and none of another month.
InvoiceCoversMonth ==
  \A e \in Employers, m \in 1..LastMonth : invoice[<<e, m>>] # NoInvoice =>
    LET inTime == {b \in PaidFor(e, m) : escrow[b].authorizedIn <= m}
    IN  invoice[<<e, m>>].total \in SubsidyOf(inTime)..SubsidyOf(PaidFor(e, m))

\* What was agreed stays agreed: a change of the rate, a cancellation, a second
\* accept or the invoice job never changes the amounts of an escrow, nor an
\* invoice that was issued.
SettledStaysSettled ==
  [][/\ \A b \in Bookings : escrow[b] # NoEscrow =>
          escrow'[b] # NoEscrow /\ escrow'[b].amounts = escrow[b].amounts
     /\ \A p \in DOMAIN invoice : invoice[p] # NoInvoice => invoice'[p] = invoice[p]]_vars

============================================================================
