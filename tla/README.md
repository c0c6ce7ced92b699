# Riaya: TLA+ models and proofs

Riaya is a marketplace for child and elder care: families book caregivers, the
family's payment is held in escrow until the care is done, employers may
subsidise the care. This directory holds TLA+ models of its core logic, the TLC
configurations that check them on small instances, and theorems about them with
proofs for every instance. Sources are cited relative to the repository root
(`src/` in the mappings is that root).

## 1. The system and its parts

A Next.js application (`apps/web`) runs server actions; a worker (`apps/worker`)
runs scheduled jobs; both talk to one PostgreSQL database. Each server action is
one transaction (`withUserContext`, `packages/db/src/rls.ts`), often followed by
a second one with system rights (`withSystem`) for the money. Nothing is locked
explicitly and the isolation level is PostgreSQL's default, READ COMMITTED.

| Part | State it keeps | Operations | What makes it correct | Here |
|---|---|---|---|---|
| Booking state machine (`packages/booking/src/state-machine.ts`) | none: two tables | `canTransition`, `assertTransition`, `actorCanTransition` | transitions are the lifecycle's; actors are the permitted ones | `StateMachines` |
| Escrow state machine (`packages/payments/src/state-machine.ts`) | none: a table | `canTransitionEscrow`, `assertEscrowTransition` | `released` and `refunded` are terminal | `StateMachines` |
| Family and caregiver booking actions (`.../bookings/actions.ts`, twice) | `bookings` rows, `audit_logs` | request, accept, decline, start, confirm end, cancel, dispute, review | the lifecycle is followed by the right party; no double booking; each change is on record | `BookingEscrow` |
| `confirmSessionEnd` (`lib/booking-shared.ts`) | the two `*EndedAt` columns | first and second confirmation | completed exactly when both confirmed | `BookingEscrow` |
| Escrow service (`lib/escrow-service.ts`) | `escrows` rows | authorize, capture, open window, release, refund, hold | money never leads the care; what the row says is what the gateway did | `BookingEscrow` |
| Payment gateway (`payments/src/gateway.ts`) | calls accepted, by reference | authorize, capture, refund, payout | idempotent by reference; only in a sane order | `PaymentContract`, `gateway` |
| Review service (`lib/review-service.ts`) | `reviews`, caregiver's average | submit, both-reviewed test, release, recompute the rating | one review a side; two reviews release the money; the rating is that of the reviews | `BookingEscrow`, `Ratings`, `Notices` |
| Admin resolution (`(admin)/admin/actions.ts`) | booking and escrow rows together | `resolveDispute`, `reviewDocument` | pays or refunds only what is held; does not starve the pool | `BookingEscrow`, `ConnectionPool`, `Verification`, `Notices` |
| Escrow sweep (`worker/src/escrow-sweep.ts`) | its list in memory | due query, payout, guarded update | every elapsed window is settled; never pays early | `BookingEscrow`, `Notices` |
| Escrow amounts, money, pricing, cancellation fee (`payments`, `booking`) | none | arithmetic in centimes | parts add up, caps and rounding at the edges | `EscrowAmounts` |
| Employer benefit and invoices (`escrow-service.ts`, `worker/src/employer-invoices.ts`) | `budgetUsed`, subsidies, invoices | subsidy at accept, monthly invoice | benefit not exceeded; totals and invoices match what was subsidised | `EmployerBenefit` |
| Employer account page (`(employer)/employer/account`) | account, enrolments | create, set budget, enrol, deactivate | an e-mail enrolled once; a switch that switches | `EmployerAccounts` |
| Verification levels and documents (`packages/verification` with its `storage.ts`, `lib/verification-service.ts`) | documents, objects, level, access log | upload, decide, recompute, signed URL | the level is earned; every look is logged | `Levels`, `Verification` |
| Notifications, mails, reminder sweep (`lib/notification-service.ts`, `lib/booking-events.ts`, `lib/email-service.ts`, `worker/src/reminders.ts`) | `notifications`, `reminderSentAt` | tell of transitions, disputes and payments; remind | told once, and what the mail says is in the inbox | `Notices` |
| Sign-up, sign-in, login rate limit (`auth.ts`, `lib/rate-limit.ts`, `auth/actions.ts`) | users, in-memory buckets | check, record, clear, provision | guesses are bounded, lockouts end | `SignIn` |
| Connection pool (`packages/db/src/client.ts`, max 10) | connections | one acquisition an action, two in `resolveDispute` | somebody can always go on | `ConnectionPool` |
| Availability calendar (`(caregiver)/caregiver/availability`, `booking/src/availability.ts`) | weekly rows and date overrides | edit, delete and re-insert, read back | what was saved last is published | `CaregiverCalendar` |
| Family profile (`(family)/family/profile`) | children in one column | create, add, edit, remove | no edit lost, at most ten | `FamilyChildren` |
| Search and matching (`search/page.tsx`, `packages/matching`) | none: queries | filter, order, page | the pages list every match | `Search` |
| Booking lists (`bookings-tracker.tsx`, `bookings-inbox.tsx`) | none | buttons by status | they offer what the state machine permits | `BookingButtons` |
| Demo seed (`packages/db/src/seed.ts`) | every table | one script, re-run | complete, and without doubles | `Seed` |
| Roles table, caregiver earnings, pages, translations, Auth.js, embeddings | | read-only, presentation or external | | not modelled (section 7) |

The parts interact through the database only: an action's booking transaction
commits, its caller then runs the escrow effect in a transaction of its own, the
worker reads whatever has been committed. The gateway is called inside the
escrow transaction, before it commits. What is hard about this:

* two parties (or one, twice) act on a booking at once: each checks a status it
  read without a lock and then updates by id;
* the process can die, or a call can throw, between the booking's commit and the
  escrow's, or between a payout and the commit that records it; nothing retries
  except the sweep;
* the sweep pays from a list that other runs, reviews and admins make stale;
* derived values (level, average, used benefit, budget) are recomputed from reads
  that miss what is not yet committed;
* lists and calendars are read, edited and written back whole;
* effects after a commit (notices, mails, the mark of a reminder) are separate
  steps that may be lost or repeated;
* row-level security makes some reads and writes silently see fewer rows.

`PROJECT.json` lists each such hazard at its line with the properties that would
catch it.

## 2. The modules

`StateMachines` - the transition tables as operators.

`BookingEscrow` - the core. Its state and its actions correspond to the code thus:

| In the model | In the code |
|---|---|
| `booking[b]` | the `bookings` row: status, whether `familyEndedAt` / `caregiverEndedAt` are set |
| `escrow[b]` | the `escrows` row: status, `disputeWindowEndsAt` (null, ahead, behind), captured cancellation fee |
| `reviews[b]` | roles with a row in `reviews` |
| `audit[b]` | `audit_logs` rows, as (entity, status before, status after) |
| `gateway[b]` | calls the gateway accepted; a repeat under the same reference adds nothing |
| `request[r]` | a server action in flight: what it is, by whom, what it has read, its next step |
| `sweep[w]` | a run of `escrow.sweep`: its list, and the escrow it is paying |

A server action is a process. `AcceptBooking(r, b)` is the read of its booking
transaction with every guard after it; `AcceptBookingCommit` is the UPDATE, audit
row and COMMIT; `AuthorizeEscrowRead`, `AuthorizeEscrowCall` and
`AuthorizeEscrowWrite` are the steps of the escrow transaction. The other actions
are laid out alike. Steps of different requests and sweeps interleave freely.
`RequestFails` and `SweepFails` end a process between any two steps: what it
committed, and what it told the gateway, stays.

A guard that the code evaluates on what it read is evaluated at the read and never
again; an UPDATE `where id = ...` overwrites what is there; an UPDATE that also
names the status, or a unique or exclusion constraint, is evaluated at the write.
Two reads of one transaction are one step (the status and the overlap check of an
accept, the booking and the escrow of a resolution): they are of different rows, and a
commit of one row that falls between them may as well fall before or after both. Row-level security matters once: `requestBooking` checks availability
on the family's connection, which shows it its own bookings only (`SeemsAvailable`);
`acceptBooking` checks on the caregiver's, which shows all of theirs (`Available`).

`PaymentContract` - the abstract specification of the ledger: what may be asked of
a gateway, and in what order. `BookingEscrow` implements it (`GatewayContract`).

`CareContract` - the abstract specification of one booking and its money, with no
requests, transactions, worker or gateway: the care follows the lifecycle, and the
money moves only in the stage of care that justifies it. `BookingEscrow`
implements it when the requests on a booking do not overlap (`KeepsPromise`).

`EscrowAmounts` - the arithmetic as operators on integer centimes: `EscrowSplit` and
what it refuses, `CapSubsidy`, `BookingAmount`, `CancellationFee`, `Rounded` (the
code's floating-point product and `Math.round`, exact for the percentages in use).

`EmployerBenefit` - who pays what of a booking. It takes the status and money steps
of `BookingEscrow` as given and models what moves a subsidy: the enrolment a request
is tagged with, the reads of an authorization (rate, month's used benefit), its insert
and the employer's running total, the refund, and the monthly invoice with its sum and
its insert as two statements. `enrolled_employees.user_id` is read to find an
enrolment and written by nothing in the repository: `LinkByHand` is the external step
that would set it, `Enroll` is what the code does.

`EmployerAccounts` - the account page: several tabs, each with what it last read, one
call in flight, and the policies of `enrolled_employees` (no UPDATE).

`Levels`, `Verification` - the ladder as a function of a caregiver's documents, and
uploads, decisions and signed reads that overlap. The object is stored before the row
is inserted; a decision reads all documents and writes the level it computes, without
seeing what another transaction has not committed.

`Ratings` - `submitReview`'s one-review check and `recomputeRating`, in overlapping
transactions. `BookingEscrow` keeps only who has reviewed; here are the rows.

`Notices` - every notice and mail about a booking. An action is a check, a write by id and
what it has left to do, one item after the other (`After`): its escrow effect, its notices
(each a transaction of its own) and its mails, any of them lost to a crash. The request, the
accept, the decline and the completion tell as `booking-events.ts` does; a dispute tells the
other side, the caregiver when the family raises it and the family when the caregiver
does. The caregiver is told of a payment from three places: the second review's release,
only if it released (`ReviewBoth`, `Settle`); the sweep, in the transaction of its guarded
update, with a receipt mailed after it (`SweepWrite`, `SweepReceipt`); and the resolution of
a dispute, on a second connection *before* it commits (`Inside`, `takenBack`). The
reminder job has its insert and its mark as two statements. Withdrawing, cancelling,
starting and refunding tell nobody, and do so in the model. Of an escrow only the status is
kept, since that decides whether a release tells.

`SignIn` - `authorize` looks at the limiter, awaits the user's row, awaits the hash and
only then records the outcome; sign-up and the first Google sign-in look before they
insert. A clock moves the lockout, a restart empties the store.

`ConnectionPool` - who holds a connection, who waits in line. `resolveDispute` asks for
a second one while it holds the first.

`CaregiverCalendar` - the editor's draft, `buildSlots`, the delete and the insert of a
save as two steps, and the reading of rows back into a draft; the readers of a calendar
(server check, open ranges, the request form's warning) as operators.

`FamilyChildren` - the JSON column: read the list, write the list.

`Seed` - the script as a sequence of statements with the guard of each section; stopped
anywhere, started again.

`Search`, `BookingButtons` - pure: the search page's filter, orders and pages, and the
buttons of the two booking lists. Their checks are the named ASSUMEs of `MCSite`.

`MCBookingEscrow` - the instances of the core for TLC: one overlapping pair, request
symmetry. `MCEmployerBenefit` - two employers, one family, two bookings.
`MCStanding` (verification, ratings, notices) and `MCSite` (seed, pool, sign-in,
children, calendar, employer account) check components side by side. They share no
row that a property is about, so one of them moves while the others rest in their
initial state: every behaviour of each is explored, and their states add up rather
than multiply.

`BookingEscrowProofs`, `BookingEscrowMoneyProofs`, `BookingEscrowTurnProofs` (the core),
`EmployerBenefitProofs`, `StandingProofs` (`Verification` and `Ratings`), `NoticesProofs`,
`PageProofs` (`FamilyChildren`, `CaregiverCalendar`, `EmployerAccounts`, `SignIn`,
`ConnectionPool`), `SeedProofs` - theorems and proofs (section 5).

Operators marked "A bug" (or "mutant") are the plausible bugs (a dropped guard, a
missing cap, a swapped order) that show each property can fail: replacing the named
definition by it makes TLC find a violation.

## 3. The runs

| Run | Instance | Question | Result |
|---|---|---|---|
| `races` | one booking, two actions in flight, one sweep, crashes; the family pays 2, fees 0 and 1; about 1.3 million states | Does the money follow the care, and the gateway its contract, whatever interleaves or dies? | `PaidOnlyFromCharge`, `EscrowFollowsCare`, `PaidOnlyForCare`, `RefundMatchesFee`, `OnlyPermittedActors`, `GatewayContract` hold |
| `turns` | two overlapping bookings of one caregiver, actions on one booking one at a time, a sweep beside them; 33,695 states | Is every confirmation kept? Between actions, do booking and escrow tell the same story? Is the caregiver's time kept? | `ConfirmationsKept`, `BooksAgree`, `BothReviewedReleases`, `NoDoubleBooking` hold |
| `recovery` | one booking, one action at a time, two overlapping sweeps, crashes, fairness; 818 states | Is the lifecycle kept in spite of crashes, and does an open dispute window always settle? | `TypeOK`, `KeepsPromise`, `OpenWindowSettles` hold |
| `benefit` | two employers, one family, two bookings of one month, two months; 1.3 million states (employers symmetric), about a minute | With enrolments, rate changes, accepts, cancellations and invoices interleaved, do amounts, totals and invoices add up? | `TypeOK`, `SplitAddsUp`, `BudgetIsTotal`, `BenefitKeptInTurn`, `InvoiceCoversMonth`, `SettledStaysSettled` hold |
| `standing` | one caregiver's four documents, two reviewed sessions, one booking's notices; 663,861 states, about 80 s to two minutes | Is what is shown of a caregiver, and told to the parties, backed by what happened? | `VerificationTypeOK`, `LevelEarned`, `LevelCurrentInTurn`, `UrlsOnRecord`, `RowAfterObject`, `RatingsTypeOK`, `RatingCurrentInTurn`, `RatingBacked`, `ToldOnce`, `MarkedMeansReminded`, `RemindedOnceInTurn` hold |
| `site` | seed, pool, sign-in, children, calendar, employer account, with fairness; 59,693 states | Is the seed repeatable, does everybody get a connection, does a lockout hold and end, is what was saved kept? | `NoRowTwice`, `Seeded`, `Answered`, `GuessesBounded`, `LockoutEnds`, `ChildLimit`, `ChildrenKeptInTurn`, `LastSaveStands`, `RoundTrip`, `EnrolledOnceInTurn` hold, and the ASSUMEs of `MCSite` |
| `lifecycle_raced` | one booking, two actions | "The lifecycle is strict" (`booking/src/state-machine.ts`)? | violated: an accept that read before a decline committed turns `cancelled` into `confirmed` |
| `escrow_raced` | one booking, two actions | "`released` and `refunded` are terminal" (`payments/src/state-machine.ts`)? | violated: a capture in flight overwrites a refund |
| `taken_requested` | two overlapping bookings of two families | Does a request pass only for time that is free (`availability.ts`)? | violated: the check runs on the family's connection, where row-level security hides the other family's confirmed booking |
| `never_released` | one booking, two actions, fairness | Released on "both reviews OR 24h" (`review-service.ts`)? | violated: a capture that commits after completion leaves an escrow without a window, which no sweep selects |
| `never_tagged` | the instance of `benefit` | "If this family's user is an active enrolled employee, tag the booking" (`(family)/family/bookings/actions.ts`)? | violated: enrolments are never linked to a user, so an enrolled family's booking carries no employer |
| `not_deactivated` | the instance of `site` | "Deactivate an enrolled employee" (`(employer)/employer/account/actions.ts`)? | violated: `enrolled_employees` has no policy for UPDATE, the statement sees no row |

The bounds. In the core, every property speaks of one booking, and bookings interact only
through the exclusion constraint, so one booking is enough but for
`NoDoubleBooking`, which has two. A lost update, a stale read or a late effect
needs two actions; what a third could add is covered by the proofs, which have no
bound. Amounts: with 2 to pay, a fee of 0, of 1 (part of it) and of 3 (above what
the subsidy leaves) are the three branches of the refund; 3 is left out of `races`
only for size. Two sweeps are enough for one to find what the other has done.
There is no counter, queue or clock to bound: the window is null, ahead or behind.

In `benefit`, two bookings in one month are what it takes for the second to find a
benefit partly used or not yet used, two employers for a family that is enrolled twice;
`LastMonth` 2 lets the first month be invoiced and be over; the rates (per hour and per
day) and durations (60 and 90 minutes) make fees that round up and down; the benefit of
70 is less than two bookings and more than one. `MaxEnrolled` 2 is one enrolment each.

In `standing`, four documents are one of each type the ladder asks for, `Slots` two
calls that overlap, the second caregiver one who asks for what is not hers, `MaxUrls` 1
one signed URL; two sessions, stars 2 and 5 (averages that differ and are not whole),
two forms, and at most four review rows; one booking with two handlers, two reminder
runs and two runs of the sweep, told counts of 0, 1 and 2 or more. Two handlers and two
sweeps let any two of review, resolution, dispute and sweep pay or tell at once. `MCApart`
follows either the reminders or what comes of the session: once the start is near the
booking is not completed or disputed. The job reads a booking's status, its clock and
its mark only, so nothing that a payment does can reach a reminder or be reached by one; the
theorems of `NoticesProofs` are about the module without this bound.

In `site`, `MaxRuns` 3 lets the seed be stopped twice; two connections for two ordinary
actions and two resolutions are the smallest pool that can be full of resolutions; one
e-mail, two attempts, two failures and a window of two ticks, with the failure that
comes late; two edits, at most two children and three child ids, so that the limit is met
and a removed child is replaced; one weekday with one date and four drafts (off, on, ends
before it starts, other hours; with blocked, longer and undated overrides), two editors
and two saves; two tabs of an employer, one budget, two e-mails and two rows. Pages
hold two of four caregivers.

`OnlyPermittedActors`, `RefundMatchesFee` and the four others of `races` need no
good behaviour of the callers. `BooksAgree`, `BothReviewedReleases` and
`KeepsPromise` need the actions on one booking to take turns (`TakeTurns`): the
violation runs show what goes wrong without. `BooksAgree` and
`BothReviewedReleases` also need no crash, since nothing redoes a lost escrow
effect; `KeepsPromise` holds with crashes: the money may stay behind, it never leads.

The properties whose name ends in `InTurn`, and the last parts of `ToldOnce` and
`LastSaveStands`, hold until two transactions overlap on the same row: the history
variables `raced`, `entwined`, `contested`, `takenBack`, `disturbed`, `overlapped`,
`interleaved` and `twoAtOnce` record that, as narrowly as it can be told (`takenBack`: that a resolution failed after it
told the caregiver). Without the proviso TLC
finds the race at once: nothing in the code prevents it. What holds in spite of the
races is stated without one (`LevelEarned`, `RatingBacked`, `MarkedMeansReminded`,
`ChildLimit`, `BudgetIsTotal`, `SplitAddsUp`, `GuessesBounded`).

The ASSUMEs of `MCSite`, evaluated by TLC on its instance: `SeedLevels` (the seeded
documents compute to the levels the seed claims), `ReadersAgree` (server, calendar and
form read one calendar alike), `ButtonsPermitted` (the lists offer what the state
machine permits), `PagesListEveryMatch` (walking the pages lists each match once when no
two caregivers tie) and `TiesCanHide` (when they tie, a page may repeat one caregiver
and leave another out: the query has no last tie-breaker).

Requests are interchangeable, and none of the properties of `races` and `turns`
names one, so permuting them is a sound symmetry; likewise the slots, forms and
handlers of `standing` and the employers of `benefit`. Runs with liveness use none.
A system with nothing under way may rest for ever, so deadlock is not checked; that
actions cannot block each other is `Answered`.

## 4. Fairness

`FairSpec` assumes only what the scheduler gives. A request in flight takes its
next step or dies (weak fairness): the process runs, or it does not. Time passes,
so an open window elapses (weak fairness). pg-boss runs `escrow.sweep` every 15
minutes, so a worker at rest with something due reads it (weak fairness). A sweep
may crash again and again, but not for ever at the same point: its payout and its
write are strongly fair, for a worker that is interrupted is started again. No user
is ever assumed to open a request: nobody has to review, confirm or resolve, which
is what makes `OpenWindowSettles` worth stating and `CompletedSettles` fail.

`PoolFairness` says that a free connection is given to the first in line, and that a
statement on a connection ends (weak fairness of each). `Answered` then holds except
while every connection is held by a resolution that waits for another one: with
`PoolSize` resolutions at once the application stands still, and only a timeout of the
driver or a restart helps. `SignInFairness` says that time passes (weak fairness of
`Tick`); users may attempt to sign in for ever or stop.

## 5. What is proved

Of the core, for every set of bookings, of requests in flight and of workers, any
overlap relation, any amounts and any fees, with or without crashes and turns:

| Theorem | States |
|---|---|
| `TypeCorrect` | `Spec => []TypeOK`; in particular a recorded fee never exceeds what the family pays |
| `PaidOnlyFromChargeHolds` | `Spec => []PaidOnlyFromCharge` |
| `GatewayContractHolds` | `Spec => GatewayContract`: the handlers implement `PaymentContract` |
| `NoDoubleBookingHolds` | `Spec => []NoDoubleBooking` |
| `EscrowFollowsCareHolds` | `Spec => []EscrowFollowsCare` |
| `PaidOnlyForCareHolds` | `Spec => []PaidOnlyForCare` |
| `RefundMatchesFeeHolds` | `Spec => []RefundMatchesFee` |
| `OnlyPermittedActorsHold` | `Spec => OnlyPermittedActors`: what a handler reads, and whom it runs for, imply the table it never consults |

The assumptions are those of `BookingEscrow`: amounts and fees are naturals and a
fee of 0 is possible (`AmountsAssumption`), the switches are Booleans
(`SwitchAssumption`), `NoBooking` is not a booking (`NoBookingAssumption`),
`Clashes` is a set of sets of bookings (`ClashesAssumption`).

None of these but `NoDoubleBooking` is inductive, because a request acts on what it
read earlier: to know what its commit does one must know what held at its read and
still does. Statuses do not help, since a racing commit may overwrite any of them.
Two things only grow, and the invariants are stated about those:

* `TypeInv` adds to `TypeOK` that a cancellation past its escrow read carries a
  capped fee, and that an uncommitted review is a party's (`SlotsOK`).
* `MoneyInv` goes by the gateway's ledger: an escrow with a row was authorized, one
  captured, frozen or released was charged; so was whatever a request at a capture,
  refund or payout step, or a sweep, is about to act on.
* `CareInv` goes by the audit log: a completed or disputed booking has its row;
  each request in the escrow transaction, each review or resolution in flight and
  each booking on a sweep's list has on record the transitions that justify what it
  will do (`NeedsAccepted`, `NeedsStarted`, `NeedsContested`, `NeedsCompleted`), and
  one about to commit has read the status its row will name (`Read`).
* `RefundInv` (in `BookingEscrowMoneyProofs`): a cancellation or a resolution past its
  calls has told the gateway what the row it writes will say (`CallsMade`), and whoever is
  about to move a booking began from a status and in a role that permit it (`BegunBy`).

Each proof has one step per action, under lemmas for the pieces the handlers share:
beginning, a booking commit, an escrow read, a gateway call, an escrow write, a
return. The refinement needs `MoneyInv`: a capture is a legal call of the contract
because the request that makes it has read an authorized escrow. `NoDoubleBooking`
is inductive with `TypeInv`: every commit to an active status passes the exclusion
constraint, whatever the check of an accept saw.

What needs more of the schedule, with the switch it needs as a hypothesis. `TakeTurns`
says that a server action on a booking begins when no other is under way on it (the
runs `turns` and `recovery` have it on); the sweeps go on beside the actions.
`~ CanCrash` says that actions run to their end.

| Theorem of `BookingEscrowTurnProofs` | Assumes | States |
|---|---|---|
| `KeepsPromiseInTurn` | `TakeTurns` | `Spec => KeepsPromise`: the system implements `CareContract`, crashes included |
| `ConfirmationsKeptInTurn` | `TakeTurns` | `Spec => ConfirmationsKept` |
| `LegalStepsInTurn` | `TakeTurns` | `Spec => LegalBookingSteps /\ LegalEscrowSteps`, what `lifecycle_raced` and `escrow_raced` refute without turns |
| `MoneyNeverLeadsInTurn` | `TakeTurns` | `Spec => []MoneyNeverLeads`: the escrow is as far as the booking or behind it at every moment, also between the transactions of an action and after a crash |
| `PaidInTimeInTurn` | `TakeTurns` | `Spec => []PaidInTime`: no payout is ordered before the dispute window has elapsed, unless both parties reviewed or there was a dispute |
| `WindowEndsInPayout` | `TakeTurns` | an open window on a captured escrow stays until it elapses, is never set anew, and ends in a payout only |
| `BooksAgreeInTurn` | `TakeTurns`, `~ CanCrash` | `Spec => []BooksAgree` |
| `BothReviewedReleasesInTurn` | `TakeTurns`, `~ CanCrash` | `Spec => []BothReviewedReleases` |

With turns, an action finds at each step what it found at the one before, but for what a
sweep did meanwhile. So these rest on the rows themselves:

* `TurnInv`: one action per booking (`OneEach`); where booking and escrow stand while
  that action is at a given step (`Placed`); and the fact that lets a sweep in beside it, a
  window is open on a completed booking only, is never taken away, and what a sweep holds
  has elapsed (`RowSound`, `SweepsTimely`). Each step is then a move of one booking that `CareContract` promises
  (`PromisedMove`).
* `AgreeInv`: what the two rows say together when nothing is under way (`Rested`), and how
  far they are apart at each step of the action that will bring them together again
  (`Underway`). A crash between two steps would leave them apart
  for good, hence `~ CanCrash`.
* `MoneyNeverLeads` is the invariant of `CareContract`, carried over by the refinement:
  every promised move keeps it, and every step is one.
* `ReviewsCounted`, for `PaidInTime`: a review on its way to the payout was the second one
  (its own transaction counted both), and reviews are never taken back. What makes a payout
  due (`PayoutDue`) then stays: the audit log grows, reviews grow, an elapsed window stays.

Of the components around it, for every value of their constants:

| Theorem | Module | States |
|---|---|---|
| `EverySplitAddsUp` | `EmployerBenefitProofs` | `Spec => []SplitAddsUp`, any rates, durations, benefits and policy |
| `SettledForGood` | `EmployerBenefitProofs` | `Spec => SettledStaysSettled` |
| `BenefitTypes` | `EmployerBenefitProofs` | `Spec => []TypeOK` |
| `BudgetAlwaysTotal` | `EmployerBenefitProofs` | `Spec => []BudgetIsTotal`, any number of authorizations in flight |
| `BenefitNeverPassed` | `EmployerBenefitProofs` | `Spec => []BenefitKeptInTurn` |
| `InvoicesAlwaysCover` | `EmployerBenefitProofs` | `Spec => []InvoiceCoversMonth` |
| `VerificationTypes` | `StandingProofs` | `VerificationSpec => []VerificationTypeOK` |
| `LevelIsEarned` | `StandingProofs` | `VerificationSpec => []LevelEarned`, any number of transactions at once |
| `UrlsAreOnRecord` | `StandingProofs` | `VerificationSpec => []UrlsOnRecord` |
| `RowsFollowObjects` | `StandingProofs` | `VerificationSpec => RowAfterObject` |
| `LevelIsCurrent` | `StandingProofs` | `VerificationSpec => []LevelCurrentInTurn` |
| `RatingsTypes` | `StandingProofs` | `RatingsSpec => []RatingsTypeOK`, any number of reviews |
| `RatingIsBacked` | `StandingProofs` | `RatingsSpec => []RatingBacked` |
| `RatingIsCurrent` | `StandingProofs` | `RatingsSpec => []RatingCurrentInTurn` |
| `MarkedAreReminded` | `NoticesProofs` | `NoticesSpec => []MarkedMeansReminded`, any overlapping runs |
| `RemindedOnce` | `NoticesProofs` | `NoticesSpec => []RemindedOnceInTurn` |
| `NobodyToldTwice` | `NoticesProofs` | `NoticesSpec => []ToldOnce`, any actions, reviews, resolutions, sweeps and mails |
| `GuessesStayBounded` | `PageProofs` | `SignInSpec => []GuessesBounded`, any limit, window and attempts |
| `LockoutOnlyRunsDown` | `PageProofs` | `SignInSpec => [][LockoutsRunDown]_signInVars`: while an e-mail is locked out no step adds an attempt, and none gives the window more time but the end of an attempt that was under way |
| `OnlyResolutionsBlock` | `PageProofs` | `PoolSpec => []OnlyResolutionsStandStill`: somebody can go on unless every connection is held by a resolution waiting for another, any pool and clients |
| `StandsStillForGood` | `PageProofs` | `PoolSpec => [][AllWaitOnEachOther => NobodyAnswered]_poolVars` |
| `ChildLimitKept` | `PageProofs` | `ChildrenSpec => []ChildLimit`, any limit and overlapping edits |
| `ChildrenAreKept` | `PageProofs` | `ChildrenSpec => []ChildrenKeptInTurn` |
| `LastSaveIsPublished` | `PageProofs` | `CalendarSpec => []LastSaveStands`, any tabs and drafts |
| `CalendarGoesRound` | `PageProofs` | `CalendarSpec => []RoundTrip`, any weekdays, hours, dates and drafts |
| `EnrolledOnce` | `PageProofs` | `EmployerSpec => []EnrolledOnceInTurn`, any tabs and e-mails |
| `ReRunningIsSafe` | `SeedProofs` | `SeedSpec => []NoRowTwice`, any number of runs, each stopped anywhere |
| `SeedIsConsistent` | `SeedProofs` | `SeedSpec => []Seeded` |

`MoneyInvariant`, `BenefitInvariant`, `VerificationInvariant`, `RemindersInvariant`,
`SignInInvariant`, `PoolInvariant` and `SeedInvariant` are the theorems that establish the
invariants they rest on. Their assumptions are the named ASSUMEs of the modules they are about; of those, the set of
bookings is finite (`BookingsAssumption`), so that a sum over it is defined, and
`DraftsAssumption` says that what an editor holds is a date or an empty field, never the
mark of a weekly row. Why each needs more than its property:

* `MoneyInv` (of `EmployerBenefit`): an authorization inserts amounts it computed
  earlier, so the split in flight must be sound as well as the stored ones. The
  arithmetic is in lemmas: `FeesWithinGross` (neither fee exceeds the price),
  `SplitSound`, `FeeWithin`.
* `BenefitInv`: the running total is the sum over the employer's bookings at every step,
  because insert and increment are one transaction and a booking's employer never changes
  once it has an escrow (`BudgetKept`, `NotYetAsked`). For the benefit, what is about to be
  inserted fits in what the month had left when it was read (`InsertFits`), which still
  stands at the insert only if no other authorization of the family is in between
  (`OneAtATime`). For the invoice, both what is issued and what the job has read but not
  inserted lie between the two sums of a month that is over (`Covers`), to which nothing
  authorized in time can be added.
* `VInv`: a transaction writes the level it computed from what it read, maybe long ago.
  Approvals may be taken back but never un-happen, so `LevelDue` says the level about to
  be written asks only for what has ever been approved, or is approved by this decision;
  and a URL about to be answered is already in the log (`CallBacked`).
* `LevelsKept`: as long as no two transactions of a caregiver overlapped, the one about to
  write computed its level from the documents as they will be when it has written.
* `RatingsInv`: the same for the rating a form computed and has not committed; and, with
  overlaps, that it is the rating of some of the reviews there are and its own
  (`RatingsBacked`).
* `ToldInv` has four parts. `HandInv`: of a booking that is not contested one action at most
  is between its check and its write. `TellInv`: one action at most still owes a notice of a
  transition, the booking has that transition behind it, nobody has been told of it yet, and
  the lifecycle never comes back to one already told (`TellsOnce`). `PayInv`: the same of a
  payment (`PaidOnce`): a review owes its notice once it has released the escrow, and a
  resolution before it does. It rests on `Charged`: a window opens, and a payment falls due,
  only for a completed session; a hold that comes late finds the escrow closed; and what
  the sweep has listed only a payment can take from it. `MailInv`: a mail has its notice
  before it, or is a receipt of an escrow that is released.
* `RemindInv`: a run about to mark a booking has told both parties (`Run`), and of the
  runs that hold a booking nobody has taken twice, there is one at most (`InTurn`).
* `PendingCounted`: each attempt past the limiter may add one failure, so it is failures
  plus attempts under way that stay below the bound, and an unlocked bucket has room.
* `PoolInv`: who waits is in line, once, and nobody else (`LineIsTheWaiting`); only a
  resolution asks with a connection in hand (`OnlyResolutionsNest`); and no more are out
  than there are. So if all are out and nobody who holds one is free to go on, every holder
  is a resolution in line.
* `ListsFit`: an edit will write back a list that it checked; so every list in flight, as
  well as the stored one, has room.
* `ListsInTurn`: until two edits overlap, the list an edit is about to write is the one the
  family will be told, whether it goes through or fails.
* `RoundInv`: the slots of a calendar written by one save come from one draft (`Saved`), so
  they fall into weekly rows and exceptions without meeting, and the two readings of
  `initWeek` and `initOverrides` give them back.
* `SavesSee`: until two saves interleave, a save that has looked for the rows to delete
  has seen all of them.
* `LooksTold`: an enrolment on its way found no row, and none is there yet, unless its
  e-mail was looked for twice at once.
* `SeedInv`: a guard asks whether its table is empty, and it answers for a whole section
  because the first line of a section makes the first row (`FirstRowFirst`): what is
  entered has left nothing (`NothingAhead`). The one line that may make no row is a
  review of a booking the run does not know; the first review is of the first booking,
  which any run past that section has made or found (`HeadsPassed`). As long as nothing
  was stopped, the run has carried out every line behind it (`FirstRun`).

Sums are recursive functions over sets (`SumFunctionOnSet`) and sequences (`StarsOf`).
The library's induction theorems cannot be used on them, but the prover accepts that a set
of numbers has a least one (`Least`, from the well-foundedness of `<`), and a smallest
counterexample serves as well: that the recursion is satisfied at all (`SumsExist`,
`PartialExists`), that a sum may take any member out (`SumTakesOut`), that equal terms
give equal sums and more members no smaller one (`SumOfSame`, `SumGrows`), and that the
stars of `n` reviews add up to between `n` and `5 * n` (`StarsBounds`). In the same way
`FlattenSeqIs` says that `FlattenSeq` satisfies its recursion, from which `Layout` and
`SectionFacts` get the shape of the script: the keyed lines, then the guard and the lines of
each section, and what kind of statement stands on each. The sequence itself is never
written out.

## 6. What is only model-checked

* Liveness, which takes fairness and ENABLED, out of the prover's reach:
  `OpenWindowSettles`, `Answered`, `LockoutEnds`. What they rest on is proved: the window
  can end in nothing but a payout (`WindowEndsInPayout`); while anybody is under way somebody
  can go on, but for the one standstill that `Answered` excepts (`OnlyResolutionsBlock`,
  `StandsStillForGood`); a lockout's window is restarted by the attempts that were under way
  only, and each of them leaves with its end (`LockoutOnlyRunsDown`). That the steps which
  remain are then taken is what fairness adds and TLC checks.
* The properties of the runs that expect a violation are false, and those of `Search` and
  `BookingButtons` are evaluated as ASSUMEs over bounded inputs.

Without turns the eight theorems of `BookingEscrowTurnProofs` say nothing, and the runs
`lifecycle_raced`, `escrow_raced` and `never_released` show what happens then.

## 7. What is left out, and why

In `BookingEscrow`:

* prices, slots and the cancellation-fee formula: any fee of `Fees`, any overlaps
  (`EscrowAmounts` has the formulas, `CaregiverCalendar` the slots);
* the employer's subsidy: the family owes `FamilyPays`, whatever it was computed from
  (`EmployerBenefit`);
* `requestBooking`'s availability check and INSERT are one step. A check gone stale
  only admits a request for a time since taken, a state reached anyway when the
  other booking is confirmed later;
* `resolveDispute` writes one audit row for both entities; the model, one for each;
* duplicates: `reviews` is a set of roles, `gateway` a set of calls;
* notifications and mails (`Notices`): nothing reads them to decide.

In the other modules:

* `EmployerBenefit`: a session that starts, completes or is disputed changes no subsidy;
  deactivating an enrolment never takes effect (`not_deactivated`), so enrolments stay;
* `EscrowAmounts`: binary rounding. For whole-quarter sessions and whole percentages the
  product is exact; for other lengths the code may differ by a centime at a tie;
* `Verification`: keys, encryption at rest, the object store's protocol;
* `Notices`: what falls between the read and the write of an escrow effect, the gateway and
  the order of payout and commit, and who has confirmed or reviewed (`BookingEscrow` has all
  of these: here an effect is one step, a confirmation may be the first or the second, and
  a review of a completed booking may be the second); the notice of a decided document
  (`verification-service.ts`) and the welcome mail of a sign-up; the texts, whether a notice
  was read;
* `FamilyChildren`: `CreateProfile` takes no children, as the form sends it; the server's
  schema would accept a list with the new profile;
* `SignIn`: Auth.js, cookies, the hash itself;
* `CaregiverCalendar`: hours, not minutes; one weekday and date stand for all;
* `Search`: the distance between a text and a caregiver is a number; embedding it is not
  modelled.

## Not modelled

The roles table (fixed, without state), a caregiver's earnings page (three sums over
rows modelled elsewhere), the pages, translations, styles and the landing page
(presentation), Auth.js, pg-boss and PostgreSQL themselves (external), the configuration
and build files. Of the row-level policies, those that hide or refuse something to a
party that acts are in the actions they bear on: bookings (`SeemsAvailable`), documents
(`Visible`), enrolments (`EnrolledPolicies`).

Noticed while reading, and not stated as a property:

* `resolveSubsidy` passes what is left of the benefit to `capSubsidy` as both of its caps,
  so the account's budget per employee bounds nothing, though the comment at
  `lib/escrow-service.ts:82-84` speaks of both; the model does what the code does;
* the search page's comment puts verified caregivers first; its query orders by rating;
* `skill_vector` is written by a manual backfill only (`matching/src/backfill.ts`): a
  caregiver who signs up later is missing from the order by relevance;
* the sweep mails its receipt also when its guarded update matched nothing
  (`worker/src/escrow-sweep.ts:79`), so an overlapping run, or a review that released first,
  ends in a second receipt, though the comment at line 15 calls a duplicate sweep a no-op.
  `MailsBacked` allows it: the escrow is then released, but the notice may be late or lost;
* `resolveDispute` tells the caregiver of the payment before it commits: when the commit
  fails the notice stands (`takenBack` in `Notices`);
* a month whose invoice run did not happen is never invoiced: the job looks at the
  month before now only.

## 8. What could follow

A table of all row-level policies against the statements that run under them.

## 9. Running

    tlc -workers 2 -config races.cfg MCBookingEscrow      (also turns, recovery, taken_requested,
                                                           lifecycle_raced, escrow_raced, never_released)
    tlc -workers 2 -config benefit.cfg MCEmployerBenefit  (also never_tagged)
    tlc -workers 2 -config standing.cfg MCStanding
    tlc -workers 2 -config site.cfg MCSite                (also not_deactivated)
    tlapm BookingEscrowProofs.tla                         (also BookingEscrowMoneyProofs,
                                                           BookingEscrowTurnProofs,
                                                           EmployerBenefitProofs, StandingProofs,
                                                           NoticesProofs, PageProofs, SeedProofs)
