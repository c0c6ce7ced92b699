------------------------------ MODULE Notices ------------------------------
(***************************************************************************)
(* What the parties of a booking are told, and when.                       *)
(*                                                                         *)
(* An action checks the status of a booking, writes the new one by id, and *)
(* once that has committed has its escrow effect, inserts notifications,   *)
(* each in a transaction of its own, and sends mails that are never        *)
(* retried and never throw.  The resolution of a dispute is the exception: *)
(* it tells the caregiver of the payment on a connection of its own,       *)
(* before it commits.  Beside that the escrow.sweep job releases captured  *)
(* escrows from a list, each with its notice in one transaction, and the   *)
(* booking.reminders job lists the confirmed bookings of the next hour     *)
(* and, one after the other, inserts both reminders and marks the booking, *)
(* in two statements.                                                      *)
(*                                                                         *)
(* Of an escrow only the status matters here, and each effect on it is one *)
(* step; what falls between its read and its write is in BookingEscrow,    *)
(* and so is who has confirmed or reviewed.                                *)
(***************************************************************************)
EXTENDS Integers, Sequences, FiniteSets

CONSTANTS
  Visits,      \* bookings
  Handlers,    \* actions whose notices are under way
  Jobs,        \* runs of the booking.reminders job that may overlap
  Payers       \* runs of the escrow.sweep job that may overlap

VARIABLES
  visit,       \* bookings: the status of each
  money,       \* escrows: the status of each; windowed: captured, its window set
  clock,       \* where now is: the start of each is far, within the hour, or past
  reminded,    \* bookings.reminder_sent_at is set
  told,        \* notifications: how many of each kind each side has received
  mailed,      \* the mails sent: <<booking, side, kind>>
  handler,     \* what each action still has to do
  job,         \* each run of the reminder job
  payer,       \* each run of the escrow sweep
  contested,       \* history: bookings two actions of which were between check and
               \* write together; the model starts no further action on them
  disturbed,   \* history: bookings two reminder runs listed together, or one that
               \* stopped between its two statements
  takenBack    \* history: bookings a resolution of which told the caregiver of the
               \* payment, and then failed to commit

bookVars   == <<visit, money>>
inboxVars  == <<told, mailed>>
remindVars == <<clock, reminded, job, disturbed>>

noticeVars == <<bookVars, inboxVars, remindVars, handler, payer, contested, takenBack>>

----------------------------------------------------------------------------
Parties == {"family", "caregiver"}

Kinds == {"booking_requested", "booking_confirmed", "booking_declined", "review_request",
          "dispute_opened", "payment_released", "booking_reminder"}

Notice(to, kind) == [how |-> "notify", to |-> to, kind |-> kind]
Mail(to, kind) == [how |-> "mail", to |-> to, kind |-> kind]
Escrow(effect) == [how |-> "escrow", does |-> effect]

\* The actions after the request: the statuses each accepts and the one it writes.  The
\* confirmation of the end is confirm or, when the other side has given it, finish.
Moves ==
  [accept   |-> [from |-> {"requested"}, to |-> "confirmed"],
   decline  |-> [from |-> {"requested"}, to |-> "cancelled"],
   withdraw |-> [from |-> {"requested"}, to |-> "cancelled"],
   cancel   |-> [from |-> {"confirmed"}, to |-> "cancelled"],
   start    |-> [from |-> {"confirmed"}, to |-> "in_progress"],
   confirm  |-> [from |-> {"in_progress"}, to |-> "in_progress"],
   finish   |-> [from |-> {"in_progress"}, to |-> "completed"],
   family_disputes    |-> [from |-> {"in_progress"}, to |-> "disputed"],
   caregiver_disputes |-> [from |-> {"in_progress"}, to |-> "disputed"],
   release  |-> [from |-> {"disputed"}, to |-> "completed"],
   refund   |-> [from |-> {"disputed"}, to |-> "cancelled"]]

\* resolveDispute writes the escrow with the booking, by id.
Resolutions ==
  [release |-> [from |-> {"captured", "windowed", "disputed"}, to |-> "released"],
   refund  |-> [from |-> {"authorized", "captured", "windowed", "disputed"}, to |-> "refunded"]]

\* The escrow effects of the other actions.
Effects ==
  [authorize |-> [from |-> {"none"}, to |-> "authorized"],
   unwind    |-> [from |-> {"authorized"}, to |-> "refunded"],
   capture   |-> [from |-> {"authorized"}, to |-> "captured"],
   window    |-> [from |-> {"captured"}, to |-> "windowed"],
   hold      |-> [from |-> {"captured", "windowed"}, to |-> "disputed"],
   pay       |-> [from |-> {"captured", "windowed"}, to |-> "released"]]

\* What an action does once its transition is committed: its escrow effect, then
\* onBookingConfirmed, onBookingDeclined, onBookingCompleted or the notice of a dispute.
\* Withdraw, cancel, start and the family's dispute are the family's actions; accept,
\* decline and its own dispute the caregiver's; confirm and finish are either's.
After ==
  [accept   |-> <<Escrow("authorize"), Notice("family", "booking_confirmed"),
                  Mail("family", "booking_confirmed")>>,
   decline  |-> <<Notice("family", "booking_declined")>>,
   withdraw |-> <<>>,
   cancel   |-> <<Escrow("unwind")>>,
   start    |-> <<Escrow("capture")>>,
   confirm  |-> <<>>,
   finish   |-> <<Escrow("window"),
                  Notice("family", "review_request"), Notice("caregiver", "review_request"),
                  Mail("family", "review_request"), Mail("caregiver", "review_request")>>,
   family_disputes    |-> <<Escrow("hold"), Notice("caregiver", "dispute_opened")>>,
   caregiver_disputes |-> <<Escrow("hold"), Notice("family", "dispute_opened")>>,
   release  |-> <<>>,
   refund   |-> <<>>]

\* What an action tells before it commits, on a second connection.
Inside(move) ==
  IF move = "release" THEN <<Notice("caregiver", "payment_released")>> ELSE <<>>

\* What a review that finds both parties' reviews has left to do.
BothReviewed ==
  <<Escrow("pay"), Notice("caregiver", "payment_released"), Mail("caregiver", "payment_released")>>

\* Bound: how far the notices of one kind are counted; more count the same.
ManyTimes == 2
OneMore(n) == IF n < ManyTimes THEN n + 1 ELSE n

Waiting == [on |-> "nothing", move |-> "none", todo |-> <<>>]
Sleeping == [due |-> {}, at |-> "read"]

NoticesTypeOK ==
  /\ visit \in [Visits -> {"none", "requested", "confirmed", "in_progress", "completed",
                           "disputed", "cancelled"}]
  /\ money \in [Visits -> {"none", "authorized", "captured", "windowed", "disputed",
                           "released", "refunded"}]
  /\ clock \in [Visits -> {"far", "near", "past"}]
  /\ reminded \in [Visits -> BOOLEAN]
  /\ told \in [Visits \X Parties \X Kinds -> 0..ManyTimes]
  /\ mailed \subseteq Visits \X Parties \X Kinds
  /\ handler \in [Handlers ->
       [on : Visits \cup {"nothing"}, move : DOMAIN Moves \cup {"none"},
        todo : Seq([how : {"notify", "mail"}, to : Parties, kind : Kinds]
                   \cup [how : {"escrow"}, does : DOMAIN Effects])]]
  /\ job \in [Jobs -> [due : SUBSET Visits, at : {"read", "insert"}]
                      \cup [due : SUBSET Visits, at : {"mark"}, of : Visits]]
  /\ payer \in [Payers -> [due : SUBSET Visits, at : {"read", "write"}]
                          \cup [due : SUBSET Visits, at : {"receipt"}, of : Visits]]
  /\ contested \subseteq Visits /\ disturbed \subseteq Visits /\ takenBack \subseteq Visits

NoticesInit ==
  /\ visit = [b \in Visits |-> "none"]
  /\ money = [b \in Visits |-> "none"]
  /\ clock = [b \in Visits |-> "far"]
  /\ reminded = [b \in Visits |-> FALSE]
  /\ told = [k \in Visits \X Parties \X Kinds |-> 0]
  /\ mailed = {}
  /\ handler = [h \in Handlers |-> Waiting]
  /\ job = [j \in Jobs |-> Sleeping]
  /\ payer = [w \in Payers |-> Sleeping]
  /\ contested = {} /\ disturbed = {} /\ takenBack = {}

----------------------------------------------------------------------------
\* An action takes up something, or leaves it.
Turns(h, q) == handler' = [handler EXCEPT ![h] = q]

\* requestBooking: the insert, then onBookingRequested.
Request(h, b) ==
  /\ handler[h] = Waiting
  /\ visit[b] = "none"
  /\ visit' = [visit EXCEPT ![b] = "requested"]
  /\ Turns(h, [on |-> b, move |-> "none", todo |-> <<Notice("caregiver", "booking_requested")>>])
  /\ UNCHANGED <<money, inboxVars, remindVars, payer, contested, takenBack>>

\* Some other action has checked this booking's status and not written yet.
Contended(h, b) == \E k \in Handlers \ {h} : handler[k].on = b /\ handler[k].move # "none"

\* The check of the booking's status, and in a resolution of the escrow's.
Check(h, b, move) ==
  /\ handler[h] = Waiting
  /\ visit[b] \in Moves[move].from /\ b \notin contested
  /\ move \in DOMAIN Resolutions => money[b] \in Resolutions[move].from
  /\ Turns(h, [on |-> b, move |-> move, todo |-> Inside(move)])
  /\ contested' = IF Contended(h, b) THEN contested \cup {b} ELSE contested
  /\ UNCHANGED <<bookVars, inboxVars, remindVars, payer, takenBack>>

\* The update, by id, and its commit; what follows it is left to do.
CommitMove(h) ==
  LET q == handler[h]
  IN  /\ q.move # "none" /\ q.todo = <<>>
      /\ visit' = [visit EXCEPT ![q.on] = Moves[q.move].to]
      /\ money' = IF q.move \in DOMAIN Resolutions
                  THEN [money EXCEPT ![q.on] = Resolutions[q.move].to] ELSE money
      /\ Turns(h, IF After[q.move] = <<>> THEN Waiting
                  ELSE [on |-> q.on, move |-> "none", todo |-> After[q.move]])
      /\ UNCHANGED <<inboxVars, remindVars, payer, contested, takenBack>>

\* submitReview finds the booking completed and, with its own, both reviews.
ReviewBoth(h, b) ==
  /\ handler[h] = Waiting
  /\ visit[b] = "completed" /\ b \notin contested
  /\ Turns(h, [on |-> b, move |-> "none", todo |-> BothReviewed])
  /\ UNCHANGED <<bookVars, inboxVars, remindVars, payer, contested, takenBack>>

Doing(h, how) == handler[h].todo # <<>> /\ Head(handler[h].todo).how = how

NextEffect(h) ==
  LET q == handler[h]
  IN  Turns(h, IF Len(q.todo) = 1 /\ q.move = "none" THEN Waiting
               ELSE [q EXCEPT !.todo = Tail(@)])

\* An escrow effect; it does nothing to an escrow in another status, and a release that
\* does nothing is not told.
Settle(h) ==
  LET b == handler[h].on
      effect == Effects[Head(handler[h].todo).does]
  IN  /\ Doing(h, "escrow")
      /\ \/ /\ money[b] \in effect.from
            /\ money' = [money EXCEPT ![b] = effect.to]
            /\ NextEffect(h)
         \/ /\ money[b] \notin effect.from
            /\ IF effect.to = "released" THEN Turns(h, Waiting) ELSE NextEffect(h)
            /\ UNCHANGED money
      /\ UNCHANGED <<visit, inboxVars, remindVars, payer, contested, takenBack>>

\* notifyUser: one more row for the recipient, committed before the next effect.
NotifyUser(h) ==
  /\ Doing(h, "notify")
  /\ LET n == Head(handler[h].todo)
     IN  told' = [told EXCEPT ![<<handler[h].on, n.to, n.kind>>] = OneMore(@)]
  /\ NextEffect(h)
  /\ UNCHANGED <<bookVars, mailed, remindVars, payer, contested, takenBack>>

\* safeSend: the mail is sent, or the error is logged and forgotten.
SafeSend(h) ==
  /\ Doing(h, "mail")
  /\ LET m == Head(handler[h].todo)
     IN  mailed' \in {mailed, mailed \cup {<<handler[h].on, m.to, m.kind>>}}
  /\ NextEffect(h)
  /\ UNCHANGED <<bookVars, told, remindVars, payer, contested, takenBack>>

\* A resolution that has told the caregiver and not committed.
ToldAhead(h) == handler[h].move = "release" /\ handler[h].todo = <<>>

\* The server stops, or a statement throws: what was left to do is lost.
HandlerFails(h) ==
  /\ handler[h] # Waiting
  /\ Turns(h, Waiting)
  /\ takenBack' = IF ToldAhead(h) THEN takenBack \cup {handler[h].on} ELSE takenBack
  /\ UNCHANGED <<bookVars, inboxVars, remindVars, payer, contested>>

----------------------------------------------------------------------------
(* sweepEscrowReleases.                                                    *)

Pays(w, q) == payer' = [payer EXCEPT ![w] = q]
NextDue(q) == IF q.due = {} THEN Sleeping ELSE [due |-> q.due, at |-> "write"]

\* The list of captured escrows whose window has elapsed: any of those that have one.
SweepRead(w) ==
  /\ payer[w].at = "read"
  /\ \E due \in (SUBSET {b \in Visits : money[b] = "windowed"}) \ {{}} :
       Pays(w, [due |-> due, at |-> "write"])
  /\ UNCHANGED <<bookVars, inboxVars, remindVars, handler, contested, takenBack>>

PaymentOf(b) == <<b, "caregiver", "payment_released">>

\* A bug: the UPDATE names the escrow, and no status.
SweepWriteUnguarded(w) ==
  /\ payer[w].at = "write"
  /\ \E b \in payer[w].due :
       /\ money' = [money EXCEPT ![b] = "released"]
       /\ told' = [told EXCEPT ![PaymentOf(b)] = OneMore(@)]
       /\ Pays(w, [due |-> payer[w].due \ {b}, at |-> "receipt", of |-> b])
  /\ UNCHANGED <<visit, mailed, remindVars, handler, contested, takenBack>>

\* One escrow of the list: the guarded UPDATE and the notice in one transaction, or
\* neither, when it is no longer captured.
SweepWrite(w) ==
  /\ payer[w].at = "write"
  /\ \E b \in payer[w].due :
       /\ \/ /\ money[b] \in {"captured", "windowed"}
             /\ money' = [money EXCEPT ![b] = "released"]
             /\ told' = [told EXCEPT ![PaymentOf(b)] = OneMore(@)]
          \/ /\ money[b] \notin {"captured", "windowed"}
             /\ UNCHANGED <<money, told>>
       /\ Pays(w, [due |-> payer[w].due \ {b}, at |-> "receipt", of |-> b])
  /\ UNCHANGED <<visit, mailed, remindVars, handler, contested, takenBack>>

\* The receipt is mailed in either case, or its failure logged.
SweepReceipt(w) ==
  /\ payer[w].at = "receipt"
  /\ mailed' \in {mailed, mailed \cup {PaymentOf(payer[w].of)}}
  /\ Pays(w, NextDue(payer[w]))
  /\ UNCHANGED <<bookVars, told, remindVars, handler, contested, takenBack>>

\* The worker stops in the middle of a run.
SweepStops(w) ==
  /\ payer[w] # Sleeping
  /\ Pays(w, Sleeping)
  /\ UNCHANGED <<bookVars, inboxVars, remindVars, handler, contested, takenBack>>

----------------------------------------------------------------------------
(* The reminders.                                                          *)

TimePasses(b) ==
  /\ visit[b] # "none"
  /\ clock[b] # "past"
  /\ clock' = [clock EXCEPT ![b] = IF @ = "far" THEN "near" ELSE "past"]
  /\ UNCHANGED <<bookVars, handler, payer, contested, takenBack, inboxVars, reminded, job, disturbed>>

\* A bug: bookings that were reminded already are listed again.
DueAgain(b) == visit[b] = "confirmed" /\ clock[b] = "near"

Due(b) == visit[b] = "confirmed" /\ ~ reminded[b] /\ clock[b] = "near"

\* Bookings another run has listed and not marked yet.
Listed(j) ==
  UNION {job[k].due \cup (IF job[k].at = "mark" THEN {job[k].of} ELSE {}) : k \in Jobs \ {j}}

\* sendBookingReminders: the list of due bookings.
ReminderRead(j) ==
  /\ job[j].at = "read"
  /\ \E b \in Visits : Due(b)
  /\ LET due == {b \in Visits : Due(b)}
     IN  /\ job' = [job EXCEPT ![j] = [due |-> due, at |-> "insert"]]
         /\ disturbed' = disturbed \cup (due \cap Listed(j))
  /\ UNCHANGED <<bookVars, handler, payer, contested, takenBack, inboxVars, clock, reminded>>

\* A bug: the booking is marked before its reminders are inserted.
ReminderInsertLate(j) ==
  /\ job[j].at = "insert"
  /\ \E b \in job[j].due :
       /\ reminded' = [reminded EXCEPT ![b] = TRUE]
       /\ job' = [job EXCEPT ![j] = [due |-> @.due \ {b}, at |-> "mark", of |-> b]]
  /\ UNCHANGED <<bookVars, handler, payer, contested, takenBack, inboxVars, clock, disturbed>>

\* Both reminders of one booking, in one statement.
ReminderInsert(j) ==
  /\ job[j].at = "insert"
  /\ \E b \in job[j].due :
       /\ told' = [k \in DOMAIN told |->
            IF k[1] = b /\ k[3] = "booking_reminder" THEN OneMore(told[k]) ELSE told[k]]
       /\ job' = [job EXCEPT ![j] = [due |-> @.due \ {b}, at |-> "mark", of |-> b]]
  /\ UNCHANGED <<bookVars, handler, payer, contested, takenBack, mailed, clock, reminded, disturbed>>

\* The next statement marks it, by id.
ReminderMark(j) ==
  /\ job[j].at = "mark"
  /\ reminded' = [reminded EXCEPT ![job[j].of] = TRUE]
  /\ job' = [job EXCEPT ![j] =
       IF @.due = {} THEN Sleeping ELSE [due |-> @.due, at |-> "insert"]]
  /\ UNCHANGED <<bookVars, handler, payer, contested, takenBack, inboxVars, clock, disturbed>>

\* The worker stops in the middle of a run.
ReminderStops(j) ==
  /\ job[j] # Sleeping
  /\ disturbed' = IF job[j].at = "mark" THEN disturbed \cup {job[j].of} ELSE disturbed
  /\ job' = [job EXCEPT ![j] = Sleeping]
  /\ UNCHANGED <<bookVars, handler, payer, contested, takenBack, inboxVars, clock, reminded>>

NoticesNext ==
  \/ \E h \in Handlers, b \in Visits :
       Request(h, b) \/ ReviewBoth(h, b) \/ \E move \in DOMAIN Moves : Check(h, b, move)
  \/ \E h \in Handlers :
       CommitMove(h) \/ Settle(h) \/ NotifyUser(h) \/ SafeSend(h) \/ HandlerFails(h)
  \/ \E w \in Payers : SweepRead(w) \/ SweepWrite(w) \/ SweepReceipt(w) \/ SweepStops(w)
  \/ \E b \in Visits : TimePasses(b)
  \/ \E j \in Jobs : ReminderRead(j) \/ ReminderInsert(j) \/ ReminderMark(j) \/ ReminderStops(j)

NoticesSpec == NoticesInit /\ [][NoticesNext]_noticeVars

----------------------------------------------------------------------------
(* Properties.                                                             *)

Reminders(b, side) == told[<<b, side, "booking_reminder">>]

\* Nobody is mailed about something the inbox does not hold: a mail goes out after
\* its notice was committed.  But the sweep mails its receipt also when it finds the
\* escrow released by a review, whose notice may be late or lost.
MailsBacked ==
  \A m \in mailed :
    \/ told[m] >= 1
    \/ m[3] = "payment_released" /\ (m[1] \in contested \/ money[m[1]] = "released")

\* Nobody is told of one transition twice, or of one payment, unless two actions were
\* between check and write of that booking together; of a payment also when a
\* resolution told of it and failed.
NoticesOnce ==
  \A k \in DOMAIN told :
    \/ k[3] = "booking_reminder" \/ k[1] \in contested
    \/ k[3] = "payment_released" /\ k[1] \in takenBack
    \/ told[k] <= 1

\* With the same provisos, a caregiver who was told of a payment has an escrow that is
\* released, or is about to be by the resolution that told.
PaymentsBacked ==
  \A b \in Visits \ (contested \cup takenBack) :
    told[PaymentOf(b)] >= 1 =>
      money[b] = "released" \/ \E h \in Handlers : handler[h].on = b /\ ToldAhead(h)

\* What the parties find in their inbox and their mail, from whichever of the actions,
\* the sweep and the admin it came, with all of them interleaved and failing anywhere.
ToldOnce == MailsBacked /\ NoticesOnce /\ PaymentsBacked

\* A booking marked as reminded has been: both parties have the reminder, with
\* runs overlapping and stopping anywhere.
MarkedMeansReminded ==
  \A b \in Visits : reminded[b] => \A side \in Parties : Reminders(b, side) >= 1

\* "Each booking is reminded at most once": true while the runs that list it
\* neither overlap nor stop between its two statements.
RemindedOnceInTurn ==
  \A b \in Visits \ disturbed, side \in Parties : Reminders(b, side) <= 1

============================================================================
