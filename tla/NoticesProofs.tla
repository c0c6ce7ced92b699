--------------------------- MODULE NoticesProofs ---------------------------
(***************************************************************************)
(* Proofs about Notices, for any bookings, any number of actions under way *)
(* and of runs of the two jobs that overlap and stop anywhere: the         *)
(* reminders, and the notices and mails of transitions and payments.       *)
(***************************************************************************)
EXTENDS Notices, SequenceTheorems, TLAPS

----------------------------------------------------------------------------
(* The inductive invariant.                                                *)

Keys == Visits \X Parties \X Kinds

\* What an action may still have to do: never a reminder.
Items ==
  [how : {"notify", "mail"}, to : Parties, kind : Kinds \ {"booking_reminder"}]
  \cup [how : {"escrow"}, does : DOMAIN Effects]

Actions ==
  [on : Visits \cup {"nothing"}, move : DOMAIN Moves \cup {"none"}, todo : Seq(Items)]

Typed ==
  /\ told \in [Keys -> 0..ManyTimes]
  /\ reminded \in [Visits -> BOOLEAN]
  /\ handler \in [Handlers -> Actions]
  /\ DOMAIN job = Jobs

\* A run at rest has listed nothing; one about to mark has struck the booking off.
Run(q) ==
  /\ q.at \in {"read", "insert", "mark"}
  /\ q.due \subseteq Visits
  /\ q.at = "read" => q.due = {}
  /\ q.at = "mark" => q.of \in Visits /\ q.of \notin q.due

\* What a run has listed and not marked yet.
Held(q) == q.due \cup (IF q.at = "mark" THEN {q.of} ELSE {})

Reminded(b) == \A side \in Parties : Reminders(b, side) >= 1

\* The mark, and a run about to set it, come after both reminders.
MarkBacked ==
  /\ \A b \in Visits : reminded[b] => Reminded(b)
  /\ \A j \in Jobs : job[j].at = "mark" => Reminded(job[j].of)

\* Of a booking nothing disturbed: one run at most holds it, one that has yet to insert
\* finds no reminder, and a reminder with no run about to mark it is marked.
InTurn(b) ==
  /\ \A j, k \in Jobs : b \in Held(job[j]) /\ b \in Held(job[k]) => j = k
  /\ \A side \in Parties :
       /\ Reminders(b, side) <= 1
       /\ \A j \in Jobs : b \in job[j].due => Reminders(b, side) = 0
       /\ Reminders(b, side) = 0 \/ reminded[b]
            \/ \E j \in Jobs : job[j].at = "mark" /\ job[j].of = b

RemindInv ==
  /\ Typed
  /\ \A j \in Jobs : Run(job[j])
  /\ MarkBacked
  /\ \A b \in Visits \ disturbed : InTurn(b)

----------------------------------------------------------------------------
LEMMA MovesAre ==
  DOMAIN Moves = {"accept", "decline", "withdraw", "cancel", "start", "confirm", "finish",
                  "family_disputes", "caregiver_disputes", "release", "refund"}
BY DEF Moves

LEMMA ItemsAre ==
  /\ \A to \in Parties, kind \in Kinds \ {"booking_reminder"} :
       Notice(to, kind) \in Items /\ Mail(to, kind) \in Items
  /\ \A effect \in DOMAIN Effects : Escrow(effect) \in Items
BY DEF Notice, Mail, Escrow, Items

LEMMA EffectsAfter ==
  /\ \A move \in DOMAIN Moves : After[move] \in Seq(Items) /\ Inside(move) \in Seq(Items)
  /\ BothReviewed \in Seq(Items)
<1>1. /\ Notice("family", "booking_confirmed") \in Items
      /\ Mail("family", "booking_confirmed") \in Items
      /\ Notice("family", "booking_declined") \in Items
      /\ Notice("family", "review_request") \in Items
      /\ Notice("caregiver", "review_request") \in Items
      /\ Mail("family", "review_request") \in Items
      /\ Mail("caregiver", "review_request") \in Items
      /\ Notice("family", "dispute_opened") \in Items
      /\ Notice("caregiver", "dispute_opened") \in Items
      /\ Notice("caregiver", "payment_released") \in Items
      /\ Mail("caregiver", "payment_released") \in Items
  BY ItemsAre DEF Parties, Kinds
<1>2. /\ Escrow("authorize") \in Items /\ Escrow("unwind") \in Items
      /\ Escrow("capture") \in Items /\ Escrow("window") \in Items
      /\ Escrow("hold") \in Items /\ Escrow("pay") \in Items
  BY ItemsAre DEF Effects
<1>3. /\ <<>> \in Seq(Items)
      /\ \A a \in Items : <<a>> \in Seq(Items)
      /\ \A a, b \in Items : <<a, b>> \in Seq(Items)
      /\ \A a, b, c \in Items : <<a, b, c>> \in Seq(Items)
      /\ \A a, b, c, d, e \in Items : <<a, b, c, d, e>> \in Seq(Items)
  OBVIOUS
<1>4. /\ After["accept"] \in Seq(Items) /\ After["decline"] \in Seq(Items)
      /\ After["withdraw"] \in Seq(Items) /\ After["cancel"] \in Seq(Items)
      /\ After["start"] \in Seq(Items) /\ After["confirm"] \in Seq(Items)
  BY <1>1, <1>2, <1>3 DEF After
<1>5. /\ After["finish"] \in Seq(Items)
      /\ After["family_disputes"] \in Seq(Items) /\ After["caregiver_disputes"] \in Seq(Items)
      /\ After["release"] \in Seq(Items) /\ After["refund"] \in Seq(Items)
  BY <1>1, <1>2, <1>3 DEF After
<1>6. \A move : Inside(move) \in Seq(Items)
  BY <1>1, <1>3 DEF Inside
<1>7. BothReviewed \in Seq(Items)
  BY <1>1, <1>2, <1>3 DEF BothReviewed
<1>8. QED
  BY <1>4, <1>5, <1>6, <1>7, MovesAre

\* A step of an action, or of the clock, that tells nobody about a reminder.
LEMMA RemindersKept ==
  ASSUME RemindInv, Typed', UNCHANGED <<reminded, job, disturbed>>,
         \A b \in Visits, side \in Parties : Reminders(b, side)' = Reminders(b, side)
  PROVE  RemindInv'
<1>1. \A j \in Jobs : Run(job[j])'
  BY DEF RemindInv, Run
<1>2. MarkBacked'
  BY DEF RemindInv, MarkBacked, Reminded, Run
<1>3. ASSUME NEW b \in Visits \ disturbed PROVE InTurn(b)'
  BY <1>3 DEF RemindInv, InTurn, Held
<1>4. QED
  BY <1>1, <1>2, <1>3 DEF RemindInv

\* What is left to do stays a list of items, and a step moves on by one.
LEMMA OneDone ==
  ASSUME Typed, NEW h \in Handlers, handler[h].todo # <<>>,
         NextEffect(h) \/ Turns(h, Waiting)
  PROVE  Head(handler[h].todo) \in Items /\ handler' \in [Handlers -> Actions]
<1>1. PICK q \in Actions : q = handler[h]
  BY DEF Typed
<1>2. Head(q.todo) \in Items /\ Tail(q.todo) \in Seq(Items)
  BY <1>1 DEF Actions
<1>3. [q EXCEPT !.todo = Tail(q.todo)] \in Actions /\ Waiting \in Actions
  BY <1>2 DEF Actions, Waiting
<1>4. PICK r \in Actions : handler' = [handler EXCEPT ![h] = r]
  BY <1>1, <1>3 DEF NextEffect, Turns
<1>5. QED
  BY <1>1, <1>2, <1>4 DEF Typed

LEMMA HandlersStep ==
  ASSUME RemindInv, NEW h \in Handlers,
         \/ \E b \in Visits : \/ Request(h, b) \/ ReviewBoth(h, b)
                              \/ \E move \in DOMAIN Moves : Check(h, b, move)
         \/ CommitMove(h) \/ Settle(h) \/ NotifyUser(h) \/ SafeSend(h) \/ HandlerFails(h)
  PROVE  RemindInv'
<1>1. Waiting \in Actions
  BY DEF Waiting, Actions
<1>2. ASSUME UNCHANGED <<remindVars, told>>, handler' \in [Handlers -> Actions]
      PROVE  RemindInv'
  <2>1. Typed' /\ UNCHANGED <<reminded, job, disturbed>>
    BY <1>2 DEF RemindInv, Typed, remindVars
  <2>2. \A b \in Visits, side \in Parties : Reminders(b, side)' = Reminders(b, side)
    BY <1>2 DEF Reminders
  <2>3. QED
    BY <2>1, <2>2, RemindersKept
\* A handler that begins, or commits its move.
<1>3. ASSUME NEW q \in Actions, Turns(h, q), UNCHANGED <<remindVars, told>>
      PROVE  RemindInv'
  BY <1>2, <1>3 DEF Turns, RemindInv, Typed
<1>4. ASSUME NEW b \in Visits, Request(h, b) PROVE RemindInv'
  <2>1. Notice("caregiver", "booking_requested") \in Items
    BY ItemsAre DEF Parties, Kinds
  <2>2. [on |-> b, move |-> "none", todo |-> <<Notice("caregiver", "booking_requested")>>]
          \in Actions
    BY <2>1 DEF Actions
  <2>3. QED
    BY <1>3, <1>4, <2>2 DEF Request, inboxVars
<1>5. ASSUME NEW b \in Visits, ReviewBoth(h, b) PROVE RemindInv'
  <2>1. [on |-> b, move |-> "none", todo |-> BothReviewed] \in Actions
    BY EffectsAfter DEF Actions
  <2>2. QED
    BY <1>3, <1>5, <2>1 DEF ReviewBoth, inboxVars
<1>6. ASSUME NEW b \in Visits, NEW move \in DOMAIN Moves, Check(h, b, move) PROVE RemindInv'
  <2>1. [on |-> b, move |-> move, todo |-> Inside(move)] \in Actions
    BY EffectsAfter DEF Actions
  <2>2. QED
    BY <1>3, <1>6, <2>1 DEF Check, inboxVars
<1>7. CASE CommitMove(h)
  <2>1. PICK q \in Actions : q = handler[h]
    BY DEF RemindInv, Typed
  <2>2. q.move \in DOMAIN Moves /\ After[q.move] \in Seq(Items)
    BY <1>7, <2>1, EffectsAfter DEF CommitMove, Actions
  <2>3. [on |-> q.on, move |-> "none", todo |-> After[q.move]] \in Actions
    BY <2>2 DEF Actions
  <2>4. QED
    BY <1>1, <1>3, <1>7, <2>1, <2>3 DEF CommitMove, inboxVars
<1>8. CASE Settle(h)
  <2>1. handler' \in [Handlers -> Actions]
    BY <1>8, OneDone DEF Settle, Doing, RemindInv
  <2>2. QED
    BY <1>2, <1>8, <2>1 DEF Settle, inboxVars
<1>9. CASE NotifyUser(h)
  <2>1. Head(handler[h].todo) \in Items /\ handler' \in [Handlers -> Actions]
    BY <1>9, OneDone DEF NotifyUser, Doing, RemindInv
  <2>2. PICK n \in Items : /\ n.how = "notify"
                           /\ told' = [told EXCEPT ![<<handler[h].on, n.to, n.kind>>] = OneMore(@)]
    BY <1>9, <2>1 DEF NotifyUser, Doing
  <2>3. \A m \in 0..ManyTimes : OneMore(m) \in 0..ManyTimes
    BY DEF OneMore, ManyTimes
  <2>4. told' \in [Keys -> 0..ManyTimes]
    <3>1. PICK k : told' = [told EXCEPT ![k] = OneMore(told[k])]
      BY <2>2
    <3>2. QED
      BY <2>3, <3>1 DEF RemindInv, Typed
  <2>5. \A b \in Visits, side \in Parties : Reminders(b, side)' = Reminders(b, side)
    BY <2>2 DEF Reminders, Items, RemindInv, Typed
  <2>6. Typed' /\ UNCHANGED <<reminded, job, disturbed>>
    BY <1>9, <2>1, <2>4 DEF NotifyUser, RemindInv, Typed, remindVars
  <2>7. QED
    BY <2>5, <2>6, RemindersKept
<1>10. CASE SafeSend(h)
  <2>1. handler' \in [Handlers -> Actions]
    BY <1>10, OneDone DEF SafeSend, Doing, RemindInv
  <2>2. QED
    BY <1>2, <1>10, <2>1 DEF SafeSend
<1>11. CASE HandlerFails(h)
  BY <1>1, <1>3, <1>11 DEF HandlerFails, inboxVars
<1>12. QED
  BY <1>4, <1>5, <1>6, <1>7, <1>8, <1>9, <1>10, <1>11

\* The sweep tells of payments only.
LEMMA SweepAside ==
  ASSUME RemindInv, NEW w \in Payers,
         SweepRead(w) \/ SweepWrite(w) \/ SweepReceipt(w) \/ SweepStops(w)
  PROVE  RemindInv'
<1>1. UNCHANGED <<reminded, job, disturbed, handler>>
  BY DEF SweepRead, SweepWrite, SweepReceipt, SweepStops, remindVars
<1>2. UNCHANGED told \/ \E b : told' = [told EXCEPT ![PaymentOf(b)] = OneMore(told[PaymentOf(b)])]
  <2>1. CASE SweepWrite(w)
    BY <2>1 DEF SweepWrite
  <2>2. CASE SweepRead(w) \/ SweepReceipt(w) \/ SweepStops(w)
    BY <2>2 DEF SweepRead, SweepReceipt, SweepStops, inboxVars
  <2>3. QED
    BY <2>1, <2>2
<1>3. \A m \in 0..ManyTimes : OneMore(m) \in 0..ManyTimes
  BY DEF OneMore, ManyTimes
<1>4. told' \in [Keys -> 0..ManyTimes]
  BY <1>2, <1>3 DEF RemindInv, Typed
<1>5. \A b \in Visits, side \in Parties : Reminders(b, side)' = Reminders(b, side)
  <2>1. ASSUME NEW c, told' = [told EXCEPT ![PaymentOf(c)] = OneMore(told[PaymentOf(c)])],
               NEW b \in Visits, NEW side \in Parties
        PROVE  Reminders(b, side)' = Reminders(b, side)
    <3>1. <<b, side, "booking_reminder">> # PaymentOf(c) /\ <<b, side, "booking_reminder">> \in Keys
      BY DEF PaymentOf, Keys, Kinds
    <3>2. QED
      BY <2>1, <3>1 DEF Reminders, RemindInv, Typed
  <2>2. QED
    BY <1>2, <2>1 DEF Reminders
<1>6. Typed'
  BY <1>1, <1>4 DEF RemindInv, Typed
<1>7. QED
  BY <1>1, <1>5, <1>6, RemindersKept

LEMMA ReminderReadStep ==
  ASSUME RemindInv, NEW j \in Jobs, ReminderRead(j)
  PROVE  RemindInv'
<1> DEFINE due == {b \in Visits : Due(b)}
<1>1. /\ job' = [job EXCEPT ![j] = [due |-> due, at |-> "insert"]]
      /\ disturbed' = disturbed \cup (due \cap Listed(j))
      /\ UNCHANGED <<told, reminded, handler>>
      /\ job[j].due = {} /\ job[j].at = "read"
  BY DEF ReminderRead, RemindInv, Run, inboxVars
<1>2. Typed' /\ \A k \in Jobs : Run(job[k])'
  BY <1>1 DEF RemindInv, Typed, Run
<1>3. MarkBacked'
  BY <1>1 DEF RemindInv, Typed, MarkBacked, Reminded, Reminders
<1>4. \A b : b \in Listed(j) <=> \E k \in Jobs \ {j} : b \in Held(job[k])
  BY DEF Listed, Held
<1>5. ASSUME NEW b \in Visits \ disturbed' PROVE InTurn(b)'
  <2>1. InTurn(b) /\ b \notin due \cap Listed(j)
    BY <1>1, <1>5 DEF RemindInv
  <2>2. \A k \in Jobs \ {j} : job'[k] = job[k]
    BY <1>1 DEF RemindInv, Typed
  <2>3. job'[j] = [due |-> due, at |-> "insert"]
    BY <1>1 DEF RemindInv, Typed
  <2>4. \A side \in Parties : Reminders(b, side)' = Reminders(b, side)
    BY <1>1 DEF Reminders
  <2>5. CASE b \in due
    <3>1. ~ reminded[b] /\ \A k \in Jobs \ {j} : b \notin Held(job[k])
      BY <1>4, <2>1, <2>5 DEF Due
    <3>2. \A k \in Jobs \ {j} : ~ (job[k].at = "mark" /\ job[k].of = b)
      BY <3>1 DEF Held
    <3>3. \A side \in Parties : Reminders(b, side) = 0
      BY <1>1, <2>1, <3>1, <3>2 DEF InTurn
    <3>4. QED
      BY <2>2, <2>3, <2>4, <3>1, <3>3 DEF InTurn, Held
  <2>6. CASE b \notin due
    <3>1. b \notin Held(job'[j]) /\ \A k \in Jobs \ {j} : Held(job'[k]) = Held(job[k])
      BY <2>2, <2>3, <2>6 DEF Held
    <3>2. \A k, m \in Jobs : b \in Held(job'[k]) /\ b \in Held(job'[m]) => k = m
      BY <2>1, <3>1 DEF InTurn
    <3>3. ASSUME NEW side \in Parties
          PROVE  /\ Reminders(b, side) <= 1
                 /\ \A k \in Jobs : b \in job'[k].due => Reminders(b, side) = 0
                 /\ Reminders(b, side) = 0 \/ reminded[b]
                      \/ \E k \in Jobs : job'[k].at = "mark" /\ job'[k].of = b
      BY <1>1, <2>1, <2>2, <2>3, <2>6 DEF InTurn
    <3>4. QED
      BY <1>1, <2>4, <3>2, <3>3 DEF InTurn
  <2>7. QED
    BY <2>5, <2>6
<1>6. QED
  BY <1>2, <1>3, <1>5 DEF RemindInv

LEMMA ReminderInsertStep ==
  ASSUME RemindInv, NEW j \in Jobs, ReminderInsert(j)
  PROVE  RemindInv'
<1>1. PICK b \in job[j].due :
        /\ told' = [k \in DOMAIN told |->
             IF k[1] = b /\ k[3] = "booking_reminder" THEN OneMore(told[k]) ELSE told[k]]
        /\ job' = [job EXCEPT ![j] = [due |-> @.due \ {b}, at |-> "mark", of |-> b]]
  BY DEF ReminderInsert
<1>2. /\ job[j].at = "insert" /\ b \in Visits /\ job[j].due \subseteq Visits
      /\ UNCHANGED <<reminded, disturbed, handler>>
  BY DEF ReminderInsert, RemindInv, Run
<1>3. /\ job'[j] = [due |-> job[j].due \ {b}, at |-> "mark", of |-> b]
      /\ \A k \in Jobs \ {j} : job'[k] = job[k]
  BY <1>1 DEF RemindInv, Typed
<1>4. ASSUME NEW n \in 0..ManyTimes
      PROVE  OneMore(n) \in 0..ManyTimes /\ OneMore(n) >= 1 /\ OneMore(0) = 1
  BY DEF OneMore, ManyTimes
<1>5. Typed'
  BY <1>1, <1>2, <1>4 DEF RemindInv, Typed
<1>6. \A k \in Jobs : Run(job'[k])
  BY <1>2, <1>3 DEF RemindInv, Run
<1>7. ASSUME NEW c \in Visits, NEW side \in Parties
      PROVE  /\ Reminders(c, side) \in 0..ManyTimes
             /\ Reminders(c, side)' = IF c = b THEN OneMore(Reminders(c, side))
                                      ELSE Reminders(c, side)
  <2>1. <<c, side, "booking_reminder">> \in Keys
    BY DEF Keys, Kinds
  <2>2. QED
    BY <1>1, <2>1 DEF RemindInv, Typed, Reminders
<1>8. MarkBacked'
  <2>1. \A c \in Visits : c = b \/ Reminded(c) => Reminded(c)'
    BY <1>4, <1>7 DEF Reminded
  <2>2. QED
    BY <1>2, <1>3, <2>1 DEF RemindInv, Run, MarkBacked
<1>9. ASSUME NEW c \in Visits \ disturbed' PROVE InTurn(c)'
  <2>1. InTurn(c)
    BY <1>2, <1>9 DEF RemindInv
  <2>2. \A k \in Jobs : c \in Held(job'[k]) => c \in Held(job[k])
    BY <1>2, <1>3 DEF Held
  <2>3. \A k, m \in Jobs : c \in Held(job'[k]) /\ c \in Held(job'[m]) => k = m
    BY <2>1, <2>2 DEF InTurn
  <2>4. ASSUME NEW side \in Parties
        PROVE  /\ Reminders(c, side)' <= 1
               /\ \A k \in Jobs : c \in job'[k].due => Reminders(c, side)' = 0
               /\ Reminders(c, side)' = 0 \/ reminded[c]
                    \/ \E k \in Jobs : job'[k].at = "mark" /\ job'[k].of = c
    <3>1. CASE c = b
      <4>1. Reminders(c, side) = 0 /\ Reminders(c, side)' = 1
        BY <1>1, <1>4, <1>7, <2>1, <3>1 DEF InTurn
      <4>2. c \in Held(job'[j]) /\ c \notin job'[j].due
        BY <1>3, <3>1 DEF Held
      <4>3. \A k \in Jobs : c \notin job'[k].due
        BY <2>3, <4>2 DEF Held
      <4>4. QED
        BY <1>3, <3>1, <4>1, <4>3
    <3>2. CASE c # b
      <4>1. Reminders(c, side)' = Reminders(c, side)
        BY <1>7, <3>2
      <4>2. \A k \in Jobs : c \in job'[k].due => c \in job[k].due
        BY <1>3
      <4>3. \A k \in Jobs : job[k].at = "mark" /\ job[k].of = c => job'[k] = job[k]
        BY <1>2, <1>3
      <4>4. QED
        BY <2>1, <4>1, <4>2, <4>3 DEF InTurn
    <3>3. QED
      BY <3>1, <3>2
  <2>5. QED
    BY <1>2, <2>3, <2>4 DEF InTurn
<1>10. QED
  BY <1>5, <1>6, <1>8, <1>9 DEF RemindInv

LEMMA ReminderMarkStep ==
  ASSUME RemindInv, NEW j \in Jobs, ReminderMark(j)
  PROVE  RemindInv'
<1>1. PICK b : b = job[j].of
  OBVIOUS
<1>2. /\ job[j].at = "mark" /\ b \in Visits /\ b \notin job[j].due
      /\ reminded' = [reminded EXCEPT ![b] = TRUE]
      /\ job' = [job EXCEPT ![j] =
           IF job[j].due = {} THEN Sleeping ELSE [due |-> job[j].due, at |-> "insert"]]
      /\ UNCHANGED <<told, disturbed, handler>>
  BY <1>1 DEF ReminderMark, RemindInv, Run, inboxVars
<1>3. PICK q : /\ q = IF job[j].due = {} THEN Sleeping ELSE [due |-> job[j].due, at |-> "insert"]
               /\ job' = [job EXCEPT ![j] = q]
  BY <1>2
<1>4. q.due = job[j].due /\ q.at \in {"read", "insert"} /\ Run(q)
  BY <1>3 DEF Sleeping, RemindInv, Run
<1>5. job'[j] = q /\ \A k \in Jobs \ {j} : job'[k] = job[k]
  BY <1>3 DEF RemindInv, Typed
<1>6. Typed' /\ \A k \in Jobs : Run(job'[k])
  BY <1>2, <1>3, <1>4, <1>5 DEF RemindInv, Typed
<1>7. MarkBacked'
  BY <1>1, <1>2, <1>4, <1>5 DEF RemindInv, Typed, MarkBacked, Reminded, Reminders
<1>8. ASSUME NEW c \in Visits \ disturbed' PROVE InTurn(c)'
  <2>1. InTurn(c)
    BY <1>2, <1>8 DEF RemindInv
  <2>2. \A k \in Jobs : c \in Held(job'[k]) => c \in Held(job[k])
    BY <1>4, <1>5 DEF Held
  <2>3. \A k, m \in Jobs : c \in Held(job'[k]) /\ c \in Held(job'[m]) => k = m
    BY <2>1, <2>2 DEF InTurn
  <2>4. reminded'[c] \/ (~ reminded[c] /\ c # b)
    BY <1>2 DEF RemindInv, Typed
  <2>5. ASSUME NEW side \in Parties
        PROVE  /\ Reminders(c, side) <= 1
               /\ \A k \in Jobs : c \in job'[k].due => Reminders(c, side) = 0
               /\ Reminders(c, side) = 0 \/ reminded'[c]
                    \/ \E k \in Jobs : job'[k].at = "mark" /\ job'[k].of = c
    BY <1>1, <1>4, <1>5, <2>1, <2>4 DEF InTurn
  <2>6. \A side \in Parties : Reminders(c, side)' = Reminders(c, side)
    BY <1>2 DEF Reminders
  <2>7. QED
    BY <2>3, <2>5, <2>6 DEF InTurn
<1>9. QED
  BY <1>6, <1>7, <1>8 DEF RemindInv

LEMMA ReminderStopsStep ==
  ASSUME RemindInv, NEW j \in Jobs, ReminderStops(j)
  PROVE  RemindInv'
<1>1. /\ job' = [job EXCEPT ![j] = Sleeping]
      /\ disturbed \subseteq disturbed'
      /\ job[j].at = "mark" => job[j].of \in disturbed'
      /\ UNCHANGED <<told, reminded, handler>>
  BY DEF ReminderStops, inboxVars
<1>2. job'[j] = Sleeping /\ \A k \in Jobs \ {j} : job'[k] = job[k]
  BY <1>1 DEF RemindInv, Typed
<1>3. Typed' /\ \A k \in Jobs : Run(job'[k])
  BY <1>1, <1>2 DEF RemindInv, Typed, Run, Sleeping
<1>4. MarkBacked'
  BY <1>1, <1>2 DEF RemindInv, MarkBacked, Reminded, Reminders, Sleeping
<1>5. ASSUME NEW c \in Visits \ disturbed' PROVE InTurn(c)'
  <2>1. InTurn(c) /\ ~ (job[j].at = "mark" /\ job[j].of = c)
    BY <1>1, <1>5 DEF RemindInv
  <2>2. c \notin Held(job'[j]) /\ c \notin job'[j].due
    BY <1>2 DEF Held, Sleeping
  <2>3. \A k, m \in Jobs : c \in Held(job'[k]) /\ c \in Held(job'[m]) => k = m
    BY <1>2, <2>1, <2>2 DEF InTurn
  <2>4. ASSUME NEW side \in Parties
        PROVE  /\ Reminders(c, side) <= 1
               /\ \A k \in Jobs : c \in job'[k].due => Reminders(c, side) = 0
               /\ Reminders(c, side) = 0 \/ reminded[c]
                    \/ \E k \in Jobs : job'[k].at = "mark" /\ job'[k].of = c
    BY <1>2, <2>1, <2>2 DEF InTurn
  <2>5. \A side \in Parties : Reminders(c, side)' = Reminders(c, side)
    BY <1>1 DEF Reminders
  <2>6. QED
    BY <1>1, <2>3, <2>4, <2>5 DEF InTurn
<1>6. QED
  BY <1>3, <1>4, <1>5 DEF RemindInv

LEMMA RemindInit == NoticesInit => RemindInv
<1> SUFFICES ASSUME NoticesInit PROVE RemindInv
  OBVIOUS
<1>1. Waiting \in Actions
  BY DEF Waiting, Actions
<1>2. Typed
  BY <1>1 DEF NoticesInit, Typed, Keys, ManyTimes
<1>3. \A b \in Visits, side \in Parties : Reminders(b, side) = 0
  BY DEF NoticesInit, Reminders, Kinds
<1>4. QED
  BY <1>2, <1>3 DEF NoticesInit, RemindInv, Run, MarkBacked, InTurn, Held, Sleeping

LEMMA RemindNext == RemindInv /\ [NoticesNext]_noticeVars => RemindInv'
<1> SUFFICES ASSUME RemindInv, [NoticesNext]_noticeVars PROVE RemindInv'
  OBVIOUS
<1>1. ASSUME UNCHANGED <<told, reminded, handler, job, disturbed>> PROVE RemindInv'
  BY <1>1, RemindersKept DEF RemindInv, Typed, Reminders
<1>2. ASSUME NEW b \in Visits, TimePasses(b) PROVE RemindInv'
  BY <1>1, <1>2 DEF TimePasses, inboxVars
<1>3. CASE UNCHANGED noticeVars
  BY <1>1, <1>3 DEF noticeVars, inboxVars, remindVars
<1>4. QED
  BY <1>2, <1>3, HandlersStep, SweepAside, ReminderReadStep, ReminderInsertStep, ReminderMarkStep,
     ReminderStopsStep DEF NoticesNext

----------------------------------------------------------------------------
\* The inductive invariant of reminders and of the runs of the job under way.
THEOREM RemindersInvariant == NoticesSpec => []RemindInv
BY RemindInit, RemindNext, PTL DEF NoticesSpec

\* The job inserts before it marks: with any number of runs overlapping and stopping
\* anywhere, a booking marked as reminded has both reminders.
THEOREM MarkedAreReminded == NoticesSpec => []MarkedMeansReminded
<1>1. RemindInv => MarkedMeansReminded
  BY DEF RemindInv, MarkBacked, Reminded, MarkedMeansReminded
<1>2. QED
  BY <1>1, RemindersInvariant, PTL

\* A second reminder takes two runs that list a booking together, or one that stops
\* between its insert and its mark.
THEOREM RemindedOnce == NoticesSpec => []RemindedOnceInTurn
<1>1. RemindInv => RemindedOnceInTurn
  BY DEF RemindInv, InTurn, RemindedOnceInTurn
<1>2. QED
  BY <1>1, RemindersInvariant, PTL

----------------------------------------------------------------------------
(* The notices and mails of transitions and payments.                      *)

\* The statuses a booking may have once the transition a notice tells of is committed;
\* none, where no transition has that notice.
Reached ==
  [booking_requested |-> {"requested", "confirmed", "in_progress", "completed", "disputed",
                          "cancelled"},
   booking_confirmed |-> {"confirmed", "in_progress", "completed", "disputed", "cancelled"},
   booking_declined  |-> {"cancelled"},
   review_request    |-> {"completed"},
   dispute_opened    |-> {"disputed", "completed", "cancelled"},
   payment_released  |-> {}]

\* The caregiver's notice of a payment has an invariant of its own.
OfTransition(to, kind) == kind # "payment_released" \/ to = "family"

Paid == Notice("caregiver", "payment_released")
Closed == {"released", "refunded"}

Owes(q, b, n) == q.on = b /\ \E i \in 1..Len(q.todo) : q.todo[i] = n
Moving(q, b) == q.on = b /\ q.move # "none"

\* What an action still has to do is about a booking; only a resolution has something to
\* tell before its update; every item is there once, the payment comes first, and a mail
\* has its notice before it, or in the inbox.
Handling(q, inbox) ==
  /\ q.on \in Visits \/ (q.move = "none" /\ q.todo = <<>>)
  /\ q.move # "none" =>
       \A i \in 1..Len(q.todo) : i = 1 /\ q.move = "release" /\ q.todo[i] = Paid
  /\ \A i, j \in 1..Len(q.todo) : q.todo[i] = q.todo[j] => i = j
  /\ \A i \in 1..Len(q.todo) : q.todo[i] = Escrow("pay") => i = 1
  /\ \A i \in 1..Len(q.todo) : q.todo[i].how = "mail" =>
       \/ inbox[<<q.on, q.todo[i].to, q.todo[i].kind>>] >= 1
       \/ \E j \in 1..(i - 1) : q.todo[j] = Notice(q.todo[i].to, q.todo[i].kind)

\* Of a booking that is not contested, one action is between its check and its write.
OneMover(b) ==
  /\ \A g, h \in Handlers : Moving(handler[g], b) /\ Moving(handler[h], b) => g = h
  /\ \A h \in Handlers : Moving(handler[h], b) => visit[b] \in Moves[handler[h].move].from

HandInv ==
  /\ DOMAIN visit = Visits /\ DOMAIN money = Visits
  /\ \A h \in Handlers : Handling(handler[h], told)
  /\ \A b \in Visits \ contested : OneMover(b)

\* A notice of a transition is due from one action at most, before anybody was told, and
\* only once its transition is committed.
TellsOnce(b, to, kind) ==
  /\ told[<<b, to, kind>>] <= 1
  /\ told[<<b, to, kind>>] >= 1 => visit[b] \in Reached[kind]
  /\ \A h \in Handlers : Owes(handler[h], b, Notice(to, kind)) =>
       told[<<b, to, kind>>] = 0 /\ visit[b] \in Reached[kind]
  /\ \A g, h \in Handlers :
       Owes(handler[g], b, Notice(to, kind)) /\ Owes(handler[h], b, Notice(to, kind)) => g = h

TellInv ==
  \A b \in Visits \ contested, to \in Parties, kind \in DOMAIN Reached :
    OfTransition(to, kind) => TellsOnce(b, to, kind)

\* A payment goes with a completed session: a window is opened, and a payment due, only
\* for one; a hold that comes late finds the escrow closed; and what the sweep has
\* listed nobody but a payment can take from it.
Charged(b) ==
  /\ money[b] \in {"windowed", "released"} => visit[b] = "completed"
  /\ \A h \in Handlers :
       /\ Owes(handler[h], b, Escrow("window")) => visit[b] = "completed"
       /\ Owes(handler[h], b, Escrow("pay")) => visit[b] = "completed"
       /\ Owes(handler[h], b, Escrow("hold")) => visit[b] = "disputed" \/ money[b] \in Closed
  /\ \A w \in Payers :
       /\ b \in payer[w].due => money[b] \in {"windowed", "released"}
       /\ payer[w].at = "receipt" /\ payer[w].of = b => money[b] = "released"

\* A review whose payment is made and not told yet.
PaysOut(q, b) == Owes(q, b, Paid) /\ q.move = "none" /\ ~ Owes(q, b, Escrow("pay"))

\* The notice of a payment is due from one action at most, before anybody was told, and
\* once the escrow is released, or from the resolution that is about to release it.
PaidOnce(b) ==
  /\ told[PaymentOf(b)] <= 1
  /\ told[PaymentOf(b)] >= 1 =>
       money[b] = "released" \/ \E h \in Handlers : handler[h].on = b /\ ToldAhead(h)
  /\ \A h \in Handlers : PaysOut(handler[h], b) =>
       told[PaymentOf(b)] = 0 /\ money[b] = "released"
  /\ \A g, h \in Handlers : PaysOut(handler[g], b) /\ PaysOut(handler[h], b) => g = h
  /\ \A h \in Handlers : handler[h].move = "release" /\ Owes(handler[h], b, Paid) =>
       told[PaymentOf(b)] = 0

SweepRun(q) == q.due \subseteq Visits /\ (q.at = "receipt" => q.of \in Visits)

PayInv ==
  /\ DOMAIN payer = Payers /\ \A w \in Payers : SweepRun(payer[w])
  /\ \A b \in Visits \ contested : Charged(b)
  /\ \A b \in Visits \ (contested \cup takenBack) : PaidOnce(b)

MailInv == mailed \subseteq Keys /\ MailsBacked

----------------------------------------------------------------------------
(* What the tables say.                                                    *)

\* Every item once, the payment first, each mail after its notice.
Told(todo) ==
  /\ \A i, j \in 1..Len(todo) : todo[i] = todo[j] => i = j
  /\ \A i \in 1..Len(todo) : todo[i] = Escrow("pay") => i = 1
  /\ \A i \in 1..Len(todo) : todo[i].how = "mail" =>
       \E j \in 1..(i - 1) : todo[j] = Notice(todo[i].to, todo[i].kind)

LEMMA Hows ==
  \A to, kind, effect :
    /\ Notice(to, kind).how = "notify" /\ Notice(to, kind).to = to /\ Notice(to, kind).kind = kind
    /\ Mail(to, kind).how = "mail" /\ Mail(to, kind).to = to /\ Mail(to, kind).kind = kind
    /\ Escrow(effect).how = "escrow" /\ Escrow(effect).does = effect
BY DEF Notice, Mail, Escrow

LEMMA AfterTold ==
  /\ \A move \in DOMAIN Moves : Told(After[move])
  /\ Told(BothReviewed)
<1>1. Told(<<>>)
  BY DEF Told
<1>2. ASSUME NEW a PROVE a.how # "mail" => Told(<<a>>)
  BY DEF Told
<1>3. Told(After["decline"]) /\ Told(After["cancel"]) /\ Told(After["start"])
  BY <1>2, Hows DEF After
<1>4. /\ Told(After["withdraw"]) /\ Told(After["confirm"])
      /\ Told(After["release"]) /\ Told(After["refund"])
  BY <1>1 DEF After
<1>5. ASSUME NEW a, NEW b, a # b, a.how # "mail", b.how # "mail", b # Escrow("pay")
      PROVE  Told(<<a, b>>)
  BY <1>5 DEF Told
<1>6. Told(After["family_disputes"]) /\ Told(After["caregiver_disputes"])
  BY <1>5, Hows DEF After
<1>7. ASSUME NEW a, NEW to, NEW kind, a.how = "escrow"
      PROVE  Told(<<a, Notice(to, kind), Mail(to, kind)>>)
  <2>1. PICK s : s = <<a, Notice(to, kind), Mail(to, kind)>>
    OBVIOUS
  <2>2. Len(s) = 3 /\ s[1] = a /\ s[2] = Notice(to, kind) /\ s[3] = Mail(to, kind)
    BY <2>1
  <2>3. Told(s)
    BY <1>7, <2>2, Hows DEF Told
  <2>4. QED
    BY <2>1, <2>3
<1>8. Told(After["accept"]) /\ Told(BothReviewed)
  BY <1>7, Hows DEF After, BothReviewed
<1>9. Told(After["finish"])
  <2>1. PICK s : s = <<Escrow("window"), Notice("family", "review_request"),
                       Notice("caregiver", "review_request"), Mail("family", "review_request"),
                       Mail("caregiver", "review_request")>>
    OBVIOUS
  <2>2. /\ Len(s) = 5 /\ s[1] = Escrow("window")
        /\ s[2] = Notice("family", "review_request") /\ s[3] = Notice("caregiver", "review_request")
        /\ s[4] = Mail("family", "review_request") /\ s[5] = Mail("caregiver", "review_request")
    BY <2>1
  <2>3. Told(s)
    BY <2>2, Hows DEF Told
  <2>4. QED
    BY <2>1, <2>3 DEF After
<1>10. QED
  BY <1>3, <1>4, <1>6, <1>8, <1>9, MovesAre

\* What a transition tells and what it does to the escrow fits the status it writes.
Fits(move) ==
  \A i \in 1..Len(After[move]) :
    /\ \A to \in Parties, kind \in DOMAIN Reached : After[move][i] = Notice(to, kind) =>
         Moves[move].to \in Reached[kind] /\ Moves[move].from \cap Reached[kind] = {}
    /\ After[move][i] = Escrow("window") => Moves[move].to = "completed"
    /\ After[move][i] = Escrow("hold") => Moves[move].to = "disputed"
    /\ After[move][i] # Escrow("pay") /\ After[move][i] # Paid

LEMMA AfterFits == \A move \in DOMAIN Moves : Fits(move)
<1> USE Hows DEF Paid
<1>1. Fits("accept")
  BY DEF Fits, Moves, After, Reached
<1>2. Fits("decline")
  BY DEF Fits, Moves, After, Reached
<1>3. Fits("cancel")
  BY DEF Fits, After
<1>4. Fits("start")
  BY DEF Fits, After
<1>5. Fits("withdraw") /\ Fits("confirm") /\ Fits("release") /\ Fits("refund")
  BY DEF Fits, After
<1>6. Fits("finish")
  BY DEF Fits, Moves, After, Reached
<1>7. Fits("family_disputes")
  BY DEF Fits, Moves, After, Reached
<1>8. Fits("caregiver_disputes")
  BY DEF Fits, Moves, After, Reached
<1>9. QED
  BY <1>1, <1>2, <1>3, <1>4, <1>5, <1>6, <1>7, <1>8, MovesAre

LEMMA ReviewFits ==
  \A i \in 1..Len(BothReviewed) :
    /\ BothReviewed[i] # Escrow("window") /\ BothReviewed[i] # Escrow("hold")
    /\ \A to, kind : BothReviewed[i] = Notice(to, kind) => ~ OfTransition(to, kind)
BY Hows DEF BothReviewed, OfTransition

LEMMA ReviewPays == BothReviewed[1] = Escrow("pay") /\ 1 \in 1..Len(BothReviewed)
BY DEF BothReviewed

LEMMA ReachedOnward ==
  \A move \in DOMAIN Moves, kind \in DOMAIN Reached : \A status \in Moves[move].from :
    status \in Reached[kind] => Moves[move].to \in Reached[kind]
BY DEF Moves, Reached

LEMMA ReachedKinds ==
  /\ DOMAIN Reached = Kinds \ {"booking_reminder"}
  /\ \A kind \in DOMAIN Reached : "none" \notin Reached[kind]
BY DEF Reached, Kinds

\* A completed booking is not moved; a disputed one by a resolution.
LEMMA MovesFrom ==
  /\ \A move \in DOMAIN Moves :
       /\ "completed" \notin Moves[move].from /\ "none" \notin Moves[move].from
       /\ "disputed" \in Moves[move].from => move \in DOMAIN Resolutions
  /\ Moves["release"].from = {"disputed"} /\ Moves["release"].to = "completed"
  /\ Resolutions["release"].to = "released" /\ Resolutions["refund"].to = "refunded"
  /\ DOMAIN Resolutions = {"release", "refund"}
BY DEF Moves, Resolutions

LEMMA EffectsAre ==
  \A effect \in DOMAIN Effects :
    /\ Effects[effect].from \cap Closed = {}
    /\ Effects[effect].to = "windowed" => effect = "window"
    /\ Effects[effect].to = "released" => effect = "pay"
    /\ "windowed" \in Effects[effect].from => effect = "hold" \/ effect = "pay"
    /\ Effects["pay"].to = "released"
BY DEF Effects, Closed

----------------------------------------------------------------------------
(* What the actions have to do.                                            *)

\* The rest of a list, item by item.
LEMMA Rest ==
  ASSUME NEW todo \in Seq(Items), todo # <<>>
  PROVE  /\ Head(todo) = todo[1] /\ todo[1] \in Items /\ Len(todo) \in Nat \ {0}
         /\ Len(Tail(todo)) = Len(todo) - 1
         /\ \A i \in 1..Len(Tail(todo)) : Tail(todo)[i] = todo[i + 1]
OBVIOUS

\* The inbox only grows.
LEMMA ToldGrows ==
  ASSUME RemindInv, [NoticesNext]_noticeVars
  PROVE  \A k \in Keys : told[k] \in Nat /\ told'[k] \in Nat /\ told'[k] >= told[k]
<1>1. \A k \in Keys : /\ told[k] \in Nat /\ OneMore(told[k]) \in Nat
                      /\ OneMore(told[k]) >= told[k]
  BY DEF RemindInv, Typed, OneMore, ManyTimes
<1>2. CASE UNCHANGED told
  BY <1>1, <1>2
<1>3. ASSUME NEW key, told' = [told EXCEPT ![key] = OneMore(told[key])]
      PROVE  \A k \in Keys : told'[k] \in Nat /\ told'[k] >= told[k]
  BY <1>1, <1>3 DEF RemindInv, Typed
<1>4. ASSUME NEW j \in Jobs, ReminderInsert(j)
      PROVE  \A k \in Keys : told'[k] \in Nat /\ told'[k] >= told[k]
  <2>1. PICK b : told' = [k \in DOMAIN told |->
          IF k[1] = b /\ k[3] = "booking_reminder" THEN OneMore(told[k]) ELSE told[k]]
    BY <1>4 DEF ReminderInsert
  <2>2. QED
    BY <1>1, <2>1 DEF RemindInv, Typed
<1>5. ASSUME NEW h \in Handlers, NotifyUser(h)
      PROVE  \E key : told' = [told EXCEPT ![key] = OneMore(told[key])]
  BY <1>5 DEF NotifyUser
<1>6. ASSUME NEW w \in Payers, SweepWrite(w)
      PROVE  UNCHANGED told \/ \E key : told' = [told EXCEPT ![key] = OneMore(told[key])]
  BY <1>6 DEF SweepWrite
<1>7. CASE \E h \in Handlers, b \in Visits : \/ Request(h, b) \/ ReviewBoth(h, b)
                                             \/ \E move \in DOMAIN Moves : Check(h, b, move)
  BY <1>2, <1>7 DEF Request, ReviewBoth, Check, inboxVars
<1>8. CASE \E h \in Handlers :
             CommitMove(h) \/ Settle(h) \/ SafeSend(h) \/ HandlerFails(h)
  BY <1>2, <1>8 DEF CommitMove, Settle, SafeSend, HandlerFails, inboxVars
<1>9. CASE \/ \E w \in Payers : SweepRead(w) \/ SweepReceipt(w) \/ SweepStops(w)
           \/ \E b \in Visits : TimePasses(b)
           \/ \E j \in Jobs : ReminderRead(j) \/ ReminderMark(j) \/ ReminderStops(j)
           \/ UNCHANGED noticeVars
  BY <1>2, <1>9 DEF SweepRead, SweepReceipt, SweepStops, TimePasses, ReminderRead, ReminderMark,
     ReminderStops, noticeVars, inboxVars
<1>10. QED
  BY <1>1, <1>2, <1>3, <1>4, <1>5, <1>6, <1>7, <1>8, <1>9 DEF NoticesNext

\* More notices disturb nothing that a handler still has to do.
LEMMA HandlingGrows ==
  ASSUME RemindInv, [NoticesNext]_noticeVars, NEW q \in Actions, Handling(q, told)
  PROVE  Handling(q, told')
<1>1. ASSUME NEW i \in 1..Len(q.todo), q.todo[i].how = "mail"
      PROVE  <<q.on, q.todo[i].to, q.todo[i].kind>> \in Keys
  <2>1. q.on \in Visits
    BY <1>1 DEF Handling
  <2>2. q.todo[i] \in Items
    BY <1>1 DEF Actions
  <2>3. QED
    BY <1>1, <2>1, <2>2 DEF Keys, Items
<1>2. \A k \in Keys : told[k] >= 1 => told'[k] >= 1
  BY ToldGrows
<1>3. QED
  BY <1>1, <1>2 DEF Handling

\* A handler that has done its next item, or leaves the rest.
LEMMA OneLess ==
  ASSUME RemindInv, NEW h \in Handlers, handler[h].todo # <<>>,
         NextEffect(h) \/ Turns(h, Waiting)
  PROVE  \E q : /\ handler' = [handler EXCEPT ![h] = q]
                /\ q.todo = <<>> \/ (q.on = handler[h].on /\ q.todo = Tail(handler[h].todo))
                /\ q.move = "none" \/ (q.on = handler[h].on /\ q.move = handler[h].move)
                /\ NextEffect(h) => q.move = handler[h].move
<1>1. PICK r \in Actions : r = handler[h]
  BY DEF RemindInv, Typed
<1>2. Waiting.move = "none" /\ Waiting.todo = <<>>
  BY DEF Waiting
<1>3. CASE NextEffect(h) /\ ~ (Len(r.todo) = 1 /\ r.move = "none")
  <2>1. PICK q : q = [r EXCEPT !.todo = Tail(r.todo)]
    OBVIOUS
  <2>2. q.move = r.move /\ q.on = r.on /\ q.todo = Tail(r.todo)
    BY <2>1 DEF Actions
  <2>3. handler' = [handler EXCEPT ![h] = q]
    BY <1>1, <1>3, <2>1 DEF NextEffect, Turns
  <2>4. QED
    BY <1>1, <2>2, <2>3
<1>4. CASE NextEffect(h) /\ Len(r.todo) = 1 /\ r.move = "none"
  BY <1>1, <1>2, <1>4 DEF NextEffect, Turns
<1>5. CASE ~ NextEffect(h)
  BY <1>2, <1>5 DEF Turns
<1>6. QED
  BY <1>3, <1>4, <1>5

\* The rest of a list keeps what Handling says of it, when its first item was no notice, or
\* one the inbox has now.
LEMMA RestHandling ==
  ASSUME NEW r \in Actions, NEW inbox, Handling(r, inbox), r.todo # <<>>,
         NEW q, q.todo = <<>> \/ (q.on = r.on /\ q.todo = Tail(r.todo)),
         q.move = "none" \/ (q.on = r.on /\ q.move = r.move),
         r.todo[1].how = "notify" => inbox[<<r.on, r.todo[1].to, r.todo[1].kind>>] >= 1
  PROVE  /\ Handling(q, inbox)
         /\ \A b, n : Owes(q, b, n) => Owes(r, b, n) /\ n # r.todo[1] /\ n # Escrow("pay")
         /\ r.move # "none" => Len(q.todo) = 0
<1>1. /\ r.todo \in Seq(Items) /\ Len(r.todo) \in Nat \ {0}
      /\ r.todo[1] \in Items
      /\ 1 \in 1..Len(r.todo)
  BY Rest DEF Actions
<1>2. r.on \in Visits
  BY DEF Handling
<1>3. CASE q.todo = <<>>
  <2>1. Len(q.todo) = 0
    BY <1>3
  <2>2. QED
    BY <1>2, <1>3, <2>1 DEF Handling, Owes
<1>4. CASE q.on = r.on /\ q.todo = Tail(r.todo)
  <2>1. /\ Len(q.todo) = Len(r.todo) - 1 /\ Len(q.todo) \in Nat
        /\ \A i \in 1..Len(q.todo) : /\ q.todo[i] = r.todo[i + 1]
                                     /\ i + 1 \in 1..Len(r.todo) /\ i + 1 # 1
    BY <1>1, <1>4, Rest
  <2>2. ASSUME NEW i \in 1..Len(q.todo), NEW j \in 1..Len(q.todo), q.todo[i] = q.todo[j]
        PROVE  i = j
    <3>1. i + 1 = j + 1
      BY <2>1, <2>2 DEF Handling
    <3>2. QED
      BY <2>1, <3>1
  <2>3. \A i \in 1..Len(q.todo) : q.todo[i] # Escrow("pay") /\ q.todo[i] # r.todo[1]
    BY <1>1, <2>1 DEF Handling
  <2>4. r.move # "none" => \A i \in 1..Len(q.todo) : FALSE
    BY <2>1 DEF Handling
  <2>5. ASSUME NEW i \in 1..Len(q.todo), q.todo[i].how = "mail"
        PROVE  \/ inbox[<<q.on, q.todo[i].to, q.todo[i].kind>>] >= 1
               \/ \E j \in 1..(i - 1) : q.todo[j] = Notice(q.todo[i].to, q.todo[i].kind)
    <3>1. PICK m : m = r.todo[i + 1]
      OBVIOUS
    <3>2. q.todo[i] = m /\ m.how = "mail" /\ i + 1 \in 1..Len(r.todo)
      BY <2>1, <2>5, <3>1
    <3>3. \/ inbox[<<r.on, m.to, m.kind>>] >= 1
          \/ \E j \in 1..((i + 1) - 1) : r.todo[j] = Notice(m.to, m.kind)
      BY <3>1, <3>2 DEF Handling
    <3>4. CASE inbox[<<r.on, m.to, m.kind>>] >= 1
      BY <1>4, <3>2, <3>4
    <3>5. ASSUME NEW j \in 1..((i + 1) - 1), r.todo[j] = Notice(m.to, m.kind), j = 1
          PROVE  inbox[<<r.on, m.to, m.kind>>] >= 1
      BY <3>5, Hows
    <3>6. ASSUME NEW j \in 1..((i + 1) - 1), r.todo[j] = Notice(m.to, m.kind), j # 1
          PROVE  \E k \in 1..(i - 1) : q.todo[k] = Notice(m.to, m.kind)
      <4>1. j - 1 \in 1..(i - 1) /\ j - 1 \in 1..Len(q.todo) /\ (j - 1) + 1 = j
        BY <2>1, <3>6
      <4>2. q.todo[j - 1] = r.todo[j]
        BY <2>1, <4>1
      <4>3. QED
        BY <3>6, <4>1, <4>2
    <3>7. QED
      BY <1>4, <3>2, <3>3, <3>4, <3>5, <3>6
  <2>6. Handling(q, inbox)
    BY <1>2, <1>4, <2>2, <2>3, <2>4, <2>5 DEF Handling
  <2>7. ASSUME NEW b, NEW n, Owes(q, b, n)
        PROVE  Owes(r, b, n) /\ n # r.todo[1] /\ n # Escrow("pay")
    BY <1>4, <2>1, <2>3, <2>7 DEF Owes
  <2>8. r.move # "none" => Len(q.todo) = 0
    <3>1. PICK n \in Nat : n = Len(q.todo)
      BY <2>1
    <3>2. n # 0 => 1 \in 1..n
      OBVIOUS
    <3>3. QED
      BY <2>4, <3>1, <3>2
  <2>9. QED
    BY <2>6, <2>7, <2>8
<1>5. QED
  BY <1>3, <1>4

\* What a handler that does its next item, or leaves the rest, goes on with.
Goes(h, q) ==
  /\ \A g \in Handlers : handler'[g] = IF g = h THEN q ELSE handler[g]
  /\ Handling(q, told')
  /\ q.move = "none" \/ (q.on = handler[h].on /\ q.move = handler[h].move)
  /\ handler[h].move # "none" => Len(q.todo) = 0
  /\ \A b, n : Owes(q, b, n) => Owes(handler[h], b, n)
  /\ handler[h].todo # <<>> => \A b, n :
       Owes(q, b, n) => n # handler[h].todo[1] /\ n # Escrow("pay")
  /\ NextEffect(h) => q.move = handler[h].move

LEMMA DoneOne ==
  ASSUME RemindInv, RemindInv', HandInv, NEW h \in Handlers,
         Settle(h) \/ NotifyUser(h) \/ SafeSend(h) \/ HandlerFails(h)
  PROVE  \E q : Goes(h, q)
<1>1. PICK r \in Actions : r = handler[h]
  BY DEF RemindInv, Typed
<1>2. Handling(r, told')
  BY <1>1, HandlingGrows DEF NoticesNext, HandInv
<1>3. CASE r.todo # <<>> /\ (NextEffect(h) \/ Turns(h, Waiting))
  <2>1. PICK q : /\ handler' = [handler EXCEPT ![h] = q]
                 /\ q.todo = <<>> \/ (q.on = r.on /\ q.todo = Tail(r.todo))
                 /\ q.move = "none" \/ (q.on = r.on /\ q.move = r.move)
                 /\ NextEffect(h) => q.move = r.move
    BY <1>1, <1>3, OneLess
  <2>2. \A g \in Handlers : handler'[g] = IF g = h THEN q ELSE handler[g]
    BY <2>1 DEF RemindInv, Typed
  <2>3. CASE q.todo = <<>> /\ q.move = "none"
    <3>1. Len(q.todo) = 0
      BY <2>3
    <3>2. Handling(q, told') /\ \A b, n : ~ Owes(q, b, n)
      BY <2>3, <3>1 DEF Handling, Owes
    <3>3. QED
      BY <1>1, <2>1, <2>2, <2>3, <3>2 DEF Goes
  <2>4. CASE ~ (q.todo = <<>> /\ q.move = "none")
    <3>1. r.todo[1].how = "notify" => told'[<<r.on, r.todo[1].to, r.todo[1].kind>>] >= 1
      <4>1. ASSUME r.todo[1].how = "notify" PROVE told'[<<r.on, r.todo[1].to, r.todo[1].kind>>] >= 1
        <5>1. Head(r.todo) = r.todo[1] /\ r.todo[1] \in Items /\ r.on \in Visits
          BY <1>1, <1>3, Rest DEF Actions, HandInv, Handling
        <5>2. ~ HandlerFails(h)
          BY <1>1, <2>1, <2>2, <2>4 DEF HandlerFails, Turns, RemindInv, Typed, Waiting
        <5>3. NotifyUser(h)
          BY <1>1, <4>1, <5>1, <5>2 DEF Settle, SafeSend, Doing
        <5>4. <<r.on, r.todo[1].to, r.todo[1].kind>> \in Keys
          BY <4>1, <5>1 DEF Keys, Items
        <5>5. told' = [told EXCEPT ![<<r.on, r.todo[1].to, r.todo[1].kind>>] = OneMore(@)]
          BY <1>1, <5>1, <5>3 DEF NotifyUser
        <5>6. \A n \in 0..ManyTimes : OneMore(n) >= 1
          BY DEF OneMore, ManyTimes
        <5>7. QED
          BY <5>4, <5>5, <5>6 DEF RemindInv, Typed
      <4>2. QED
        BY <4>1
    <3>2. /\ Handling(q, told')
          /\ \A b, n : Owes(q, b, n) => Owes(r, b, n) /\ n # r.todo[1] /\ n # Escrow("pay")
          /\ r.move # "none" => Len(q.todo) = 0
      BY <1>2, <1>3, <2>1, <3>1, RestHandling
    <3>3. QED
      BY <1>1, <2>1, <2>2, <3>2 DEF Goes
  <2>5. QED
    BY <2>3, <2>4
<1>4. CASE ~ (r.todo # <<>> /\ (NextEffect(h) \/ Turns(h, Waiting)))
  <2>1. HandlerFails(h) /\ r.todo = <<>>
    BY <1>1, <1>4 DEF Settle, NotifyUser, SafeSend, HandlerFails, Doing
  <2>2. PICK q : q = Waiting
    OBVIOUS
  <2>3. q.move = "none" /\ q.todo = <<>> /\ Len(q.todo) = 0
    BY <2>2 DEF Waiting
  <2>4. Handling(q, told') /\ \A b, n : ~ Owes(q, b, n)
    BY <2>3 DEF Handling, Owes
  <2>5. \A g \in Handlers : handler'[g] = IF g = h THEN q ELSE handler[g]
    BY <2>1, <2>2 DEF HandlerFails, Turns, RemindInv, Typed
  <2>6. NextEffect(h) => q.move = r.move
    <3>1. ASSUME NextEffect(h) PROVE q.move = r.move
      <4>1. Len(r.todo) # 1
        BY <2>1
      <4>2. handler'[h] = [r EXCEPT !.todo = Tail(r.todo)]
        BY <1>1, <3>1, <4>1 DEF NextEffect, Turns, RemindInv, Typed
      <4>3. QED
        BY <2>5, <4>2 DEF Actions
    <3>2. QED
      BY <3>1
  <2>7. QED
    BY <1>1, <2>1, <2>3, <2>4, <2>5, <2>6 DEF Goes
<1>5. QED
  BY <1>3, <1>4

\* A handler that begins, or goes on to what follows its update.
LEMMA Begun ==
  ASSUME RemindInv, HandInv, NEW h \in Handlers, NEW b \in Visits,
         \/ Request(h, b) \/ ReviewBoth(h, b)
         \/ \E move \in DOMAIN Moves : Check(h, b, move)
         \/ CommitMove(h) /\ handler[h].on = b
  PROVE  \E q : /\ \A g \in Handlers : handler'[g] = IF g = h THEN q ELSE handler[g]
                /\ Turns(h, q) /\ (q = Waiting \/ q.on = b) /\ Handling(q, told')
<1>1. ASSUME NEW q, Turns(h, q)
      PROVE  \A g \in Handlers : handler'[g] = IF g = h THEN q ELSE handler[g]
  BY <1>1 DEF Turns, RemindInv, Typed
<1>2. ASSUME NEW todo, Told(todo)
      PROVE  Handling([on |-> b, move |-> "none", todo |-> todo], told')
  BY <1>2 DEF Told, Handling
<1>3. CASE Request(h, b)
  <2>1. Told(<<Notice("caregiver", "booking_requested")>>)
    BY Hows DEF Told
  <2>2. QED
    BY <1>1, <1>2, <1>3, <2>1 DEF Request
<1>4. CASE ReviewBoth(h, b)
  BY <1>1, <1>2, <1>4, AfterTold DEF ReviewBoth
<1>5. ASSUME NEW move \in DOMAIN Moves, Check(h, b, move)
      PROVE  \E q : /\ Turns(h, q) /\ q.on = b /\ Handling(q, told')
  <2>1. PICK q : q = [on |-> b, move |-> move, todo |-> Inside(move)]
    OBVIOUS
  <2>2. q.on = b /\ q.move = move /\ q.todo = Inside(move)
    BY <2>1
  <2>3. CASE move = "release"
    <3>1. Len(q.todo) = 1 /\ q.todo[1] = Paid
      BY <2>2, <2>3 DEF Inside, Paid
    <3>2. Paid.how # "mail" /\ Paid # Escrow("pay")
      BY Hows DEF Paid
    <3>3. \A i \in 1..Len(q.todo) : i = 1 /\ q.todo[i] = Paid
      BY <3>1
    <3>4. Handling(q, told')
      BY <2>2, <2>3, <3>2, <3>3 DEF Handling
    <3>5. QED
      BY <1>5, <2>1, <2>2, <3>4 DEF Check
  <2>4. CASE move # "release"
    <3>1. Len(q.todo) = 0
      BY <2>2, <2>4 DEF Inside
    <3>2. Handling(q, told')
      BY <2>2, <3>1 DEF Handling
    <3>3. QED
      BY <1>5, <2>1, <2>2, <3>2 DEF Check
  <2>5. QED
    BY <2>3, <2>4
<1>6. CASE CommitMove(h) /\ handler[h].on = b
  <2>1. handler[h].move \in DOMAIN Moves
    BY <1>6 DEF CommitMove, RemindInv, Typed, Actions
  <2>2. Handling([on |-> b, move |-> "none", todo |-> After[handler[h].move]], told')
    BY <1>2, <2>1, AfterTold
  <2>3. Handling(Waiting, told')
    <3>1. Waiting.move = "none" /\ Waiting.todo = <<>> /\ Len(Waiting.todo) = 0
      BY DEF Waiting
    <3>2. QED
      BY <3>1 DEF Handling
  <2>4. QED
    BY <1>1, <1>6, <2>2, <2>3 DEF CommitMove
<1>7. QED
  BY <1>1, <1>3, <1>4, <1>5, <1>6

LEMMA MoverKept ==
  ASSUME HandInv, NEW c \in Visits \ contested, visit'[c] = visit[c],
         \A g \in Handlers : Moving(handler'[g], c) =>
           Moving(handler[g], c) /\ handler'[g].move = handler[g].move
  PROVE  OneMover(c)'
BY DEF HandInv, OneMover

\* What an action that begins or commits does to the list of those under way.
LEMMA MoverBegins ==
  ASSUME RemindInv, HandInv, NEW h \in Handlers, NEW b \in Visits,
         NEW c \in Visits \ contested',
         \/ Request(h, b) \/ ReviewBoth(h, b)
         \/ \E move \in DOMAIN Moves : Check(h, b, move)
         \/ CommitMove(h) /\ handler[h].on = b
  PROVE  OneMover(c)'
<1>1. PICK q : /\ \A g \in Handlers : handler'[g] = IF g = h THEN q ELSE handler[g]
               /\ Turns(h, q) /\ (q = Waiting \/ q.on = b)
  BY Begun
<1>2. Waiting.move = "none" /\ handler'[h] = q
  BY <1>1 DEF Waiting
<1>3. contested \subseteq contested'
  BY DEF Request, ReviewBoth, Check, CommitMove
<1>4. OneMover(c)
  BY <1>3 DEF HandInv
<1>5. CASE c # b
  <2>1. visit'[c] = visit[c]
    BY <1>5 DEF Request, ReviewBoth, Check, CommitMove, HandInv, bookVars
  <2>2. \A g \in Handlers : Moving(handler'[g], c) => handler'[g] = handler[g]
    BY <1>1, <1>2, <1>5 DEF Moving
  <2>3. QED
    BY <1>3, <2>1, <2>2, MoverKept
<1>6. CASE c = b /\ Request(h, b)
  <2>1. \A g \in Handlers : ~ Moving(handler[g], b)
    <3>1. visit[b] = "none" /\ \A g \in Handlers : handler[g] \in Actions
      BY <1>6 DEF Request, RemindInv, Typed
    <3>2. QED
      BY <1>4, <1>6, <3>1, MovesFrom DEF OneMover, Moving, Actions
  <2>2. q.move = "none"
    BY <1>2, <1>6 DEF Request, Turns, RemindInv, Typed
  <2>3. \A g \in Handlers : ~ Moving(handler'[g], b)
    BY <1>1, <2>1, <2>2 DEF Moving
  <2>4. QED
    BY <1>6, <2>3 DEF OneMover
<1>7. CASE c = b /\ ReviewBoth(h, b)
  <2>1. q.move = "none" /\ visit'[c] = visit[c]
    BY <1>2, <1>7 DEF ReviewBoth, Turns, RemindInv, Typed, bookVars
  <2>2. \A g \in Handlers : Moving(handler'[g], c) => handler'[g] = handler[g]
    BY <1>1, <2>1 DEF Moving
  <2>3. QED
    BY <1>3, <2>1, <2>2, MoverKept
<1>8. CASE c = b /\ CommitMove(h) /\ handler[h].on = b
  <2>1. \A g \in Handlers \ {h} : ~ Moving(handler[g], b)
    BY <1>4, <1>8 DEF OneMover, Moving, CommitMove
  <2>2. q.move = "none"
    BY <1>2, <1>8 DEF CommitMove, Turns, RemindInv, Typed, Waiting
  <2>3. \A g \in Handlers : ~ Moving(handler'[g], b)
    BY <1>1, <2>1, <2>2 DEF Moving
  <2>4. QED
    BY <1>8, <2>3 DEF OneMover
<1>9. ASSUME NEW move \in DOMAIN Moves, Check(h, b, move), c = b PROVE OneMover(c)'
  <2>1. q.move = move /\ UNCHANGED visit
    BY <1>2, <1>9 DEF Check, Turns, RemindInv, Typed, bookVars
  <2>2. \A g \in Handlers \ {h} : ~ Moving(handler[g], b)
    BY <1>9 DEF Check, Contended, Moving
  <2>3. visit[b] \in Moves[move].from
    BY <1>9 DEF Check
  <2>4. \A g \in Handlers : Moving(handler'[g], b) => g = h
    BY <1>1, <2>2
  <2>5. QED
    BY <1>2, <1>9, <2>1, <2>3, <2>4 DEF OneMover
<1>10. QED
  BY <1>5, <1>6, <1>7, <1>8, <1>9

LEMMA HandNext ==
  ASSUME RemindInv, RemindInv', HandInv, [NoticesNext]_noticeVars
  PROVE  HandInv'
<1>1. \A g \in Handlers : handler[g] \in Actions /\ Handling(handler[g], told')
  BY HandlingGrows DEF RemindInv, Typed, HandInv
<1>2. ASSUME NEW h \in Handlers, NEW b \in Visits,
             \/ Request(h, b) \/ ReviewBoth(h, b)
             \/ \E move \in DOMAIN Moves : Check(h, b, move)
             \/ CommitMove(h) /\ handler[h].on = b
      PROVE  HandInv'
  <2>1. \A g \in Handlers : Handling(handler'[g], told')
    BY <1>1, <1>2, Begun
  <2>2. DOMAIN visit' = Visits /\ DOMAIN money' = Visits
    BY <1>2 DEF Request, ReviewBoth, Check, CommitMove, HandInv, bookVars
  <2>3. QED
    BY <1>2, <2>1, <2>2, MoverBegins DEF HandInv
<1>3. ASSUME NEW h \in Handlers, CommitMove(h) PROVE HandInv'
  <2>1. handler[h].on \in Visits
    BY <1>3 DEF CommitMove, HandInv, Handling
  <2>2. QED
    BY <1>2, <1>3, <2>1
<1>4. ASSUME NEW h \in Handlers, Settle(h) \/ NotifyUser(h) \/ SafeSend(h) \/ HandlerFails(h)
      PROVE  HandInv'
  <2>1. PICK q : Goes(h, q)
    BY <1>4, DoneOne
  <2>2. UNCHANGED <<visit, contested>> /\ DOMAIN money' = Visits
    BY <1>4 DEF Settle, NotifyUser, SafeSend, HandlerFails, HandInv, bookVars
  <2>3. ASSUME NEW c \in Visits \ contested PROVE OneMover(c)'
    <3>1. \A g \in Handlers : Moving(handler'[g], c) =>
            Moving(handler[g], c) /\ handler'[g].move = handler[g].move
      BY <2>1 DEF Goes, Moving
    <3>2. QED
      BY <2>2, <3>1, MoverKept
  <2>4. QED
    BY <1>1, <2>1, <2>2, <2>3 DEF Goes, HandInv
<1>5. CASE UNCHANGED <<visit, handler, contested>> /\ DOMAIN money' = Visits
  <2>1. \A c \in Visits \ contested : OneMover(c)'
    BY <1>5, MoverKept
  <2>2. QED
    BY <1>1, <1>5, <2>1 DEF HandInv
<1>6. ASSUME NEW w \in Payers, SweepRead(w) \/ SweepWrite(w) \/ SweepReceipt(w) \/ SweepStops(w)
      PROVE  HandInv'
  BY <1>5, <1>6 DEF SweepRead, SweepWrite, SweepReceipt, SweepStops, HandInv, bookVars
<1>7. CASE \/ \E b \in Visits : TimePasses(b)
           \/ \E j \in Jobs : \/ ReminderRead(j) \/ ReminderInsert(j) \/ ReminderMark(j)
                              \/ ReminderStops(j)
           \/ UNCHANGED noticeVars
  BY <1>5, <1>7 DEF TimePasses, ReminderRead, ReminderInsert, ReminderMark, ReminderStops,
     noticeVars, bookVars, HandInv
<1>8. QED
  BY <1>2, <1>3, <1>4, <1>6, <1>7 DEF NoticesNext

----------------------------------------------------------------------------
(* The notices of a transition.                                            *)

LEMMA TellKept ==
  ASSUME TellInv, NEW b \in Visits \ contested, NEW to \in Parties, NEW kind \in DOMAIN Reached,
         OfTransition(to, kind), told'[<<b, to, kind>>] = told[<<b, to, kind>>],
         visit[b] \in Reached[kind] => visit'[b] \in Reached[kind],
         \A g \in Handlers :
           Owes(handler'[g], b, Notice(to, kind)) => Owes(handler[g], b, Notice(to, kind))
  PROVE  TellsOnce(b, to, kind)'
<1>1. TellsOnce(b, to, kind)
  BY DEF TellInv
<1>2. QED
  BY <1>1 DEF TellsOnce

\* A status is written, and what it tells is left to do.
LEMMA TellCommit ==
  ASSUME RemindInv, HandInv, TellInv, NEW h \in Handlers, CommitMove(h),
         NEW b \in Visits \ contested, NEW to \in Parties, NEW kind \in DOMAIN Reached,
         OfTransition(to, kind)
  PROVE  TellsOnce(b, to, kind)'
<1>1. PICK move : move = handler[h].move
  OBVIOUS
<1>2. move \in DOMAIN Moves /\ handler[h].on \in Visits
  BY <1>1 DEF CommitMove, RemindInv, Typed, Actions, HandInv, Handling
<1>3. PICK q : /\ \A g \in Handlers : handler'[g] = IF g = h THEN q ELSE handler[g]
               /\ Turns(h, q)
               /\ q.todo = After[move] /\ (q.todo = <<>> \/ q.on = handler[h].on)
  <2>1. PICK q : Turns(h, q) /\ q = IF After[move] = <<>> THEN Waiting
                 ELSE [on |-> handler[h].on, move |-> "none", todo |-> After[move]]
    BY <1>1 DEF CommitMove
  <2>2. q.todo = After[move] /\ (q.todo = <<>> \/ q.on = handler[h].on)
    BY <2>1 DEF Waiting
  <2>3. \A g \in Handlers : handler'[g] = IF g = h THEN q ELSE handler[g]
    BY <2>1 DEF Turns, RemindInv, Typed
  <2>4. QED
    BY <2>1, <2>2, <2>3
<1>4. \A n : Owes(q, b, n) => \E i \in 1..Len(After[move]) : After[move][i] = n /\ handler[h].on = b
  BY <1>3 DEF Owes
<1>5. UNCHANGED told
  BY DEF CommitMove, inboxVars
<1>6. CASE b # handler[h].on
  <2>1. visit'[b] = visit[b]
    BY <1>6 DEF CommitMove, HandInv
  <2>2. \A g \in Handlers :
          Owes(handler'[g], b, Notice(to, kind)) => Owes(handler[g], b, Notice(to, kind))
    BY <1>3, <1>4, <1>6
  <2>3. QED
    BY <1>5, <2>1, <2>2, TellKept
<1>7. CASE b = handler[h].on
  <2>1. visit[b] \in Moves[move].from /\ visit'[b] = Moves[move].to
    BY <1>1, <1>7 DEF CommitMove, HandInv, OneMover, Moving
  <2>2. visit[b] \in Reached[kind] => visit'[b] \in Reached[kind]
    BY <1>2, <2>1, ReachedOnward
  <2>3. CASE ~ Owes(q, b, Notice(to, kind))
    BY <1>3, <1>5, <2>2, <2>3, TellKept
  <2>4. CASE Owes(q, b, Notice(to, kind))
    <3>1. visit'[b] \in Reached[kind] /\ visit[b] \notin Reached[kind]
      BY <1>2, <1>4, <2>1, <2>4, AfterFits DEF Fits
    <3>2. TellsOnce(b, to, kind)
      BY DEF TellInv
    <3>3. told[<<b, to, kind>>] \in Nat
      BY ReachedKinds DEF RemindInv, Typed, Keys, ManyTimes
    <3>4. told[<<b, to, kind>>] = 0 /\ \A g \in Handlers : ~ Owes(handler[g], b, Notice(to, kind))
      BY <3>1, <3>2, <3>3 DEF TellsOnce
    <3>5. \A g \in Handlers : Owes(handler'[g], b, Notice(to, kind)) => g = h
      BY <1>3, <3>4
    <3>6. QED
      BY <1>5, <3>1, <3>4, <3>5 DEF TellsOnce
  <2>5. QED
    BY <2>3, <2>4
<1>8. QED
  BY <1>6, <1>7

LEMMA TellRequest ==
  ASSUME RemindInv, HandInv, TellInv, NEW h \in Handlers, NEW c \in Visits, Request(h, c),
         NEW b \in Visits \ contested, NEW to \in Parties, NEW kind \in DOMAIN Reached,
         OfTransition(to, kind)
  PROVE  TellsOnce(b, to, kind)'
<1>1. PICK n : n = Notice("caregiver", "booking_requested")
  OBVIOUS
<1>2. PICK q : q = [on |-> c, move |-> "none", todo |-> <<n>>]
  OBVIOUS
<1>3. /\ q.on = c /\ Len(q.todo) = 1 /\ q.todo[1] = n
      /\ \A g \in Handlers : handler'[g] = IF g = h THEN q ELSE handler[g]
      /\ UNCHANGED told
  BY <1>1, <1>2 DEF Request, Turns, RemindInv, Typed, inboxVars
<1>4. \A m : Owes(q, b, m) => b = c /\ m = n
  BY <1>3 DEF Owes
<1>5. visit[c] = "none" /\ visit'[c] = "requested" /\ (b # c => visit'[b] = visit[b])
  BY DEF Request, HandInv
<1>6. CASE Owes(q, b, Notice(to, kind))
  <2>1. b = c /\ kind = "booking_requested"
    BY <1>1, <1>4, <1>6, Hows
  <2>2. "requested" \in Reached[kind] /\ "none" \notin Reached[kind]
    BY <2>1 DEF Reached
  <2>3. TellsOnce(b, to, kind)
    BY DEF TellInv
  <2>4. told[<<b, to, kind>>] \in Nat
    BY ReachedKinds DEF RemindInv, Typed, Keys, ManyTimes
  <2>5. told[<<b, to, kind>>] = 0 /\ \A g \in Handlers : ~ Owes(handler[g], b, Notice(to, kind))
    BY <1>5, <2>1, <2>2, <2>3, <2>4 DEF TellsOnce
  <2>6. \A g \in Handlers : Owes(handler'[g], b, Notice(to, kind)) => g = h
    BY <1>3, <2>5
  <2>7. QED
    BY <1>3, <1>5, <2>1, <2>2, <2>5, <2>6 DEF TellsOnce
<1>7. CASE ~ Owes(q, b, Notice(to, kind))
  <2>1. visit[b] \in Reached[kind] => visit'[b] \in Reached[kind]
    BY <1>5, ReachedKinds
  <2>2. QED
    BY <1>3, <1>7, <2>1, TellKept
<1>8. QED
  BY <1>6, <1>7

LEMMA TellNotify ==
  ASSUME RemindInv, RemindInv', HandInv, TellInv, NEW h \in Handlers, NotifyUser(h),
         NEW b \in Visits \ contested, NEW to \in Parties, NEW kind \in DOMAIN Reached,
         OfTransition(to, kind)
  PROVE  TellsOnce(b, to, kind)'
<1>1. PICK r \in Actions : r = handler[h]
  BY DEF RemindInv, Typed
<1>2. PICK n : n = r.todo[1]
  OBVIOUS
<1>3. /\ r.todo # <<>> /\ Head(r.todo) = n /\ n \in Items /\ n.how = "notify"
      /\ 1 \in 1..Len(r.todo) /\ r.on \in Visits
  BY <1>1, <1>2, Rest DEF NotifyUser, Doing, Actions, HandInv, Handling
<1>4. n = Notice(n.to, n.kind) /\ <<r.on, n.to, n.kind>> \in Keys
  BY <1>3 DEF Items, Notice, Keys
<1>5. \A k \in Keys : told'[k] = IF k = <<r.on, n.to, n.kind>> THEN OneMore(told[k]) ELSE told[k]
  BY <1>1, <1>3, <1>4 DEF NotifyUser, RemindInv, Typed
<1>6. PICK q : Goes(h, q)
  BY DoneOne
<1>7. UNCHANGED visit /\ <<b, to, kind>> \in Keys
  BY ReachedKinds DEF NotifyUser, bookVars, Keys
<1>8. CASE b = r.on /\ to = n.to /\ kind = n.kind
  <2>1. n = Notice(to, kind) /\ Owes(r, b, n) /\ TellsOnce(b, to, kind)
    BY <1>2, <1>3, <1>4, <1>8 DEF Owes, TellInv
  <2>2. told[<<b, to, kind>>] = 0 /\ visit[b] \in Reached[kind]
    BY <1>1, <2>1 DEF TellsOnce
  <2>3. told'[<<b, to, kind>>] = 1
    BY <1>5, <1>7, <1>8, <2>2 DEF OneMore, ManyTimes
  <2>4. \A g \in Handlers : ~ Owes(handler'[g], b, Notice(to, kind))
    BY <1>1, <1>2, <1>3, <1>6, <2>1 DEF Goes, TellsOnce
  <2>5. QED
    BY <1>7, <2>2, <2>3, <2>4 DEF TellsOnce
<1>9. CASE ~ (b = r.on /\ to = n.to /\ kind = n.kind)
  <2>1. told'[<<b, to, kind>>] = told[<<b, to, kind>>]
    BY <1>5, <1>7, <1>9
  <2>2. \A g \in Handlers :
          Owes(handler'[g], b, Notice(to, kind)) => Owes(handler[g], b, Notice(to, kind))
    BY <1>6 DEF Goes
  <2>3. QED
    BY <1>7, <2>1, <2>2, TellKept
<1>10. QED
  BY <1>8, <1>9

\* The steps of the sweep, of the clock and of the reminder job tell of no transition.
LEMMA TellAside ==
  ASSUME RemindInv,
         \/ \E w \in Payers : SweepRead(w) \/ SweepWrite(w) \/ SweepReceipt(w) \/ SweepStops(w)
         \/ \E b \in Visits : TimePasses(b)
         \/ \E j \in Jobs : \/ ReminderRead(j) \/ ReminderInsert(j) \/ ReminderMark(j)
                            \/ ReminderStops(j)
         \/ UNCHANGED noticeVars
  PROVE  /\ UNCHANGED <<visit, handler, contested, takenBack>>
         /\ \A b \in Visits, to \in Parties, kind \in DOMAIN Reached : OfTransition(to, kind) =>
              told'[<<b, to, kind>>] = told[<<b, to, kind>>]
<1>1. UNCHANGED <<visit, handler, contested, takenBack>>
  BY DEF SweepRead, SweepWrite, SweepReceipt, SweepStops, TimePasses, ReminderRead,
     ReminderInsert, ReminderMark, ReminderStops, noticeVars, bookVars
<1>2. ASSUME NEW b \in Visits, NEW to \in Parties, NEW kind \in DOMAIN Reached,
             OfTransition(to, kind)
      PROVE  told'[<<b, to, kind>>] = told[<<b, to, kind>>]
  <2>1. /\ <<b, to, kind>> \in Keys /\ kind # "booking_reminder"
        /\ \A c : PaymentOf(c) # <<b, to, kind>>
    BY <1>2, ReachedKinds DEF Keys, PaymentOf, OfTransition
  <2>2. CASE \E w \in Payers : SweepWrite(w)
    <3>1. UNCHANGED told \/ \E c : told' = [told EXCEPT ![PaymentOf(c)] = OneMore(told[PaymentOf(c)])]
      BY <2>2 DEF SweepWrite
    <3>2. QED
      BY <2>1, <3>1 DEF RemindInv, Typed
  <2>3. CASE \E j \in Jobs : ReminderInsert(j)
    <3>1. PICK c : told' = [k \in DOMAIN told |->
            IF k[1] = c /\ k[3] = "booking_reminder" THEN OneMore(told[k]) ELSE told[k]]
      BY <2>3 DEF ReminderInsert
    <3>2. QED
      BY <2>1, <3>1 DEF RemindInv, Typed
  <2>4. CASE UNCHANGED told
    BY <2>4
  <2>5. QED
    BY <2>2, <2>3, <2>4 DEF SweepRead, SweepReceipt, SweepStops, TimePasses, ReminderRead,
       ReminderMark, ReminderStops, noticeVars, inboxVars
<1>3. QED
  BY <1>1, <1>2

LEMMA TellNext ==
  ASSUME RemindInv, RemindInv', HandInv, TellInv, [NoticesNext]_noticeVars
  PROVE  TellInv'
<1>1. ASSUME NEW h \in Handlers, NEW c \in Visits, Request(h, c) PROVE TellInv'
  BY <1>1, TellRequest DEF TellInv, Request
<1>2. ASSUME NEW h \in Handlers, CommitMove(h) PROVE TellInv'
  BY <1>2, TellCommit DEF TellInv, CommitMove
<1>3. ASSUME NEW h \in Handlers, NotifyUser(h) PROVE TellInv'
  BY <1>3, TellNotify DEF TellInv, NotifyUser
<1>4. ASSUME NEW h \in Handlers, Settle(h) \/ SafeSend(h) \/ HandlerFails(h) PROVE TellInv'
  <2>1. \A g \in Handlers : \A b, n : Owes(handler'[g], b, n) => Owes(handler[g], b, n)
    BY <1>4, DoneOne DEF Goes
  <2>2. UNCHANGED <<visit, told, contested>>
    BY <1>4 DEF Settle, SafeSend, HandlerFails, bookVars, inboxVars
  <2>3. QED
    BY <2>1, <2>2, TellKept DEF TellInv
\* A check may only have a payment to tell, and so has a review.
<1>5. ASSUME NEW h \in Handlers, NEW c \in Visits,
             ReviewBoth(h, c) \/ \E move \in DOMAIN Moves : Check(h, c, move)
      PROVE  TellInv'
  <2>1. UNCHANGED <<visit, told>> /\ contested \subseteq contested'
    BY <1>5 DEF ReviewBoth, Check, bookVars, inboxVars
  <2>2. PICK q : /\ \A g \in Handlers : handler'[g] = IF g = h THEN q ELSE handler[g]
                 /\ q.todo = BothReviewed \/ \E move : q.todo = Inside(move)
    <3>1. CASE ReviewBoth(h, c)
      <4>1. PICK q : q = [on |-> c, move |-> "none", todo |-> BothReviewed]
        OBVIOUS
      <4>2. Turns(h, q) /\ q.todo = BothReviewed
        BY <3>1, <4>1 DEF ReviewBoth
      <4>3. QED
        BY <4>2 DEF Turns, RemindInv, Typed
    <3>2. CASE \E move \in DOMAIN Moves : Check(h, c, move)
      <4>1. PICK move \in DOMAIN Moves : Check(h, c, move)
        BY <3>2
      <4>2. PICK q : q = [on |-> c, move |-> move, todo |-> Inside(move)]
        OBVIOUS
      <4>3. Turns(h, q) /\ q.todo = Inside(move)
        BY <4>1, <4>2 DEF Check
      <4>4. QED
        BY <4>3 DEF Turns, RemindInv, Typed
    <3>3. QED
      BY <1>5, <3>1, <3>2
  <2>3. \A b, to, kind : Owes(q, b, Notice(to, kind)) => ~ OfTransition(to, kind)
    <3>1. ASSUME NEW i \in 1..Len(q.todo), NEW to, NEW kind, q.todo[i] = Notice(to, kind),
                 NEW move, q.todo = Inside(move)
          PROVE  ~ OfTransition(to, kind)
      BY <3>1, Hows DEF Inside, OfTransition
    <3>2. QED
      BY <2>2, <3>1, ReviewFits DEF Owes
  <2>4. ASSUME NEW b \in Visits \ contested', NEW to \in Parties, NEW kind \in DOMAIN Reached,
               OfTransition(to, kind)
        PROVE  TellsOnce(b, to, kind)'
    BY <2>1, <2>2, <2>3, <2>4, TellKept
  <2>5. QED
    BY <2>4 DEF TellInv
<1>6. CASE \/ \E w \in Payers : SweepRead(w) \/ SweepWrite(w) \/ SweepReceipt(w) \/ SweepStops(w)
           \/ \E b \in Visits : TimePasses(b)
           \/ \E j \in Jobs : \/ ReminderRead(j) \/ ReminderInsert(j) \/ ReminderMark(j)
                              \/ ReminderStops(j)
           \/ UNCHANGED noticeVars
  BY <1>6, TellAside, TellKept DEF TellInv
<1>7. QED
  BY <1>1, <1>2, <1>3, <1>4, <1>5, <1>6 DEF NoticesNext

----------------------------------------------------------------------------
(* The notices of a payment.                                               *)

\* Nobody moves a completed booking, and nobody was told of a payment it has not had.
LEMMA NotMoved ==
  ASSUME RemindInv, HandInv, NEW b \in Visits \ contested, visit[b] = "completed",
         NEW g \in Handlers
  PROVE  ~ Moving(handler[g], b)
<1>1. handler[g] \in Actions
  BY DEF RemindInv, Typed
<1>2. handler[g].move # "none" => "completed" \notin Moves[handler[g].move].from
  BY <1>1, MovesFrom DEF Actions
<1>3. QED
  BY <1>2 DEF HandInv, OneMover, Moving

LEMMA ToldNat ==
  ASSUME RemindInv, NEW b \in Visits
  PROVE  told[PaymentOf(b)] \in Nat /\ PaymentOf(b) \in Keys
<1>1. PaymentOf(b) \in Keys
  BY DEF PaymentOf, Keys, Parties, Kinds
<1>2. QED
  BY <1>1 DEF RemindInv, Typed, ManyTimes

LEMMA Untold ==
  ASSUME RemindInv, HandInv, PayInv, NEW b \in Visits \ (contested \cup takenBack),
         visit[b] = "completed", money[b] # "released"
  PROVE  told[PaymentOf(b)] = 0
<1>1. PaidOnce(b) /\ told[PaymentOf(b)] \in Nat
  BY ToldNat DEF PayInv
<1>2. \A h \in Handlers : ~ (handler[h].on = b /\ ToldAhead(h))
  BY NotMoved DEF Moving, ToldAhead
<1>3. QED
  BY <1>1, <1>2 DEF PaidOnce

LEMMA ChargedKept ==
  ASSUME PayInv, NEW b \in Visits \ contested, visit'[b] = visit[b], money'[b] = money[b],
         \A g \in Handlers : \A effect \in {"window", "pay", "hold"} :
           Owes(handler'[g], b, Escrow(effect)) => Owes(handler[g], b, Escrow(effect)),
         \A w \in Payers :
           /\ b \in payer'[w].due => b \in payer[w].due
           /\ payer'[w].at = "receipt" /\ payer'[w].of = b =>
                payer[w].at = "receipt" /\ payer[w].of = b
  PROVE  Charged(b)'
<1>1. Charged(b)
  BY DEF PayInv
<1>2. QED
  BY <1>1 DEF Charged

LEMMA PaidKept ==
  ASSUME PayInv, NEW b \in Visits \ (contested \cup takenBack),
         told'[PaymentOf(b)] = told[PaymentOf(b)],
         money[b] = "released" => money'[b] = "released",
         \A g \in Handlers :
           /\ PaysOut(handler'[g], b) => PaysOut(handler[g], b)
           /\ handler'[g].move = "release" /\ Owes(handler'[g], b, Paid) =>
                handler[g].move = "release" /\ Owes(handler[g], b, Paid)
           /\ handler[g].on = b /\ ToldAhead(g) => handler'[g].on = b /\ ToldAhead(g)'
  PROVE  PaidOnce(b)'
<1>1. PaidOnce(b) /\ PaymentOf(b)' = PaymentOf(b)
  BY DEF PayInv, PaymentOf
<1>2. QED
  BY <1>1 DEF PaidOnce

\* Steps that leave bookings, escrows and the sweep as they are.
LEMMA PayStill ==
  ASSUME PayInv, UNCHANGED <<bookVars, payer>>, contested \subseteq contested',
         takenBack \subseteq takenBack',
         \A b \in Visits \ contested' : \A g \in Handlers :
           \A effect \in {"window", "pay", "hold"} :
             Owes(handler'[g], b, Escrow(effect)) =>
               Owes(handler[g], b, Escrow(effect)) \/ (effect = "pay" /\ visit[b] = "completed"),
         \A b \in Visits \ (contested' \cup takenBack') : PaidOnce(b)'
  PROVE  PayInv'
<1>1. UNCHANGED <<visit, money, payer>>
  BY DEF bookVars
<1>2. ASSUME NEW b \in Visits \ contested' PROVE Charged(b)'
  <2>1. Charged(b)
    BY DEF PayInv
  <2>2. \A g \in Handlers :
          /\ Owes(handler'[g], b, Escrow("window")) => Owes(handler[g], b, Escrow("window"))
          /\ Owes(handler'[g], b, Escrow("hold")) => Owes(handler[g], b, Escrow("hold"))
          /\ Owes(handler'[g], b, Escrow("pay")) =>
               Owes(handler[g], b, Escrow("pay")) \/ visit[b] = "completed"
    OBVIOUS
  <2>3. QED
    BY <1>1, <2>1, <2>2 DEF Charged
<1>3. QED
  BY <1>1, <1>2 DEF PayInv

LEMMA PayRequest ==
  ASSUME RemindInv, HandInv, PayInv, NEW h \in Handlers, NEW c \in Visits, Request(h, c)
  PROVE  PayInv'
<1>1. PICK n : n = Notice("caregiver", "booking_requested")
  OBVIOUS
<1>2. PICK q : q = [on |-> c, move |-> "none", todo |-> <<n>>]
  OBVIOUS
<1>3. /\ q.move = "none" /\ q.todo # <<>> /\ Len(q.todo) = 1 /\ q.todo[1] = n
      /\ \A g \in Handlers : handler'[g] = IF g = h THEN q ELSE handler[g]
      /\ UNCHANGED <<told, money, payer, contested, takenBack>>
      /\ handler[h] = Waiting
  BY <1>1, <1>2 DEF Request, Turns, RemindInv, Typed, inboxVars
<1>4. \A b : ~ Owes(q, b, Paid) /\ \A effect : ~ Owes(q, b, Escrow(effect))
  BY <1>1, <1>3, Hows DEF Owes, Paid
<1>5. visit[c] = "none" /\ visit'[c] = "requested" /\ \A b \in Visits \ {c} : visit'[b] = visit[b]
  BY DEF Request, HandInv
<1>6. ASSUME NEW b \in Visits \ contested PROVE Charged(b)'
  <2>1. Charged(b)
    BY DEF PayInv
  <2>2. \A g \in Handlers : \A effect :
          Owes(handler'[g], b, Escrow(effect)) => Owes(handler[g], b, Escrow(effect))
    BY <1>3, <1>4
  <2>3. b # c => visit'[b] = visit[b]
    BY <1>5
  <2>4. QED
    BY <1>3, <1>5, <2>1, <2>2, <2>3 DEF Charged
<1>7. ASSUME NEW b \in Visits \ (contested \cup takenBack) PROVE PaidOnce(b)'
  <2>1. ~ ToldAhead(h) /\ \A g \in Handlers \ {h} : handler'[g] = handler[g]
    BY <1>3 DEF ToldAhead, Waiting
  <2>2. QED
    BY <1>3, <1>4, <2>1, PaidKept DEF PaysOut, ToldAhead
<1>8. QED
  BY <1>3, <1>6, <1>7 DEF PayInv

LEMMA PayReview ==
  ASSUME RemindInv, HandInv, PayInv, NEW h \in Handlers, NEW c \in Visits, ReviewBoth(h, c)
  PROVE  PayInv'
<1>1. PICK q : q = [on |-> c, move |-> "none", todo |-> BothReviewed]
  OBVIOUS
<1>2. /\ q.move = "none" /\ q.todo = BothReviewed /\ q.on = c /\ handler[h] = Waiting
      /\ \A g \in Handlers : handler'[g] = IF g = h THEN q ELSE handler[g]
      /\ UNCHANGED <<told, money, payer, contested, takenBack, bookVars>>
      /\ visit[c] = "completed"
  BY <1>1 DEF ReviewBoth, Turns, RemindInv, Typed, inboxVars, bookVars
<1>3. \A b : Owes(q, b, Escrow("pay")) <=> b = c
  BY <1>2, ReviewPays DEF Owes
<1>4. \A b : ~ Owes(q, b, Escrow("window")) /\ ~ Owes(q, b, Escrow("hold"))
  BY <1>2, ReviewFits DEF Owes
<1>5. \A b : ~ PaysOut(q, b)
  BY <1>3 DEF PaysOut, Owes
<1>6. ASSUME NEW b \in Visits \ (contested \cup takenBack) PROVE PaidOnce(b)'
  <2>1. ~ ToldAhead(h) /\ \A g \in Handlers \ {h} : handler'[g] = handler[g]
    BY <1>2 DEF ToldAhead, Waiting
  <2>2. QED
    BY <1>2, <1>5, <2>1, PaidKept DEF ToldAhead
<1>7. ASSUME NEW b \in Visits, NEW g \in Handlers, NEW effect \in {"window", "pay", "hold"},
             Owes(handler'[g], b, Escrow(effect))
      PROVE  Owes(handler[g], b, Escrow(effect)) \/ (effect = "pay" /\ visit[b] = "completed")
  BY <1>2, <1>3, <1>4, <1>7
<1>8. QED
  BY <1>2, <1>6, <1>7, PayStill

LEMMA PayCheck ==
  ASSUME RemindInv, HandInv, PayInv, NEW h \in Handlers, NEW c \in Visits,
         NEW move \in DOMAIN Moves, Check(h, c, move)
  PROVE  PayInv'
<1>1. PICK q : q = [on |-> c, move |-> move, todo |-> Inside(move)]
  OBVIOUS
<1>2. /\ q.move = move /\ q.todo = Inside(move) /\ q.on = c /\ handler[h] = Waiting
      /\ \A g \in Handlers : handler'[g] = IF g = h THEN q ELSE handler[g]
      /\ UNCHANGED <<told, money, payer, takenBack, bookVars>>
      /\ visit[c] \in Moves[move].from /\ contested \subseteq contested'
  BY <1>1 DEF Check, Turns, RemindInv, Typed, inboxVars, bookVars
<1>3. \A i \in 1..Len(Inside(move)) : move = "release" /\ Inside(move)[i] = Paid
  BY DEF Inside, Paid
<1>4. \A b, effect : ~ Owes(q, b, Escrow(effect))
  BY <1>2, <1>3, Hows DEF Owes, Paid
<1>5. \A b : ~ PaysOut(q, b)
  BY <1>2, MovesAre DEF PaysOut
<1>6. ~ ToldAhead(h)
  BY <1>2 DEF ToldAhead, Waiting
<1>7. ASSUME NEW b \in Visits \ (contested' \cup takenBack) PROVE PaidOnce(b)'
  <2>1. PaidOnce(b) /\ Charged(b) /\ b \in Visits \ contested
    BY <1>2 DEF PayInv
  <2>2. CASE ~ Owes(q, b, Paid)
    BY <1>2, <1>5, <1>6, <2>1, <2>2, PaidKept DEF ToldAhead
  <2>3. CASE Owes(q, b, Paid)
    <3>1. b = c /\ move = "release"
      BY <1>2, <1>3, <2>3 DEF Owes
    <3>2. visit[b] = "disputed"
      BY <1>2, <3>1, MovesFrom
    <3>3. money[b] # "released"
      BY <2>1, <3>2 DEF Charged
    <3>4. \A g \in Handlers : ~ (handler[g].on = b /\ ToldAhead(g))
      BY <1>6, <1>7, <3>1 DEF Check, Contended, ToldAhead
    <3>5. told[PaymentOf(b)] = 0
      BY <2>1, <3>3, <3>4, ToldNat DEF PaidOnce
    <3>6. told'[PaymentOf(b)'] = 0 /\ PaymentOf(b)' = PaymentOf(b)
      BY <1>2, <3>5 DEF PaymentOf
    <3>7. \A g \in Handlers : PaysOut(handler'[g], b) => PaysOut(handler[g], b)
      BY <1>2, <1>5
    <3>8. QED
      BY <2>1, <3>3, <3>6, <3>7 DEF PaidOnce
  <2>4. QED
    BY <2>2, <2>3
<1>8. QED
  BY <1>2, <1>4, <1>7, PayStill

LEMMA PayCommit ==
  ASSUME RemindInv, HandInv, PayInv, NEW h \in Handlers, CommitMove(h)
  PROVE  PayInv'
<1>1. PICK move, c : move = handler[h].move /\ c = handler[h].on
  OBVIOUS
<1>2. move \in DOMAIN Moves /\ c \in Visits
  BY <1>1 DEF CommitMove, RemindInv, Typed, Actions, HandInv, Handling
<1>3. PICK q : /\ \A g \in Handlers : handler'[g] = IF g = h THEN q ELSE handler[g]
               /\ q.todo = After[move] /\ (q.todo = <<>> \/ q.on = c) /\ q.move = "none"
  <2>1. PICK q : Turns(h, q) /\ q = IF After[move] = <<>> THEN Waiting
                 ELSE [on |-> c, move |-> "none", todo |-> After[move]]
    BY <1>1 DEF CommitMove
  <2>2. q.todo = After[move] /\ (q.todo = <<>> \/ q.on = c) /\ q.move = "none"
    BY <2>1 DEF Waiting
  <2>3. \A g \in Handlers : handler'[g] = IF g = h THEN q ELSE handler[g]
    BY <2>1 DEF Turns, RemindInv, Typed
  <2>4. QED
    BY <2>2, <2>3
<1>4. \A b, n : Owes(q, b, n) => \E i \in 1..Len(After[move]) : After[move][i] = n /\ b = c
  BY <1>3 DEF Owes
<1>5. \A b : /\ ~ Owes(q, b, Paid) /\ ~ Owes(q, b, Escrow("pay"))
             /\ Owes(q, b, Escrow("window")) => b = c /\ Moves[move].to = "completed"
             /\ Owes(q, b, Escrow("hold")) => b = c /\ Moves[move].to = "disputed"
  BY <1>2, <1>4, AfterFits DEF Fits
<1>6. /\ UNCHANGED <<told, payer, contested, takenBack>>
      /\ visit'[c] = Moves[move].to
      /\ \A b \in Visits \ {c} : visit'[b] = visit[b] /\ money'[b] = money[b]
      /\ money'[c] = IF move \in DOMAIN Resolutions THEN Resolutions[move].to ELSE money[c]
  BY <1>1, <1>2 DEF CommitMove, HandInv, inboxVars
<1>7. ASSUME c \notin contested
      PROVE  /\ visit[c] \in Moves[move].from
             /\ \A g \in Handlers \ {h} : ~ Moving(handler[g], c)
             /\ money[c] \notin {"windowed", "released"}
  <2>1. visit[c] \in Moves[move].from /\ \A g \in Handlers \ {h} : ~ Moving(handler[g], c)
    BY <1>1, <1>2, <1>7, MovesAre DEF HandInv, OneMover, Moving
  <2>2. visit[c] # "completed" /\ Charged(c)
    BY <1>2, <1>7, <2>1, MovesFrom DEF PayInv
  <2>3. QED
    BY <2>1, <2>2 DEF Charged
<1>8. ASSUME NEW b \in Visits \ contested PROVE Charged(b)'
  <2>1. Charged(b)
    BY DEF PayInv
  <2>2. CASE b # c
    BY <1>3, <1>5, <1>6, <2>2, ChargedKept
  <2>3. CASE b = c
    <3>1. visit[c] \in Moves[move].from /\ visit[c] # "completed" /\ money[c] \notin {"windowed", "released"}
      BY <1>2, <1>7, <2>3, MovesFrom
    <3>2. money'[c] \in {"windowed", "released"} => visit'[c] = "completed"
      BY <1>6, <3>1, MovesFrom
    <3>3. ASSUME NEW g \in Handlers
          PROVE  /\ ~ Owes(handler[g], c, Escrow("window")) /\ ~ Owes(handler[g], c, Escrow("pay"))
                 /\ Owes(handler[g], c, Escrow("hold")) => money'[c] \in Closed
      <4>1. ~ Owes(handler[g], c, Escrow("window")) /\ ~ Owes(handler[g], c, Escrow("pay"))
        BY <2>1, <2>3, <3>1 DEF Charged
      <4>2. Owes(handler[g], c, Escrow("hold")) => visit[c] = "disputed" \/ money[c] \in Closed
        BY <2>1, <2>3 DEF Charged
      <4>3. move \in DOMAIN Resolutions => money'[c] \in Closed
        BY <1>6, MovesFrom DEF Closed
      <4>4. visit[c] = "disputed" => move \in DOMAIN Resolutions
        BY <1>2, <3>1, MovesFrom
      <4>5. QED
        BY <1>6, <4>1, <4>2, <4>3, <4>4
    <3>4. ASSUME NEW g \in Handlers
          PROVE  /\ Owes(handler'[g], c, Escrow("window")) => visit'[c] = "completed"
                 /\ Owes(handler'[g], c, Escrow("pay")) => visit'[c] = "completed"
                 /\ Owes(handler'[g], c, Escrow("hold")) => visit'[c] = "disputed" \/ money'[c] \in Closed
      BY <1>3, <1>5, <1>6, <3>3
    <3>5. \A w \in Payers : c \notin payer[w].due /\ ~ (payer[w].at = "receipt" /\ payer[w].of = c)
      BY <2>1, <2>3, <3>1 DEF Charged
    <3>6. QED
      BY <1>6, <2>3, <3>2, <3>4, <3>5 DEF Charged
  <2>4. QED
    BY <2>2, <2>3
<1>9. ASSUME NEW b \in Visits \ (contested \cup takenBack) PROVE PaidOnce(b)'
  <2>1. \A g \in Handlers : /\ PaysOut(handler'[g], b) => PaysOut(handler[g], b)
                            /\ handler'[g].move = "release" /\ Owes(handler'[g], b, Paid) =>
                                 handler[g].move = "release" /\ Owes(handler[g], b, Paid)
    BY <1>3, <1>5 DEF PaysOut
  <2>2. CASE b # c
    <3>1. \A g \in Handlers : handler[g].on = b /\ ToldAhead(g) => handler'[g].on = b /\ ToldAhead(g)'
      BY <1>1, <1>3, <2>2 DEF ToldAhead
    <3>2. QED
      BY <1>6, <2>1, <2>2, <3>1, PaidKept
  <2>3. CASE b = c
    <3>1. PaidOnce(c) /\ money[c] # "released"
      BY <1>7, <1>9, <2>3 DEF PayInv
    <3>2. told[PaymentOf(c)] >= 1 => ToldAhead(h)
      BY <1>7, <1>9, <2>3, <3>1 DEF PaidOnce, Moving, ToldAhead
    <3>3. ToldAhead(h) => money'[c] = "released"
      BY <1>1, <1>6, MovesFrom DEF ToldAhead
    <3>4. \A g \in Handlers : ~ PaysOut(handler'[g], c)
      BY <2>1, <2>3, <3>1 DEF PaidOnce
    <3>5. told'[PaymentOf(c)'] = told[PaymentOf(c)] /\ PaymentOf(c)' = PaymentOf(c)
      BY <1>6 DEF PaymentOf
    <3>6. QED
      BY <2>1, <2>3, <3>1, <3>2, <3>3, <3>4, <3>5 DEF PaidOnce
  <2>4. QED
    BY <2>2, <2>3
<1>10. QED
  BY <1>6, <1>8, <1>9 DEF PayInv

\* What a handler that goes on owes of a payment, its first item no payment of the escrow.
LEMMA GoesPaying ==
  ASSUME NEW h \in Handlers, NEW q, Goes(h, q), handler[h].todo # <<>>,
         handler[h].todo[1] # Escrow("pay"), Handling(handler[h], told), NEW b, PaysOut(q, b)
  PROVE  PaysOut(handler[h], b) /\ Paid # handler[h].todo[1]
<1>1. Owes(handler[h], b, Paid) /\ Paid # handler[h].todo[1]
  BY DEF Goes, PaysOut
<1>2. handler[h].move = "none"
  <2>1. ASSUME Len(q.todo) = 0 PROVE FALSE
    BY <2>1 DEF PaysOut, Owes
  <2>2. QED
    BY <2>1 DEF Goes
<1>3. ~ Owes(handler[h], b, Escrow("pay"))
  BY DEF Handling, Owes
<1>4. QED
  BY <1>1, <1>2, <1>3 DEF PaysOut

\* A handler with something to do has not told ahead.
LEMMA FirstItem ==
  ASSUME RemindInv, HandInv, NEW h \in Handlers, handler[h].todo # <<>>
  PROVE  /\ Head(handler[h].todo) = handler[h].todo[1] /\ handler[h].todo[1] \in Items
         /\ 1 \in 1..Len(handler[h].todo) /\ handler[h].on \in Visits
         /\ Owes(handler[h], handler[h].on, handler[h].todo[1])
         /\ handler[h].move # "none" => handler[h].move = "release" /\ handler[h].todo[1] = Paid
         /\ ~ ToldAhead(h)
<1>1. PICK r \in Actions : r = handler[h]
  BY DEF RemindInv, Typed
<1>2. r.todo \in Seq(Items) /\ r.todo # <<>>
  BY <1>1 DEF Actions
<1>3. Head(r.todo) = r.todo[1] /\ r.todo[1] \in Items /\ 1 \in 1..Len(r.todo)
  BY <1>2, Rest
<1>4. Handling(r, told)
  BY <1>1 DEF HandInv
<1>5. QED
  BY <1>1, <1>2, <1>3, <1>4 DEF Handling, Owes, ToldAhead

LEMMA PaySettle ==
  ASSUME RemindInv, RemindInv', HandInv, PayInv, NEW h \in Handlers, Settle(h)
  PROVE  PayInv'
<1>1. PICK q : Goes(h, q)
  BY DoneOne
<1>2. PICK c, e : c = handler[h].on /\ e = Head(handler[h].todo).does
  OBVIOUS
<1>3. /\ handler[h].todo # <<>> /\ c \in Visits /\ ~ ToldAhead(h) /\ handler[h].move = "none"
      /\ handler[h].todo[1] = Escrow(e) /\ e \in DOMAIN Effects
      /\ Owes(handler[h], c, Escrow(e))
  <2>1. handler[h].todo # <<>> /\ Head(handler[h].todo).how = "escrow"
    BY DEF Settle, Doing
  <2>2. handler[h].todo[1] = Escrow(e) /\ e \in DOMAIN Effects
    BY <1>2, <2>1, FirstItem DEF Items, Escrow
  <2>3. handler[h].todo[1] # Paid
    BY <2>2, Hows DEF Paid
  <2>4. QED
    BY <1>2, <2>1, <2>2, <2>3, FirstItem
<1>4. /\ UNCHANGED <<visit, told, payer, contested, takenBack>>
      /\ \A b \in Visits \ {c} : money'[b] = money[b]
      /\ \/ money[c] \in Effects[e].from /\ money'[c] = Effects[e].to
         \/ /\ money[c] \notin Effects[e].from /\ money' = money
            /\ Effects[e].to = "released" => Turns(h, Waiting)
  BY <1>2, <1>3 DEF Settle, HandInv, inboxVars
<1>5. Handling(handler[h], told)
  BY DEF HandInv
<1>6. \A g \in Handlers : \A b, n : Owes(handler'[g], b, n) => Owes(handler[g], b, n)
  BY <1>1 DEF Goes
<1>7. ASSUME NEW b \in Visits \ contested PROVE Charged(b)'
  <2>1. Charged(b)
    BY DEF PayInv
  <2>2. CASE money'[b] = money[b]
    BY <1>4, <1>6, <2>2, ChargedKept
  <2>3. CASE money'[b] # money[b]
    <3>1. b = c /\ money[c] \in Effects[e].from /\ money'[c] = Effects[e].to
      BY <1>4, <2>3
    <3>2. money[c] \notin Closed
      BY <1>3, <3>1, EffectsAre
    <3>3. money'[c] \in {"windowed", "released"} => visit[c] = "completed"
      BY <1>3, <2>1, <3>1, EffectsAre DEF Charged
    <3>4. \A g \in Handlers : Owes(handler[g], c, Escrow("hold")) => visit[c] = "disputed"
      BY <2>1, <3>1, <3>2 DEF Charged
    <3>5. ASSUME NEW w \in Payers, c \in payer[w].due PROVE money'[c] = "released"
      <4>1. money[c] = "windowed" /\ visit[c] = "completed"
        BY <2>1, <3>1, <3>2, <3>5 DEF Charged, Closed
      <4>2. e = "hold" \/ e = "pay"
        BY <1>3, <3>1, <4>1, EffectsAre
      <4>3. e # "hold"
        BY <1>3, <3>4, <4>1
      <4>4. QED
        BY <1>3, <3>1, <4>2, <4>3, EffectsAre
    <3>6. \A w \in Payers : ~ (payer[w].at = "receipt" /\ payer[w].of = c)
      BY <2>1, <3>1, <3>2 DEF Charged, Closed
    <3>7. QED
      BY <1>4, <1>6, <2>1, <3>1, <3>3, <3>4, <3>5, <3>6 DEF Charged
  <2>4. QED
    BY <2>2, <2>3
<1>8. ASSUME NEW b \in Visits \ (contested \cup takenBack) PROVE PaidOnce(b)'
  <2>1. PaidOnce(b) /\ Charged(b) /\ PaymentOf(b)' = PaymentOf(b)
    BY DEF PayInv, PaymentOf
  <2>2. \A g \in Handlers \ {h} : handler'[g] = handler[g]
    BY <1>1 DEF Goes
  <2>3. \A g \in Handlers :
          /\ handler'[g].move = "release" /\ Owes(handler'[g], b, Paid) =>
               handler[g].move = "release" /\ Owes(handler[g], b, Paid)
          /\ handler[g].on = b /\ ToldAhead(g) => handler'[g].on = b /\ ToldAhead(g)'
    BY <1>1, <1>3, <2>2 DEF Goes, ToldAhead
  <2>4. money[b] = "released" => money'[b] = "released"
    BY <1>3, <1>4, EffectsAre DEF Closed
  <2>5. CASE ~ PaysOut(q, b) \/ e # "pay"
    <3>1. PaysOut(q, b) => PaysOut(handler[h], b)
      BY <1>1, <1>3, <1>5, <2>5, GoesPaying, Hows
    <3>2. \A g \in Handlers : PaysOut(handler'[g], b) => PaysOut(handler[g], b)
      BY <1>1, <2>2, <3>1 DEF Goes
    <3>3. QED
      BY <1>4, <2>3, <2>4, <3>2, PaidKept
\* The payment was made by this step: nobody was told of it.
  <2>6. CASE PaysOut(q, b) /\ e = "pay"
    <3>1. b = c /\ Owes(handler[h], b, Escrow("pay"))
      BY <1>1, <1>2, <1>3, <2>6 DEF PaysOut, Goes, Owes
    <3>2. visit[b] = "completed"
      BY <2>1, <3>1 DEF Charged
    <3>3. money[b] \in Effects["pay"].from /\ money'[b] = "released"
      <4>1. ~ Turns(h, Waiting)
        <5>1. Waiting.todo = <<>> /\ Len(Waiting.todo) = 0
          BY DEF Waiting
        <5>2. handler'[h] = q
          BY <1>1 DEF Goes
        <5>3. ASSUME Turns(h, Waiting) PROVE q = Waiting
          BY <5>2, <5>3 DEF Turns, RemindInv, Typed
        <5>4. QED
          BY <2>6, <5>1, <5>3 DEF PaysOut, Owes
      <4>2. QED
        BY <1>3, <1>4, <2>6, <3>1, <4>1, EffectsAre
    <3>4. money[b] # "released"
      BY <1>3, <2>6, <3>3, EffectsAre DEF Closed
    <3>5. told[PaymentOf(b)] = 0
      BY <3>2, <3>4, Untold
    <3>6. \A g \in Handlers : ~ PaysOut(handler[g], b)
      BY <2>1, <3>4 DEF PaidOnce
    <3>7. \A g \in Handlers : PaysOut(handler'[g], b) => g = h
      BY <2>2, <3>6
    <3>8. QED
      BY <1>4, <2>1, <2>3, <3>3, <3>5, <3>7 DEF PaidOnce
  <2>7. QED
    BY <2>5, <2>6
<1>9. QED
  BY <1>4, <1>7, <1>8 DEF PayInv

LEMMA PayNotify ==
  ASSUME RemindInv, RemindInv', HandInv, PayInv, NEW h \in Handlers, NotifyUser(h)
  PROVE  PayInv'
<1>1. PICK q : Goes(h, q)
  BY DoneOne
<1>2. PICK c, n : c = handler[h].on /\ n = handler[h].todo[1]
  OBVIOUS
<1>3. /\ handler[h].todo # <<>> /\ c \in Visits /\ ~ ToldAhead(h)
      /\ n = Head(handler[h].todo) /\ n.how = "notify" /\ n = Notice(n.to, n.kind)
      /\ n # Escrow("pay") /\ <<c, n.to, n.kind>> \in Keys
      /\ Owes(handler[h], c, n)
      /\ handler[h].move # "none" => handler[h].move = "release" /\ n = Paid
  <2>1. handler[h].todo # <<>> /\ Head(handler[h].todo).how = "notify"
    BY DEF NotifyUser, Doing
  <2>2. n \in Items /\ n = Head(handler[h].todo) /\ n.how = "notify" /\ c \in Visits
    BY <1>2, <2>1, FirstItem
  <2>3. n = Notice(n.to, n.kind) /\ n # Escrow("pay") /\ <<c, n.to, n.kind>> \in Keys
    BY <2>2, Hows DEF Items, Notice, Keys
  <2>4. QED
    BY <1>2, <2>1, <2>2, <2>3, FirstItem
<1>4. /\ UNCHANGED <<visit, money, bookVars, payer, contested, takenBack>> /\ NextEffect(h)
      /\ \A k \in Keys : told'[k] = IF k = <<c, n.to, n.kind>> THEN OneMore(told[k]) ELSE told[k]
  BY <1>2, <1>3 DEF NotifyUser, bookVars, RemindInv, Typed
<1>5. Handling(handler[h], told)
  BY DEF HandInv
<1>6. \A g \in Handlers : \A b, m : Owes(handler'[g], b, m) => Owes(handler[g], b, m)
  BY <1>1 DEF Goes
<1>7. \A b : PaysOut(q, b) => PaysOut(handler[h], b) /\ Paid # n
  BY <1>1, <1>2, <1>3, <1>5, GoesPaying
<1>8. ASSUME NEW b \in Visits \ (contested \cup takenBack) PROVE PaidOnce(b)'
  <2>1. PaidOnce(b) /\ Charged(b) /\ PaymentOf(b)' = PaymentOf(b) /\ PaymentOf(b) \in Keys
    BY ToldNat DEF PayInv, PaymentOf
  <2>2. \A g \in Handlers \ {h} : handler'[g] = handler[g]
    BY <1>1 DEF Goes
  <2>3. \A g \in Handlers :
          /\ PaysOut(handler'[g], b) => PaysOut(handler[g], b)
          /\ handler'[g].move = "release" /\ Owes(handler'[g], b, Paid) =>
               handler[g].move = "release" /\ Owes(handler[g], b, Paid)
          /\ handler[g].on = b /\ ToldAhead(g) => handler'[g].on = b /\ ToldAhead(g)'
    BY <1>1, <1>3, <1>7, <2>2 DEF Goes, ToldAhead
  <2>4. CASE b # c \/ n # Paid
    <3>1. PaymentOf(b) # <<c, n.to, n.kind>>
      BY <1>3, <2>4 DEF PaymentOf, Paid
    <3>2. QED
      BY <1>4, <2>1, <2>3, <3>1, PaidKept
  <2>5. CASE b = c /\ n = Paid
    <3>1. PaymentOf(b) = <<c, n.to, n.kind>> /\ Owes(handler[h], b, Paid)
      BY <1>3, <2>5, Hows DEF PaymentOf, Paid
    <3>2. told'[PaymentOf(b)] = OneMore(told[PaymentOf(b)]) /\ OneMore(0) = 1
      BY <1>4, <2>1, <3>1 DEF OneMore, ManyTimes
    <3>3. ~ Owes(q, b, Paid)
      BY <1>1, <1>2, <1>3, <2>5 DEF Goes
    <3>4. CASE handler[h].move = "none"
      <4>1. PaysOut(handler[h], b)
        BY <1>2, <1>3, <1>5, <2>5, <3>1, <3>4 DEF PaysOut, Owes, Handling
      <4>2. told[PaymentOf(b)] = 0 /\ money[b] = "released"
        BY <2>1, <4>1 DEF PaidOnce
      <4>3. \A g \in Handlers : ~ PaysOut(handler'[g], b)
        BY <1>1, <2>1, <2>3, <3>3, <4>1 DEF PaidOnce, PaysOut, Goes
      <4>4. \A g \in Handlers : ~ (handler'[g].move = "release" /\ Owes(handler'[g], b, Paid))
        <5>1. visit[b] = "completed"
          BY <2>1, <4>2 DEF Charged
        <5>2. \A g \in Handlers : ~ Moving(handler[g], b)
          BY <5>1, NotMoved
        <5>3. QED
          BY <2>3, <5>2 DEF Moving, Owes
      <4>5. QED
        BY <1>4, <2>1, <3>2, <4>2, <4>3, <4>4 DEF PaidOnce
\* The notice of a resolution, before its commit.
    <3>5. CASE handler[h].move # "none"
      <4>1. handler[h].move = "release" /\ told[PaymentOf(b)] = 0
        BY <1>3, <2>1, <3>1, <3>5 DEF PaidOnce
      <4>2. Moving(handler[h], b) /\ visit[b] # "completed"
        BY <1>2, <1>8, <2>5, <3>5, NotMoved DEF Moving
      <4>3. \A g \in Handlers : ~ PaysOut(handler'[g], b)
        BY <2>1, <2>3, <4>2 DEF Charged, PaidOnce
      <4>4. \A g \in Handlers : ~ (handler'[g].move = "release" /\ Owes(handler'[g], b, Paid))
        <5>1. \A g \in Handlers : Moving(handler[g], b) => g = h
          BY <1>8, <4>2 DEF HandInv, OneMover
        <5>2. \A g \in Handlers \ {h} : ~ (handler[g].move = "release" /\ Owes(handler[g], b, Paid))
          BY <5>1 DEF Moving, Owes
        <5>3. QED
          BY <1>1, <2>2, <3>3, <5>2 DEF Goes
      <4>5. handler'[h].on = b /\ ToldAhead(h)'
        <5>1. q.move = "release" /\ q.on = c /\ Len(q.todo) = 0 /\ handler'[h] = q
          BY <1>1, <1>2, <1>4, <4>1 DEF Goes
        <5>2. q \in Actions
          BY <5>1 DEF RemindInv, Typed
        <5>3. q.todo = <<>>
          BY <5>1, <5>2, EmptySeq DEF Actions
        <5>4. QED
          BY <2>5, <5>1, <5>3 DEF ToldAhead
      <4>6. QED
        BY <1>4, <2>1, <3>2, <4>1, <4>3, <4>4, <4>5 DEF PaidOnce
    <3>6. QED
      BY <3>4, <3>5
  <2>6. QED
    BY <2>4, <2>5
<1>9. QED
  BY <1>4, <1>6, <1>8, PayStill

LEMMA PaySendFails ==
  ASSUME RemindInv, RemindInv', HandInv, PayInv, NEW h \in Handlers,
         SafeSend(h) \/ HandlerFails(h)
  PROVE  PayInv'
<1>1. PICK q : Goes(h, q)
  BY DoneOne
<1>2. /\ UNCHANGED <<visit, money, bookVars, told, payer, contested>>
      /\ takenBack \subseteq takenBack'
      /\ handler[h].on \notin takenBack' => ~ ToldAhead(h)
  <2>1. CASE SafeSend(h)
    BY <2>1, FirstItem DEF SafeSend, Doing, bookVars
  <2>2. CASE HandlerFails(h)
    BY <2>2 DEF HandlerFails, bookVars, inboxVars
  <2>3. QED
    BY <2>1, <2>2
<1>3. \A g \in Handlers : \A b, m : Owes(handler'[g], b, m) => Owes(handler[g], b, m)
  BY <1>1 DEF Goes
<1>4. \A b : PaysOut(q, b) => PaysOut(handler[h], b)
  <2>1. CASE SafeSend(h)
    <3>1. handler[h].todo # <<>> /\ handler[h].todo[1] # Escrow("pay")
      BY <2>1, FirstItem, Hows DEF SafeSend, Doing
    <3>2. QED
      BY <1>1, <3>1, GoesPaying DEF HandInv
  <2>2. CASE HandlerFails(h)
    <3>1. q = Waiting /\ Len(Waiting.todo) = 0
      BY <1>1, <2>2 DEF Goes, HandlerFails, Turns, RemindInv, Typed, Waiting
    <3>2. QED
      BY <3>1 DEF PaysOut, Owes
  <2>3. QED
    BY <2>1, <2>2
<1>5. ASSUME NEW b \in Visits \ (contested \cup takenBack') PROVE PaidOnce(b)'
  <2>1. \A g \in Handlers :
          /\ PaysOut(handler'[g], b) => PaysOut(handler[g], b)
          /\ handler'[g].move = "release" /\ Owes(handler'[g], b, Paid) =>
               handler[g].move = "release" /\ Owes(handler[g], b, Paid)
          /\ handler[g].on = b /\ ToldAhead(g) => handler'[g].on = b /\ ToldAhead(g)'
    BY <1>1, <1>2, <1>4, <1>5 DEF Goes, ToldAhead
  <2>2. b \in Visits \ (contested \cup takenBack)
    BY <1>2, <1>5
  <2>3. QED
    BY <1>2, <2>1, <2>2, PaidKept
<1>6. QED
  BY <1>2, <1>3, <1>5, PayStill

LEMMA PaySweepWrite ==
  ASSUME RemindInv, HandInv, PayInv, NEW w \in Payers, SweepWrite(w)
  PROVE  PayInv'
<1>1. PICK c \in payer[w].due :
        /\ \/ /\ money[c] \in {"captured", "windowed"}
              /\ money' = [money EXCEPT ![c] = "released"]
              /\ told' = [told EXCEPT ![PaymentOf(c)] = OneMore(told[PaymentOf(c)])]
           \/ /\ money[c] \notin {"captured", "windowed"}
              /\ UNCHANGED <<money, told>>
        /\ Pays(w, [due |-> payer[w].due \ {c}, at |-> "receipt", of |-> c])
  BY DEF SweepWrite
<1>2. PICK p : p = [due |-> payer[w].due \ {c}, at |-> "receipt", of |-> c]
  OBVIOUS
<1>3. /\ p.due = payer[w].due \ {c} /\ p.of = c
      /\ c \in Visits /\ payer[w].due \subseteq Visits
      /\ DOMAIN payer' = Payers
      /\ \A v \in Payers : payer'[v] = IF v = w THEN p ELSE payer[v]
      /\ UNCHANGED <<visit, handler, contested, takenBack>>
  BY <1>1, <1>2 DEF Pays, PayInv, SweepRun, SweepWrite
<1>4. \A v \in Payers : SweepRun(payer'[v])
  BY <1>3 DEF PayInv, SweepRun
<1>5. ASSUME NEW b \in Visits \ contested PROVE Charged(b)'
  <2>1. Charged(b)
    BY DEF PayInv
  <2>2. \A v \in Payers :
          /\ b \in payer'[v].due => b \in payer[v].due
          /\ payer'[v].at = "receipt" /\ payer'[v].of = b =>
               (payer[v].at = "receipt" /\ payer[v].of = b) \/ b = c
    BY <1>3
  <2>3. CASE b # c
    <3>1. money'[b] = money[b]
      BY <1>1, <2>3 DEF HandInv
    <3>2. QED
      BY <1>3, <2>2, <2>3, <3>1, ChargedKept
  <2>4. CASE b = c
    <3>1. money[b] \in {"windowed", "released"} /\ visit[b] = "completed"
      BY <1>1, <2>1, <2>4 DEF Charged
    <3>2. money'[b] = "released"
      BY <1>1, <1>3, <2>4, <3>1 DEF HandInv
    <3>3. QED
      BY <1>3, <3>1, <3>2 DEF Charged, Closed
  <2>5. QED
    BY <2>3, <2>4
<1>6. ASSUME NEW b \in Visits \ (contested \cup takenBack) PROVE PaidOnce(b)'
  <2>1. PaidOnce(b) /\ Charged(b) /\ PaymentOf(b)' = PaymentOf(b) /\ PaymentOf(b) \in Keys
    BY ToldNat DEF PayInv, PaymentOf
  <2>2. \A g \in Handlers : handler[g].on = b /\ ToldAhead(g) => handler'[g].on = b /\ ToldAhead(g)'
    BY <1>3 DEF ToldAhead
  <2>3. CASE b # c \/ UNCHANGED <<money, told>>
    <3>1. told'[PaymentOf(b)] = told[PaymentOf(b)] /\ (money[b] = "released" => money'[b] = "released")
      <4>1. b # c => PaymentOf(b) # PaymentOf(c)
        BY DEF PaymentOf
      <4>2. QED
        BY <1>1, <2>1, <2>3, <4>1 DEF HandInv, RemindInv, Typed
    <3>2. QED
      BY <1>3, <2>2, <3>1, PaidKept
  <2>4. CASE b = c /\ money[c] \in {"captured", "windowed"}
    <3>1. visit[b] = "completed" /\ money[b] # "released"
      BY <1>1, <2>1, <2>4 DEF Charged
    <3>2. told[PaymentOf(b)] = 0
      BY <3>1, Untold
    <3>3. told'[PaymentOf(b)] = 1 /\ money'[b] = "released"
      BY <1>1, <1>3, <2>1, <2>4, <3>2 DEF HandInv, RemindInv, Typed, OneMore, ManyTimes
    <3>4. \A g \in Handlers : ~ PaysOut(handler[g], b)
      BY <2>1, <3>1 DEF PaidOnce
    <3>5. \A g \in Handlers : ~ (handler[g].move = "release" /\ Owes(handler[g], b, Paid))
      BY <1>6, <3>1, NotMoved DEF Moving, Owes
    <3>6. QED
      BY <1>3, <2>1, <3>3, <3>4, <3>5 DEF PaidOnce
  <2>5. QED
    BY <1>1, <2>3, <2>4
<1>7. QED
  BY <1>3, <1>4, <1>5, <1>6 DEF PayInv

LEMMA PaySweep ==
  ASSUME RemindInv, HandInv, PayInv, NEW w \in Payers,
         SweepRead(w) \/ SweepReceipt(w) \/ SweepStops(w)
  PROVE  PayInv'
<1>1. PICK p : /\ Pays(w, p) /\ p.at # "receipt"
               /\ \A b \in p.due : b \in payer[w].due \/ (b \in Visits /\ money[b] = "windowed")
  <2>1. CASE SweepRead(w)
    BY <2>1 DEF SweepRead
  <2>2. CASE SweepReceipt(w)
    BY <2>2 DEF SweepReceipt, NextDue, Sleeping
  <2>3. CASE SweepStops(w)
    BY <2>3 DEF SweepStops, Sleeping
  <2>4. QED
    BY <2>1, <2>2, <2>3
<1>2. /\ DOMAIN payer' = Payers
      /\ \A v \in Payers : payer'[v] = IF v = w THEN p ELSE payer[v]
      /\ UNCHANGED <<visit, money, told, handler, contested, takenBack>>
  BY <1>1 DEF Pays, PayInv, SweepRead, SweepReceipt, SweepStops, bookVars, inboxVars
<1>3. \A v \in Payers : SweepRun(payer'[v])
  BY <1>1, <1>2 DEF PayInv, SweepRun
<1>4. ASSUME NEW b \in Visits \ contested PROVE Charged(b)'
  <2>1. Charged(b)
    BY DEF PayInv
  <2>2. QED
    BY <1>1, <1>2, <2>1 DEF Charged
<1>5. ASSUME NEW b \in Visits \ (contested \cup takenBack) PROVE PaidOnce(b)'
  BY <1>2, PaidKept DEF ToldAhead
<1>6. QED
  BY <1>2, <1>3, <1>4, <1>5 DEF PayInv

\* The clock and the reminder job.
LEMMA PayAside ==
  ASSUME RemindInv, HandInv, PayInv,
         \/ \E b \in Visits : TimePasses(b)
         \/ \E j \in Jobs : \/ ReminderRead(j) \/ ReminderInsert(j) \/ ReminderMark(j)
                            \/ ReminderStops(j)
         \/ UNCHANGED noticeVars
  PROVE  PayInv'
<1>1. UNCHANGED <<bookVars, money, payer, handler, contested, takenBack>>
  BY DEF TimePasses, ReminderRead, ReminderInsert, ReminderMark, ReminderStops, noticeVars, bookVars
<1>2. ASSUME NEW b \in Visits PROVE told'[PaymentOf(b)] = told[PaymentOf(b)]
  <2>1. PaymentOf(b) \in Keys /\ PaymentOf(b)[3] # "booking_reminder"
    BY ToldNat DEF PaymentOf
  <2>2. CASE \E j \in Jobs : ReminderInsert(j)
    <3>1. PICK c : told' = [k \in DOMAIN told |->
            IF k[1] = c /\ k[3] = "booking_reminder" THEN OneMore(told[k]) ELSE told[k]]
      BY <2>2 DEF ReminderInsert
    <3>2. QED
      BY <2>1, <3>1 DEF RemindInv, Typed
  <2>3. CASE UNCHANGED told
    BY <2>3
  <2>4. QED
    BY <2>2, <2>3 DEF TimePasses, ReminderRead, ReminderMark, ReminderStops, noticeVars, inboxVars
<1>3. ASSUME NEW b \in Visits \ (contested \cup takenBack) PROVE PaidOnce(b)'
  BY <1>1, <1>2, PaidKept DEF ToldAhead
<1>4. QED
  BY <1>1, <1>3, PayStill

LEMMA PayNext ==
  ASSUME RemindInv, RemindInv', HandInv, PayInv, [NoticesNext]_noticeVars
  PROVE  PayInv'
BY PayRequest, PayReview, PayCheck, PayCommit, PaySettle, PayNotify, PaySendFails,
   PaySweepWrite, PaySweep, PayAside DEF NoticesNext

----------------------------------------------------------------------------
(* The mails.                                                              *)

\* An escrow once released stays released, of a booking that is not contested.
LEMMA StaysReleased ==
  ASSUME RemindInv, HandInv, PayInv, [NoticesNext]_noticeVars,
         NEW b \in Visits \ contested, money[b] = "released"
  PROVE  money'[b] = "released"
<1>1. visit[b] = "completed"
  BY DEF PayInv, Charged
<1>2. CASE \E h \in Handlers : CommitMove(h)
  <2>1. PICK h \in Handlers : CommitMove(h)
    BY <1>2
  <2>2. handler[h].on # b
    BY <1>1, <2>1, NotMoved DEF CommitMove, Moving
  <2>3. QED
    BY <2>1, <2>2 DEF CommitMove, HandInv
<1>3. CASE \E h \in Handlers : Settle(h)
  <2>1. PICK h \in Handlers : Settle(h)
    BY <1>3
  <2>2. PICK e : e = Head(handler[h].todo).does
    OBVIOUS
  <2>3. e \in DOMAIN Effects
    BY <2>1, <2>2, FirstItem DEF Settle, Doing, Items
  <2>4. "released" \notin Effects[e].from
    BY <2>3, EffectsAre DEF Closed
  <2>5. QED
    BY <2>1, <2>2, <2>4 DEF Settle, HandInv
<1>4. CASE \E w \in Payers : SweepWrite(w)
  BY <1>4 DEF SweepWrite, HandInv
<1>5. CASE \E h \in Handlers, c \in Visits : \/ Request(h, c) \/ ReviewBoth(h, c)
                                             \/ \E move \in DOMAIN Moves : Check(h, c, move)
  BY <1>5 DEF Request, ReviewBoth, Check, bookVars
<1>6. CASE \E h \in Handlers : NotifyUser(h) \/ SafeSend(h) \/ HandlerFails(h)
  BY <1>6 DEF NotifyUser, SafeSend, HandlerFails, bookVars
<1>7. CASE \/ \E w \in Payers : SweepRead(w) \/ SweepReceipt(w) \/ SweepStops(w)
           \/ \E c \in Visits : TimePasses(c)
           \/ \E j \in Jobs : \/ ReminderRead(j) \/ ReminderInsert(j) \/ ReminderMark(j)
                              \/ ReminderStops(j)
           \/ UNCHANGED noticeVars
  BY <1>7 DEF SweepRead, SweepReceipt, SweepStops, TimePasses, ReminderRead, ReminderInsert,
     ReminderMark, ReminderStops, noticeVars, bookVars
<1>8. QED
  BY <1>2, <1>3, <1>4, <1>5, <1>6, <1>7 DEF NoticesNext

\* One mail is backed by its notice or, of a payment, by the escrow.
Backed(m) ==
  told[m] >= 1 \/ (m[3] = "payment_released" /\ (m[1] \in contested \/ money[m[1]] = "released"))

LEMMA MailNew ==
  ASSUME RemindInv, HandInv, PayInv, [NoticesNext]_noticeVars, NEW m \in mailed' \ mailed
  PROVE  m \in Keys /\ Backed(m)
<1>1. CASE \E h \in Handlers : SafeSend(h)
  <2>1. PICK h \in Handlers : SafeSend(h)
    BY <1>1
  <2>2. PICK n : n = handler[h].todo[1]
    OBVIOUS
  <2>3. /\ handler[h].todo # <<>> /\ n = Head(handler[h].todo) /\ n.how = "mail" /\ n \in Items
        /\ handler[h].on \in Visits /\ 1 \in 1..Len(handler[h].todo)
    BY <2>1, <2>2, FirstItem DEF SafeSend, Doing
  <2>4. m = <<handler[h].on, n.to, n.kind>>
    BY <2>1, <2>3 DEF SafeSend
  <2>5. m \in Keys
    BY <2>3, <2>4 DEF Items, Keys
  <2>6. 1..(1 - 1) = {}
    OBVIOUS
  <2>7. told[m] >= 1
    BY <2>2, <2>3, <2>4, <2>6 DEF HandInv, Handling
  <2>8. QED
    BY <2>5, <2>7 DEF Backed
<1>2. CASE \E w \in Payers : SweepReceipt(w)
  <2>1. PICK w \in Payers : SweepReceipt(w)
    BY <1>2
  <2>2. PICK b : b = payer[w].of
    OBVIOUS
  <2>3. b \in Visits /\ m = PaymentOf(b) /\ payer[w].at = "receipt"
    BY <2>1, <2>2 DEF SweepReceipt, PayInv, SweepRun
  <2>4. b \in contested \/ money[b] = "released"
    BY <2>2, <2>3 DEF PayInv, Charged
  <2>5. QED
    BY <2>3, <2>4, ToldNat DEF Backed, PaymentOf
<1>3. CASE \E h \in Handlers, c \in Visits : \/ Request(h, c) \/ ReviewBoth(h, c)
                                             \/ \E move \in DOMAIN Moves : Check(h, c, move)
  BY <1>3 DEF Request, ReviewBoth, Check, inboxVars
<1>4. CASE \E h \in Handlers : CommitMove(h) \/ Settle(h) \/ NotifyUser(h) \/ HandlerFails(h)
  BY <1>4 DEF CommitMove, Settle, NotifyUser, HandlerFails, inboxVars
<1>5. CASE \/ \E w \in Payers : SweepRead(w) \/ SweepWrite(w) \/ SweepStops(w)
           \/ \E c \in Visits : TimePasses(c)
           \/ \E j \in Jobs : \/ ReminderRead(j) \/ ReminderInsert(j) \/ ReminderMark(j)
                              \/ ReminderStops(j)
           \/ UNCHANGED noticeVars
  BY <1>5 DEF SweepRead, SweepWrite, SweepStops, TimePasses, ReminderRead, ReminderInsert,
     ReminderMark, ReminderStops, noticeVars, inboxVars
<1>6. QED
  BY <1>1, <1>2, <1>3, <1>4, <1>5 DEF NoticesNext

LEMMA ContestedGrows ==
  ASSUME [NoticesNext]_noticeVars
  PROVE  contested \subseteq contested'
<1>1. CASE \E h \in Handlers, c \in Visits : \/ Request(h, c) \/ ReviewBoth(h, c)
                                             \/ \E move \in DOMAIN Moves : Check(h, c, move)
  BY <1>1 DEF Request, ReviewBoth, Check
<1>2. CASE \E h \in Handlers : \/ CommitMove(h) \/ Settle(h) \/ NotifyUser(h) \/ SafeSend(h)
                               \/ HandlerFails(h)
  BY <1>2 DEF CommitMove, Settle, NotifyUser, SafeSend, HandlerFails
<1>3. CASE \/ \E w \in Payers : SweepRead(w) \/ SweepWrite(w) \/ SweepReceipt(w) \/ SweepStops(w)
           \/ \E c \in Visits : TimePasses(c)
           \/ \E j \in Jobs : \/ ReminderRead(j) \/ ReminderInsert(j) \/ ReminderMark(j)
                              \/ ReminderStops(j)
           \/ UNCHANGED noticeVars
  BY <1>3 DEF SweepRead, SweepWrite, SweepReceipt, SweepStops, TimePasses, ReminderRead,
     ReminderInsert, ReminderMark, ReminderStops, noticeVars
<1>4. QED
  BY <1>1, <1>2, <1>3 DEF NoticesNext

LEMMA MailNext ==
  ASSUME RemindInv, HandInv, PayInv, MailInv, [NoticesNext]_noticeVars
  PROVE  MailInv'
<1>1. \A m \in mailed' : m \in Keys /\ Backed(m)
  BY MailNew DEF MailInv, MailsBacked, Backed
<1>2. ASSUME NEW m \in mailed' PROVE Backed(m)'
  <2>1. m \in Keys /\ Backed(m) /\ m[1] \in Visits
    BY <1>1 DEF Keys
  <2>2. CASE told[m] >= 1
    BY <2>1, <2>2, ToldGrows DEF Backed
  <2>3. CASE m[3] = "payment_released" /\ m[1] \in contested
    BY <2>3, ContestedGrows DEF Backed
  <2>4. CASE m[3] = "payment_released" /\ m[1] \notin contested /\ money[m[1]] = "released"
    BY <2>1, <2>4, StaysReleased DEF Backed
  <2>5. QED
    BY <2>1, <2>2, <2>3, <2>4 DEF Backed
<1>3. QED
  BY <1>1, <1>2 DEF MailInv, MailsBacked, Backed

----------------------------------------------------------------------------
\* The inductive invariant: what the actions have to do, the notices of the transitions and
\* of the payments, and the mails.
ToldInv == HandInv /\ TellInv /\ PayInv /\ MailInv

LEMMA ToldFirst ==
  ASSUME NoticesInit
  PROVE  ToldInv
<1>1. Waiting.move = "none" /\ Waiting.todo = <<>> /\ Len(Waiting.todo) = 0
  BY DEF Waiting
<1>2. \A h \in Handlers : handler[h] = Waiting
  BY DEF NoticesInit
<1>3. /\ Handling(Waiting, told) /\ \A b : ~ Moving(Waiting, b)
      /\ \A b, n : ~ Owes(Waiting, b, n)
      /\ \A b : ~ PaysOut(Waiting, b)
  BY <1>1 DEF Handling, Moving, Owes, PaysOut
<1>4. HandInv
  BY <1>2, <1>3 DEF NoticesInit, HandInv, OneMover
<1>5. \A k \in Keys : told[k] = 0
  BY DEF NoticesInit, Keys
<1>6. ASSUME NEW b \in Visits, NEW to \in Parties, NEW kind \in DOMAIN Reached
      PROVE  TellsOnce(b, to, kind)
  <2>1. <<b, to, kind>> \in Keys
    BY ReachedKinds DEF Keys
  <2>2. QED
    BY <1>2, <1>3, <1>5, <2>1 DEF TellsOnce
<1>7. ASSUME NEW b \in Visits PROVE Charged(b) /\ PaidOnce(b)
  <2>1. PaymentOf(b) \in Keys
    BY DEF PaymentOf, Keys, Parties, Kinds
  <2>2. money[b] = "none" /\ \A w \in Payers : payer[w].due = {} /\ payer[w].at = "read"
    BY DEF NoticesInit, Sleeping
  <2>3. Charged(b)
    BY <1>2, <1>3, <2>2 DEF Charged
  <2>4. PaidOnce(b)
    BY <1>2, <1>3, <1>5, <2>1 DEF PaidOnce
  <2>5. QED
    BY <2>3, <2>4
<1>8. PayInv
  BY <1>7 DEF NoticesInit, PayInv, SweepRun, Sleeping
<1>9. TellInv /\ MailInv
  BY <1>6 DEF NoticesInit, TellInv, MailInv, MailsBacked
<1>10. QED
  BY <1>4, <1>8, <1>9 DEF ToldInv

LEMMA ToldNext ==
  ASSUME RemindInv, RemindInv', ToldInv, [NoticesNext]_noticeVars
  PROVE  ToldInv'
BY HandNext, TellNext, PayNext, MailNext DEF ToldInv

\* Whatever of the parties' and the admin's actions, of the reviews' and the sweep's
\* payments a notice comes from, and however they interleave and fail: nobody is mailed
\* about what neither the inbox nor the escrow shows and, with the provisos of ToldOnce,
\* nobody is told twice, and who was told of a payment has it, or is about to.
THEOREM NobodyToldTwice == NoticesSpec => []ToldOnce
<1>1. ASSUME RemindInv, ToldInv PROVE ToldOnce
  <2>1. ASSUME NEW k \in DOMAIN told, k[3] # "booking_reminder", k[1] \notin contested,
               k[3] = "payment_released" => k[1] \notin takenBack
        PROVE  told[k] <= 1
    <3>1. PICK b \in Visits, to \in Parties, kind \in Kinds : k = <<b, to, kind>>
      BY <1>1 DEF RemindInv, Typed, Keys
    <3>2. CASE OfTransition(to, kind)
      <4>1. kind \in DOMAIN Reached /\ b \notin contested
        BY <2>1, <3>1, ReachedKinds
      <4>2. QED
        BY <1>1, <3>1, <3>2, <4>1 DEF ToldInv, TellInv, TellsOnce
    <3>3. CASE ~ OfTransition(to, kind)
      <4>1. k = PaymentOf(b) /\ b \notin contested \cup takenBack
        BY <2>1, <3>1, <3>3 DEF OfTransition, Parties, PaymentOf
      <4>2. QED
        BY <1>1, <4>1 DEF ToldInv, PayInv, PaidOnce
    <3>4. QED
      BY <3>2, <3>3
  <2>2. PaymentsBacked
    BY <1>1 DEF ToldInv, PayInv, PaidOnce, PaymentsBacked
  <2>3. NoticesOnce
    BY <2>1 DEF NoticesOnce
  <2>4. QED
    BY <1>1, <2>2, <2>3 DEF ToldInv, MailInv, ToldOnce
<1>2. QED
  BY <1>1, ToldFirst, ToldNext, RemindersInvariant, PTL DEF NoticesSpec

============================================================================
