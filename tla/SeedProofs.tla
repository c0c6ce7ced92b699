----------------------------- MODULE SeedProofs -----------------------------
(***************************************************************************)
(* That the demo seed may be run again: NoRowTwice and Seeded, however      *)
(* often the script is started and wherever a run is stopped.              *)
(*                                                                         *)
(* The script is a concatenation of flattened sequences, so its shape is   *)
(* proved first: what FlattenSeq returns, then where the guards stand and  *)
(* which lines each opens.  The invariant needs no more of the script than *)
(* SectionFacts and WhereLinesStand say: each guard looks for the row that *)
(* the first line of its own section makes.                                *)
(***************************************************************************)
EXTENDS Seed, SequenceTheorems, NaturalsInduction, WellFoundedInduction, TLAPS

----------------------------------------------------------------------------
(* Flattening a sequence of sequences.                                     *)

\* A set of numbers has a least one.
LEMMA Least ==
  ASSUME NEW S \in SUBSET Nat, S # {}
  PROVE  \E n \in S : \A m \in S : n <= m
<1>1. PICK n \in S : \A m \in S : <<m, n>> \notin OpToRel(<, Nat)
  BY WFMin, NatLessThanWellFounded, Zenon
<1>2. \A m \in S : ~ (m < n)
  BY <1>1, Zenon DEF OpToRel
<1>3. QED
  BY <1>2

\* What it is to be the sequences flattened so far.
Flattened(seqs, n, flat) ==
  flat = [i \in 1..n |-> IF i = 1 THEN seqs[i] ELSE flat[i - 1] \o seqs[i]]

LEMMA FlattenedExists ==
  ASSUME NEW seqs, NEW n \in Nat \ {0}
  PROVE  \E flat : Flattened(seqs, n, flat)
<1> DEFINE Bad == {m \in Nat \ {0} : ~ \E flat : Flattened(seqs, m, flat)}
<1>1. SUFFICES ASSUME Bad # {} PROVE FALSE
  OBVIOUS
<1>2. PICK k \in Bad : \A m \in Bad : k <= m
  <2>1. Bad \in SUBSET Nat
    OBVIOUS
  <2> HIDE DEF Bad
  <2>2. QED
    BY <1>1, <2>1, Least
<1>3. CASE k = 1
  <2>1. Flattened(seqs, 1, [i \in 1..1 |-> seqs[i]])
    BY DEF Flattened
  <2>2. QED
    BY <1>3, <2>1
<1>4. CASE k # 1
  <2>1. k - 1 \in Nat \ {0} /\ ~ (k <= k - 1)
    BY <1>4
  <2>2. k - 1 \notin Bad
    <3> HIDE DEF Bad
    <3>1. QED
      BY <1>2, <2>1
  <2>3. PICK g : Flattened(seqs, k - 1, g)
    BY <2>1, <2>2
  <2>0. PICK last : last = g[k - 1] \o seqs[k]
    OBVIOUS
  <2>4. PICK h : h = [i \in 1..k |-> IF i = k THEN last ELSE g[i]]
    OBVIOUS
  <2>5. ASSUME NEW i \in 1..k PROVE h[i] = IF i = 1 THEN seqs[i] ELSE h[i - 1] \o seqs[i]
    <3>1. CASE i = k
      <4>1. h[i] = last /\ h[k - 1] = g[k - 1]
        BY <2>1, <2>4, <3>1
      <4>2. QED
        BY <1>4, <2>0, <3>1, <4>1
    <3>2. CASE i # k
      <4>1. i \in 1..(k - 1)
        BY <2>1, <3>2
      <4>2. h[i] = g[i] /\ (i # 1 => h[i - 1] = g[i - 1])
        BY <2>1, <2>4, <4>1
      <4>3. g[i] = IF i = 1 THEN seqs[i] ELSE g[i - 1] \o seqs[i]
        BY <2>3, <4>1 DEF Flattened
      <4>4. QED
        BY <4>2, <4>3
    <3>3. QED
      BY <3>1, <3>2
  <2>6. Flattened(seqs, k, h)
    BY <2>4, <2>5 DEF Flattened
  <2>7. QED
    BY <2>6
<1>5. QED
  BY <1>3, <1>4

LEMMA FlattenUnfolds ==
  ASSUME NEW seqs, Len(seqs) \in Nat \ {0}
  PROVE  \E flat : Flattened(seqs, Len(seqs), flat) /\ FlattenSeq(seqs) = flat[Len(seqs)]
<1> DEFINE c == CHOOSE flat : flat = [i \in 1..Len(seqs) |->
                  IF i = 1 THEN seqs[i] ELSE flat[i - 1] \o seqs[i]]
<1>1. Flattened(seqs, Len(seqs), c)
  <2>1. PICK flat : Flattened(seqs, Len(seqs), flat)
    BY FlattenedExists
  <2>2. QED
    BY <2>1 DEF Flattened
<1>2. FlattenSeq(seqs) = c[Len(seqs)]
  BY DEF FlattenSeq
<1>3. QED
  BY <1>1, <1>2

\* s is the first k of seqs, sequences over X, one after the other: of which
\* members, and how it begins.
Flattens(X, seqs, k, s) ==
  /\ s \in Seq(X)
  /\ Len(seqs[1]) # 0 => Len(s) # 0 /\ s[1] = seqs[1][1]
  /\ \A x : (\E i \in 1..Len(s) : s[i] = x)
        <=> (\E j \in 1..k : \E i \in 1..Len(seqs[j]) : seqs[j][i] = x)

LEMMA FlattenedSeq ==
  ASSUME NEW X, NEW n \in Nat \ {0}, NEW seqs \in [1..n -> Seq(X)], NEW flat,
         Flattened(seqs, n, flat), NEW m \in 1..n
  PROVE  Flattens(X, seqs, m, flat[m])
<1> DEFINE Good(k) == Flattens(X, seqs, k, flat[k])
           Bad == {k \in 1..n : ~ Good(k)}
<1>1. SUFFICES ASSUME Bad # {} PROVE FALSE
  OBVIOUS
<1>2. PICK k \in Bad : \A i \in Bad : k <= i
  <2>1. Bad \in SUBSET Nat
    OBVIOUS
  <2> HIDE DEF Bad
  <2>2. QED
    BY <1>1, <2>1, Least
<1>3. CASE k = 1
  <2>1. flat[1] = seqs[1]
    BY <1>3 DEF Flattened
  <2>2. Good(1)
    BY <1>3, <2>1 DEF Flattens
  <2>3. QED
    BY <1>3, <2>2
<1>4. CASE k # 1
  <2>1. k - 1 \in 1..n /\ k \in 1..n /\ ~ (k <= k - 1)
    BY <1>4
  <2>2. Good(k - 1)
    <3>1. k - 1 \notin Bad
      <4> HIDE DEF Bad
      <4>1. QED
        BY <1>2, <2>1
    <3>2. QED
      BY <2>1, <3>1
  <2>3. flat[k] = flat[k - 1] \o seqs[k]
    BY <1>4 DEF Flattened
  <2>4. PICK s, t : s = flat[k - 1] /\ t = seqs[k]
    OBVIOUS
  <2>5. s \in Seq(X) /\ t \in Seq(X)
    BY <2>1, <2>2, <2>4 DEF Flattens
  <2>6. PICK r : r = flat[k]
    OBVIOUS
  <2>7. PICK a, b : a = Len(s) /\ b = Len(t)
    OBVIOUS
  <2>8. r \in Seq(X)
    BY <2>3, <2>4, <2>5, <2>6, ConcatProperties
  <2>9. a \in Nat /\ b \in Nat
    BY <2>5, <2>7, LenProperties
  <2>10. /\ Len(r) = a + b
         /\ \A i \in 1..(a + b) : r[i] = IF i <= a THEN s[i] ELSE t[i - a]
    BY <2>3, <2>4, <2>5, <2>6, <2>7, ConcatProperties
  <2>11. ASSUME Len(seqs[1]) # 0 PROVE Len(r) # 0 /\ r[1] = seqs[1][1]
    <3>1. a # 0 /\ s[1] = seqs[1][1]
      BY <2>2, <2>4, <2>7, <2>11 DEF Flattens
    <3>2. 1 \in 1..(a + b) /\ 1 <= a
      BY <2>9, <3>1
    <3>3. r[1] = s[1]
      BY <2>10, <3>2
    <3>4. Len(r) # 0
      BY <2>9, <2>10, <3>1
    <3>5. QED
      BY <3>1, <3>3, <3>4
  <2>12. ASSUME NEW x
         PROVE  (\E i \in 1..Len(r) : r[i] = x)
                  <=> (\E j \in 1..k : \E i \in 1..Len(seqs[j]) : seqs[j][i] = x)
    <3>1. ASSUME NEW i \in 1..b PROVE \E h \in 1..(a + b) : r[h] = t[i]
      <4>1. a + i \in 1..(a + b) /\ ~ (a + i <= a) /\ (a + i) - a = i
        BY <2>9
      <4>2. QED
        BY <2>10, <4>1
    <3>2. ASSUME NEW i \in 1..a PROVE \E h \in 1..(a + b) : r[h] = s[i]
      <4>1. i \in 1..(a + b) /\ i <= a
        BY <2>9
      <4>2. QED
        BY <2>10, <4>1
    <3>3. ASSUME NEW h \in 1..(a + b)
          PROVE  (\E i \in 1..a : s[i] = r[h]) \/ (\E i \in 1..b : t[i] = r[h])
      <4>1. CASE h <= a
        <5>1. h \in 1..a /\ r[h] = s[h]
          BY <2>9, <2>10, <4>1
        <5>2. QED
          BY <5>1
      <4>2. CASE ~ (h <= a)
        <5>1. h - a \in 1..b /\ r[h] = t[h - a]
          BY <2>9, <2>10, <4>2
        <5>2. QED
          BY <5>1
      <4>3. QED
        BY <4>1, <4>2
    <3>4. (\E h \in 1..(a + b) : r[h] = x) <=> (\E i \in 1..a : s[i] = x) \/ (\E i \in 1..b : t[i] = x)
      BY <3>1, <3>2, <3>3, Zenon
    <3>5. (\E i \in 1..a : s[i] = x)
            <=> (\E j \in 1..(k - 1) : \E i \in 1..Len(seqs[j]) : seqs[j][i] = x)
      BY <2>2, <2>4, <2>7 DEF Flattens
    <3>6. (\E i \in 1..b : t[i] = x) <=> (\E i \in 1..Len(seqs[k]) : seqs[k][i] = x)
      BY <2>4, <2>7
    <3>7. \A j : j \in 1..k <=> j \in 1..(k - 1) \/ j = k
      BY <2>1
    <3>8. Len(r) = a + b
      BY <2>10
    <3>9. QED
      BY <3>4, <3>5, <3>6, <3>7, <3>8, Zenon
  <2>13. QED
    BY <2>6, <2>8, <2>11, <2>12 DEF Flattens
<1>5. QED
  BY <1>3, <1>4

\* What FlattenSeq returns.
LEMMA FlattenSeqIs ==
  ASSUME NEW X, NEW n \in Nat \ {0}, NEW seqs \in [1..n -> Seq(X)]
  PROVE  Flattens(X, seqs, n, FlattenSeq(seqs))
<1>1. Len(seqs) = n
  OBVIOUS
<1>2. PICK flat : Flattened(seqs, n, flat) /\ FlattenSeq(seqs) = flat[n]
  BY <1>1, FlattenUnfolds
<1>3. n \in 1..n
  OBVIOUS
<1>4. Flattens(X, seqs, n, flat[n])
  BY <1>2, <1>3, FlattenedSeq
<1>5. QED
  BY <1>2, <1>4

----------------------------------------------------------------------------
(* The shape of the script.                                                *)

Caregivers == {"fatima", "khadija", "amina", "naima", "samira", "zahra", "malika", "hafida"}
Accounts   == Caregivers \cup {"sara", "leila", "nadia", "houda", "demo-corp", "demo-bank"}

KeyedLines   == {Keyed(row, u) : row \in {"user", "profile", "slots", "account", "employees"},
                                 u \in Accounts}
BookingLines == {Insert(row, i) : row \in {"booking", "escrow"}, i \in 1..6}
                  \cup {[do |-> "budget", of |-> 2]}
DocLine(u, doc) == [do |-> "insert", row |-> "document", of |-> u, doc |-> doc]
DocumentLines == {DocLine(u, Doc(type, status)) : u \in Caregivers, type \in DocumentTypes,
                                                  status \in DocumentStatuses}
ReviewLines  == {[do |-> "reviews", of |-> i] : i \in 1..6}

\* The script's parts: what is keyed, and the three guarded sections.
KeyedPart ==
  FlattenSeq([i \in 1..Len(CaregiverUsers) |-> SeedCaregiver(CaregiverUsers[i])])
    \o FlattenSeq([i \in 1..Len(FamilyUsers) |-> SeedFamily(FamilyUsers[i])])
    \o FlattenSeq([i \in 1..Len(EmployerUsers) |-> SeedEmployer(EmployerUsers[i])])
BookingPart  == FlattenSeq([i \in 1..Len(Plans) |-> SeedBooking(i)])
DocumentPart == FlattenSeq([i \in 1..Len(CaregiverUsers) |-> SeedDocuments(CaregiverUsers[i])])
ReviewPart   == FlattenSeq([i \in 1..Len(Plans) |-> SeedReviews(i)])

LEMMA UsersAre ==
  /\ Len(CaregiverUsers) = 8 /\ \A i \in 1..8 : CaregiverUsers[i] \in Caregivers
  /\ \A u \in Caregivers : \E i \in 1..8 : CaregiverUsers[i] = u
  /\ Len(FamilyUsers) = 4 /\ \A i \in 1..4 : FamilyUsers[i] \in Accounts
  /\ Len(EmployerUsers) = 2 /\ \A i \in 1..2 : EmployerUsers[i] \in Accounts
  /\ Caregivers \subseteq Accounts
<1>1. Len(CaregiverUsers) = 8 /\ \A i \in 1..8 : CaregiverUsers[i] \in Caregivers
  BY DEF CaregiverUsers, Caregivers
<1>2. \A u \in Caregivers : \E i \in 1..8 : CaregiverUsers[i] = u
  BY DEF CaregiverUsers, Caregivers
<1>3. Len(FamilyUsers) = 4 /\ \A i \in 1..4 : FamilyUsers[i] \in Accounts
  BY DEF FamilyUsers, Accounts
<1>4. Len(EmployerUsers) = 2 /\ \A i \in 1..2 : EmployerUsers[i] \in Accounts
  BY DEF EmployerUsers, Accounts
<1>5. QED
  BY <1>1, <1>2, <1>3, <1>4 DEF Accounts

LEMMA KeyedPartIs == KeyedPart \in Seq(KeyedLines)
<1>1. ASSUME NEW u \in Accounts
      PROVE  /\ SeedCaregiver(u) \in Seq(KeyedLines)
             /\ SeedFamily(u) \in Seq(KeyedLines)
             /\ SeedEmployer(u) \in Seq(KeyedLines)
  <2>1. \A row \in {"user", "profile", "slots", "account", "employees"} : Keyed(row, u) \in KeyedLines
    BY DEF KeyedLines
  <2>2. /\ <<Keyed("user", u), Keyed("profile", u)>> \in Seq(KeyedLines)
        /\ <<Keyed("slots", u)>> \in Seq(KeyedLines) /\ <<>> \in Seq(KeyedLines)
        /\ <<Keyed("user", u), Keyed("account", u), Keyed("employees", u)>> \in Seq(KeyedLines)
    BY <2>1
  <2>3. QED
    BY <2>2, ConcatProperties DEF SeedCaregiver, SeedFamily, SeedEmployer
<1> DEFINE cs == [i \in 1..Len(CaregiverUsers) |-> SeedCaregiver(CaregiverUsers[i])]
           fs == [i \in 1..Len(FamilyUsers) |-> SeedFamily(FamilyUsers[i])]
           es == [i \in 1..Len(EmployerUsers) |-> SeedEmployer(EmployerUsers[i])]
<1>2. /\ cs \in [1..8 -> Seq(KeyedLines)]
      /\ fs \in [1..4 -> Seq(KeyedLines)]
      /\ es \in [1..2 -> Seq(KeyedLines)]
  BY <1>1, UsersAre
<1>3. KeyedPart = FlattenSeq(cs) \o FlattenSeq(fs) \o FlattenSeq(es)
  BY DEF KeyedPart
<1> HIDE DEF cs, fs, es
<1>4. /\ FlattenSeq(cs) \in Seq(KeyedLines)
      /\ FlattenSeq(fs) \in Seq(KeyedLines)
      /\ FlattenSeq(es) \in Seq(KeyedLines)
  <2>1. 8 \in Nat \ {0} /\ 4 \in Nat \ {0} /\ 2 \in Nat \ {0}
    OBVIOUS
  <2>2. /\ Flattens(KeyedLines, cs, 8, FlattenSeq(cs))
        /\ Flattens(KeyedLines, fs, 4, FlattenSeq(fs))
        /\ Flattens(KeyedLines, es, 2, FlattenSeq(es))
    BY <1>2, <2>1, FlattenSeqIs
  <2>3. QED
    BY <2>2 DEF Flattens
<1>5. QED
  BY <1>3, <1>4, ConcatProperties

\* A booking is a row, an escrow when it is past its request, and the total of its
\* employer when part of it is paid by one.
LEMMA BookingSeq ==
  ASSUME NEW i \in 1..6
  PROVE  /\ SeedBooking(i) \in Seq(BookingLines)
         /\ Len(SeedBooking(i)) # 0 /\ SeedBooking(i)[1] = Insert("booking", i)
         /\ Plans[i].status # "requested" =>
              \E k \in 1..Len(SeedBooking(i)) : SeedBooking(i)[k] = Insert("escrow", i)
         /\ Plans[i].subsidy > 0 =>
              i = 2 /\ \E k \in 1..Len(SeedBooking(i)) : SeedBooking(i)[k] = [do |-> "budget", of |-> 2]
<1>1. Insert("booking", i) \in BookingLines /\ Insert("escrow", i) \in BookingLines
  BY DEF BookingLines
<1>2. [do |-> "budget", of |-> 2] \in BookingLines
  BY DEF BookingLines
<1>3. i # 2 => Plans[i].subsidy = 0
  BY DEF Plans
<1>4. Plans[i].status # "requested" => Plans[i].escrow # "none"
  BY DEF Plans
<1>5. Plans[2].subsidy > 0
  BY DEF Plans
<1> DEFINE e == IF Plans[i].escrow # "none" THEN <<Insert("escrow", i)>> ELSE <<>>
           t == IF Plans[i].subsidy > 0 THEN <<[do |-> "budget", of |-> i]>> ELSE <<>>
<1>6. e \in Seq(BookingLines) /\ t \in Seq(BookingLines) /\ <<Insert("booking", i)>> \in Seq(BookingLines)
  BY <1>1, <1>2, <1>3
<1>7. SeedBooking(i) = <<Insert("booking", i)>> \o e \o t
  BY DEF SeedBooking
<1>8. /\ Plans[i].status # "requested" => Len(e) = 1 /\ e[1] = Insert("escrow", i)
      /\ Plans[i].subsidy > 0 => i = 2 /\ Len(t) = 1 /\ t[1] = [do |-> "budget", of |-> 2]
  BY <1>3, <1>4
<1> HIDE DEF e, t
<1>9. PICK h, p : h = <<Insert("booking", i)>> /\ p = h \o e
  OBVIOUS
<1>10. /\ p \in Seq(BookingLines) /\ Len(p) = 1 + Len(e)
       /\ \A k \in 1..(1 + Len(e)) : p[k] = IF k <= 1 THEN h[k] ELSE e[k - 1]
  <2>1. h \in Seq(BookingLines) /\ Len(h) = 1
    BY <1>6, <1>9
  <2>2. QED
    BY <1>6, <1>9, <2>1, ConcatProperties
<1>11. /\ SeedBooking(i) \in Seq(BookingLines) /\ Len(SeedBooking(i)) = Len(p) + Len(t)
       /\ \A k \in 1..(Len(p) + Len(t)) :
            SeedBooking(i)[k] = IF k <= Len(p) THEN p[k] ELSE t[k - Len(p)]
  BY <1>6, <1>7, <1>9, <1>10, ConcatProperties
<1>12. Len(e) \in Nat /\ Len(t) \in Nat
  BY <1>6
<1>13. Len(SeedBooking(i)) # 0 /\ SeedBooking(i)[1] = Insert("booking", i)
  <2>1. p[1] = Insert("booking", i)
    BY <1>9, <1>10, <1>12
  <2>2. QED
    BY <2>1, <1>10, <1>11, <1>12
<1>14. ASSUME Plans[i].status # "requested"
       PROVE  \E k \in 1..Len(SeedBooking(i)) : SeedBooking(i)[k] = Insert("escrow", i)
  <2>1. Len(e) = 1 /\ p[2] = Insert("escrow", i)
    BY <1>8, <1>10, <1>14
  <2>2. 2 \in 1..Len(SeedBooking(i)) /\ SeedBooking(i)[2] = p[2]
    BY <2>1, <1>10, <1>11, <1>12
  <2>3. QED
    BY <2>1, <2>2
<1>15. ASSUME Plans[i].subsidy > 0
       PROVE  i = 2 /\ \E k \in 1..Len(SeedBooking(i)) : SeedBooking(i)[k] = [do |-> "budget", of |-> 2]
  <2>1. i = 2 /\ Len(t) = 1 /\ t[1] = [do |-> "budget", of |-> 2]
    BY <1>8, <1>15
  <2>2. Len(p) + 1 \in 1..Len(SeedBooking(i)) /\ SeedBooking(i)[Len(p) + 1] = t[1]
    BY <2>1, <1>10, <1>11, <1>12
  <2>3. QED
    BY <2>1, <2>2
<1>16. QED
  BY <1>11, <1>13, <1>14, <1>15

\* The bookings start with the first plan's, and every escrow and total is there.
LEMMA BookingPartIs ==
  /\ BookingPart \in Seq(BookingLines)
  /\ Len(BookingPart) # 0 /\ BookingPart[1] = Insert("booking", 1)
  /\ \A i \in 1..6 : Plans[i].status # "requested" =>
       \E k \in 1..Len(BookingPart) : BookingPart[k] = Insert("escrow", i)
  /\ \A i \in 1..6 : Plans[i].subsidy > 0 =>
       i = 2 /\ \E k \in 1..Len(BookingPart) : BookingPart[k] = [do |-> "budget", of |-> 2]
<1> DEFINE bs == [i \in 1..6 |-> SeedBooking(i)]
<1>1. BookingPart = FlattenSeq(bs)
  <2>1. Len(Plans) = 6
    BY DEF Plans
  <2>2. QED
    BY <2>1 DEF BookingPart
<1>2. \A i \in 1..6 : bs[i] = SeedBooking(i)
  OBVIOUS
<1>3. bs \in [1..6 -> Seq(BookingLines)]
  BY BookingSeq
<1> HIDE DEF bs
<1>4. Flattens(BookingLines, bs, 6, BookingPart)
  <2>1. 6 \in Nat \ {0}
    OBVIOUS
  <2>2. QED
    BY <1>1, <1>3, <2>1, FlattenSeqIs
<1>5. Len(bs[1]) # 0 /\ bs[1][1] = Insert("booking", 1)
  <2>1. 1 \in 1..6
    OBVIOUS
  <2>2. QED
    BY <1>2, <2>1, BookingSeq
<1>6. \A i \in 1..6 : \A x : (\E k \in 1..Len(bs[i]) : bs[i][k] = x)
        => \E k \in 1..Len(BookingPart) : BookingPart[k] = x
  BY <1>4 DEF Flattens
<1>7. ASSUME NEW i \in 1..6, Plans[i].status # "requested"
      PROVE  \E k \in 1..Len(BookingPart) : BookingPart[k] = Insert("escrow", i)
  <2>1. \E k \in 1..Len(bs[i]) : bs[i][k] = Insert("escrow", i)
    BY <1>2, <1>7, BookingSeq, Zenon
  <2>2. QED
    BY <1>6, <2>1, Zenon
<1>8. ASSUME NEW i \in 1..6, Plans[i].subsidy > 0
      PROVE  i = 2 /\ \E k \in 1..Len(BookingPart) : BookingPart[k] = [do |-> "budget", of |-> 2]
  <2>1. i = 2
    BY <1>8, BookingSeq, Zenon
  <2>2. \E k \in 1..Len(bs[i]) : bs[i][k] = [do |-> "budget", of |-> 2]
    <3>1. bs[i] = SeedBooking(i)
      BY <1>2
    <3>2. \E k \in 1..Len(SeedBooking(i)) : SeedBooking(i)[k] = [do |-> "budget", of |-> 2]
      BY <1>8, BookingSeq
    <3>3. QED
      BY <3>1, <3>2
  <2>3. \E k \in 1..Len(BookingPart) : BookingPart[k] = [do |-> "budget", of |-> 2]
    BY <1>6, <2>2, Zenon
  <2>4. QED
    BY <2>1, <2>3
<1>9. QED
  BY <1>4, <1>5, <1>7, <1>8 DEF Flattens

\* The documents a caregiver is seeded with compute to the level its profile claims.
DocsOf(u) == {DocsForLevel(ClaimedLevel[u])[i] : i \in 1..Len(DocsForLevel(ClaimedLevel[u]))}

LEMMA ClaimIsBacked ==
  ASSUME NEW u \in Caregivers
  PROVE  /\ DocsForLevel(ClaimedLevel[u]) \in Seq([type : DocumentTypes, status : DocumentStatuses])
         /\ u = "fatima" => Len(DocsForLevel(ClaimedLevel[u])) # 0
         /\ ComputeLevel(DocsOf(u)) = ClaimedLevel[u]
<1>1. ClaimedLevel[u] \in {"certified", "cin_verified", "id_checked", "unverified"}
  BY DEF ClaimedLevel, Caregivers
<1>2. u = "fatima" => ClaimedLevel[u] = "certified"
  BY DEF ClaimedLevel
<1> DEFINE docs == DocsForLevel(ClaimedLevel[u])
<1>3. CASE ClaimedLevel[u] = "certified"
  <2>1. docs = <<Doc("cin", "approved"), Doc("police_clearance", "approved"),
                 Doc("health_cert", "approved"), Doc("reference", "approved")>>
    BY <1>3 DEF DocsForLevel
  <2>2. docs \in Seq([type : DocumentTypes, status : DocumentStatuses]) /\ Len(docs) # 0
    BY <2>1 DEF Doc, DocumentTypes, DocumentStatuses
  <2>3. /\ Doc("cin", "approved") \in DocsOf(u) /\ Doc("police_clearance", "approved") \in DocsOf(u)
        /\ Doc("health_cert", "approved") \in DocsOf(u) /\ Doc("reference", "approved") \in DocsOf(u)
    BY <2>1 DEF DocsOf
  <2>4. ComputeLevel(DocsOf(u)) = "certified"
    BY <2>3 DEF ComputeLevel, Approved, Doc
  <2>5. QED
    BY <1>3, <2>2, <2>4, Zenon
<1>4. CASE ClaimedLevel[u] = "cin_verified"
  <2>1. docs = <<Doc("cin", "approved")>>
    BY <1>4 DEF DocsForLevel
  <2>2. docs \in Seq([type : DocumentTypes, status : DocumentStatuses]) /\ Len(docs) # 0
    BY <2>1 DEF Doc, DocumentTypes, DocumentStatuses
  <2>3. DocsOf(u) = {Doc("cin", "approved")}
    BY <2>1 DEF DocsOf
  <2>4. ComputeLevel(DocsOf(u)) = "cin_verified"
    BY <2>3 DEF ComputeLevel, Approved, Doc
  <2>5. QED
    BY <1>4, <2>2, <2>4, Zenon
<1>5. CASE ClaimedLevel[u] = "id_checked"
  <2>1. docs = <<Doc("cin", "pending")>>
    BY <1>5 DEF DocsForLevel
  <2>2. docs \in Seq([type : DocumentTypes, status : DocumentStatuses]) /\ Len(docs) # 0
    BY <2>1 DEF Doc, DocumentTypes, DocumentStatuses
  <2>3. DocsOf(u) = {Doc("cin", "pending")}
    BY <2>1 DEF DocsOf
  <2>4. ComputeLevel(DocsOf(u)) = "id_checked"
    BY <2>3 DEF ComputeLevel, Approved, PendingCin, Doc
  <2>5. QED
    BY <1>5, <2>2, <2>4, Zenon
<1>6. CASE ClaimedLevel[u] = "unverified"
  <2>1. docs = <<>>
    BY <1>6 DEF DocsForLevel
  <2>2. DocsOf(u) = {}
    BY <2>1 DEF DocsOf
  <2>3. ComputeLevel(DocsOf(u)) = "unverified"
    BY <2>2 DEF ComputeLevel, Approved, PendingCin
  <2>4. docs \in Seq([type : DocumentTypes, status : DocumentStatuses])
    BY <2>1
  <2>5. u # "fatima"
    BY <1>2, <1>6
  <2>6. QED
    BY <1>6, <2>3, <2>4, <2>5, Zenon
<1>7. QED
  BY <1>1, <1>3, <1>4, <1>5, <1>6

LEMMA DocumentsSeq ==
  ASSUME NEW u \in Caregivers
  PROVE  /\ SeedDocuments(u) \in Seq(DocumentLines)
         /\ u = "fatima" => Len(SeedDocuments(u)) # 0
         /\ \A v \in Caregivers : \A doc : (\E k \in 1..Len(SeedDocuments(u)) : SeedDocuments(u)[k] = DocLine(v, doc))
              <=> u = v /\ doc \in DocsOf(u)
<1>1. PICK docs : docs = DocsForLevel(ClaimedLevel[u])
  OBVIOUS
<1>2. SeedDocuments(u) = [i \in 1..Len(docs) |-> DocLine(u, docs[i])]
  BY <1>1 DEF SeedDocuments, DocLine
<1>3. docs \in Seq([type : DocumentTypes, status : DocumentStatuses])
  BY <1>1, ClaimIsBacked
<1>4. Len(docs) \in Nat /\ \A i \in 1..Len(docs) : docs[i] \in [type : DocumentTypes, status : DocumentStatuses]
  BY <1>3, LenProperties, ElementOfSeq
<1>5. \A i \in 1..Len(docs) : DocLine(u, docs[i]) \in DocumentLines
  <2>1. ASSUME NEW i \in 1..Len(docs) PROVE DocLine(u, docs[i]) \in DocumentLines
    <3>1. PICK type \in DocumentTypes, status \in DocumentStatuses : docs[i] = Doc(type, status)
      BY <1>4 DEF Doc
    <3>2. QED
      BY <3>1 DEF DocumentLines
  <2>2. QED
    BY <2>1
<1>6. SeedDocuments(u) \in Seq(DocumentLines) /\ Len(SeedDocuments(u)) = Len(docs)
  BY <1>2, <1>4, <1>5
<1>7. u = "fatima" => Len(SeedDocuments(u)) # 0
  BY <1>1, <1>6, ClaimIsBacked
<1>8. DocsOf(u) = {docs[i] : i \in 1..Len(docs)}
  BY <1>1 DEF DocsOf
<1>9. ASSUME NEW v \in Caregivers, NEW doc
      PROVE  (\E k \in 1..Len(SeedDocuments(u)) : SeedDocuments(u)[k] = DocLine(v, doc))
               <=> u = v /\ doc \in DocsOf(u)
  <2>1. \A other : DocLine(u, other) = DocLine(v, doc) <=> u = v /\ other = doc
    BY DEF DocLine
  <2>2. \A k \in 1..Len(docs) : SeedDocuments(u)[k] = DocLine(u, docs[k])
    BY <1>2
  <2>3. QED
    BY <1>6, <1>8, <2>1, <2>2
<1>10. QED
  BY <1>6, <1>7, <1>9

\* The documents section is not empty, and holds each caregiver's documents.
LEMMA DocumentPartIs ==
  /\ DocumentPart \in Seq(DocumentLines)
  /\ Len(DocumentPart) # 0
  /\ \A u \in Caregivers : \A doc :
       (\E k \in 1..Len(DocumentPart) : DocumentPart[k] = DocLine(u, doc)) <=> doc \in DocsOf(u)
<1> DEFINE ds == [i \in 1..8 |-> SeedDocuments(CaregiverUsers[i])]
<1>1. DocumentPart = FlattenSeq(ds)
  BY UsersAre DEF DocumentPart
<1>2. \A i \in 1..8 : ds[i] = SeedDocuments(CaregiverUsers[i])
  OBVIOUS
<1>3. ds \in [1..8 -> Seq(DocumentLines)]
  BY UsersAre, DocumentsSeq
<1> HIDE DEF ds
<1>4. Flattens(DocumentLines, ds, 8, DocumentPart)
  <2>1. 8 \in Nat \ {0}
    OBVIOUS
  <2>2. QED
    BY <1>1, <1>3, <2>1, FlattenSeqIs
<1>5. Len(ds[1]) # 0
  <2>1. CaregiverUsers[1] = "fatima" /\ "fatima" \in Caregivers
    BY DEF CaregiverUsers, Caregivers
  <2>2. ds[1] = SeedDocuments("fatima")
    BY <1>2, <2>1
  <2>3. QED
    BY <2>1, <2>2, DocumentsSeq
<1>6. ASSUME NEW u \in Caregivers, NEW doc
      PROVE  (\E k \in 1..Len(DocumentPart) : DocumentPart[k] = DocLine(u, doc)) <=> doc \in DocsOf(u)
  <2>1. (\E k \in 1..Len(DocumentPart) : DocumentPart[k] = DocLine(u, doc))
          <=> \E i \in 1..8 : \E k \in 1..Len(ds[i]) : ds[i][k] = DocLine(u, doc)
    BY <1>4 DEF Flattens
  <2>2. ASSUME NEW i \in 1..8
        PROVE  (\E k \in 1..Len(ds[i]) : ds[i][k] = DocLine(u, doc))
                 <=> CaregiverUsers[i] = u /\ doc \in DocsOf(u)
    <3>1. ds[i] = SeedDocuments(CaregiverUsers[i]) /\ CaregiverUsers[i] \in Caregivers
      BY <1>2, UsersAre
    <3>2. PICK v \in Caregivers : v = CaregiverUsers[i]
      BY <3>1
    <3>3. (\E k \in 1..Len(SeedDocuments(v)) : SeedDocuments(v)[k] = DocLine(u, doc))
            <=> v = u /\ doc \in DocsOf(v)
      BY DocumentsSeq
    <3>4. QED
      BY <3>1, <3>2, <3>3
  <2>3. \E i \in 1..8 : CaregiverUsers[i] = u
    BY UsersAre
  <2>4. QED
    BY <2>1, <2>2, <2>3
<1>7. QED
  BY <1>4, <1>5, <1>6 DEF Flattens

LEMMA ReviewPartIs ==
  /\ ReviewPart \in Seq(ReviewLines)
  /\ Len(ReviewPart) # 0 /\ ReviewPart[1] = [do |-> "reviews", of |-> 1]
<1> DEFINE rs == [i \in 1..6 |-> SeedReviews(i)]
<1>1. ReviewPart = FlattenSeq(rs)
  <2>1. Len(Plans) = 6
    BY DEF Plans
  <2>2. QED
    BY <2>1 DEF ReviewPart
<1>2. rs \in [1..6 -> Seq(ReviewLines)]
  <2>1. \A i \in 1..6 : [do |-> "reviews", of |-> i] \in ReviewLines
    BY DEF ReviewLines
  <2>2. \A i \in 1..6 : SeedReviews(i) \in Seq(ReviewLines)
    BY <2>1 DEF SeedReviews
  <2>3. QED
    BY <2>2
<1>3. Len(rs[1]) # 0 /\ rs[1][1] = [do |-> "reviews", of |-> 1]
  BY DEF SeedReviews
<1> HIDE DEF rs
<1>4. Flattens(ReviewLines, rs, 6, ReviewPart)
  <2>1. 6 \in Nat \ {0}
    OBVIOUS
  <2>2. QED
    BY <1>1, <1>2, <2>1, FlattenSeqIs
<1>5. QED
  BY <1>3, <1>4 DEF Flattens

\* Where the guards stand.
ToBookings  == Len(KeyedPart) + 1
ToDocuments == ToBookings + Len(BookingPart) + 1
ToReviews   == ToDocuments + Len(DocumentPart) + 1

LEMMA Joined ==
  ASSUME NEW X, NEW s \in Seq(X), NEW t \in Seq(X), NEW r, r = s \o t
  PROVE  /\ r \in Seq(X) /\ Len(s) \in Nat /\ Len(t) \in Nat /\ Len(r) = Len(s) + Len(t)
         /\ \A i \in 1..Len(s) : r[i] = s[i]
         /\ \A i \in 1..Len(t) : r[Len(s) + i] = t[i]
<1>1. Len(s) \in Nat /\ Len(t) \in Nat
  BY LenProperties
<1>2. /\ r \in Seq(X) /\ Len(r) = Len(s) + Len(t)
      /\ \A i \in 1..(Len(s) + Len(t)) : r[i] = IF i <= Len(s) THEN s[i] ELSE t[i - Len(s)]
  BY ConcatProperties
<1>3. ASSUME NEW i \in 1..Len(s) PROVE r[i] = s[i]
  BY <1>1, <1>2
<1>4. ASSUME NEW i \in 1..Len(t) PROVE r[Len(s) + i] = t[i]
  <2>1. Len(s) + i \in 1..(Len(s) + Len(t)) /\ ~ (Len(s) + i <= Len(s)) /\ (Len(s) + i) - Len(s) = i
    BY <1>1
  <2>2. QED
    BY <1>2, <2>1
<1>5. QED
  BY <1>1, <1>2, <1>3, <1>4

LEMMA OneMore ==
  ASSUME NEW X, NEW s \in Seq(X), NEW x \in X, NEW r, r = s \o <<x>>
  PROVE  /\ r \in Seq(X) /\ Len(s) \in Nat /\ Len(r) = Len(s) + 1
         /\ \A i \in 1..Len(s) : r[i] = s[i]
         /\ r[Len(s) + 1] = x
<1>1. <<x>> \in Seq(X) /\ Len(<<x>>) = 1 /\ <<x>>[1] = x /\ 1 \in 1..1
  OBVIOUS
<1>2. PICK t : t = <<x>>
  OBVIOUS
<1>3. t \in Seq(X) /\ Len(t) = 1 /\ t[1] = x /\ r = s \o t
  BY <1>1, <1>2
<1>4. QED
  BY <1>1, <1>3, Joined

LEMMA Layout ==
  /\ Script \in Seq(UNION {KeyedLines, BookingLines, DocumentLines, ReviewLines,
                           {Unless("booking"), Unless("document"), Unless("reviews"),
                            Insert("notification", "sara")}})
  /\ Len(KeyedPart) \in Nat /\ Len(BookingPart) \in Nat /\ Len(DocumentPart) \in Nat
  /\ Len(ReviewPart) \in Nat /\ Len(Script) = ToReviews + Len(ReviewPart) + 1
  /\ \A k \in 1..Len(KeyedPart) : Script[k] = KeyedPart[k]
  /\ Script[ToBookings] = Unless("booking")
  /\ \A k \in 1..Len(BookingPart) : Script[ToBookings + k] = BookingPart[k]
  /\ Script[ToDocuments] = Unless("document")
  /\ \A k \in 1..Len(DocumentPart) : Script[ToDocuments + k] = DocumentPart[k]
  /\ Script[ToReviews] = Unless("reviews")
  /\ \A k \in 1..Len(ReviewPart) : Script[ToReviews + k] = ReviewPart[k]
  /\ Script[Len(Script)] = Insert("notification", "sara")
<1>1. PICK X : X = UNION {KeyedLines, BookingLines, DocumentLines, ReviewLines,
                           {Unless("booking"), Unless("document"), Unless("reviews"),
                            Insert("notification", "sara")}}
  OBVIOUS
<1>2. /\ KeyedLines \subseteq X /\ BookingLines \subseteq X /\ DocumentLines \subseteq X
      /\ ReviewLines \subseteq X /\ Unless("booking") \in X /\ Unless("document") \in X
      /\ Unless("reviews") \in X /\ Insert("notification", "sara") \in X
  BY <1>1, Zenon
<1>3. KeyedPart \in Seq(X) /\ BookingPart \in Seq(X) /\ DocumentPart \in Seq(X) /\ ReviewPart \in Seq(X)
  BY <1>2, KeyedPartIs, BookingPartIs, DocumentPartIs, ReviewPartIs
<1>4. PICK p1, p2, p3, p4, p5, p6, p7 :
        /\ p1 = KeyedPart \o <<Unless("booking")>> /\ p2 = p1 \o BookingPart
        /\ p3 = p2 \o <<Unless("document")>>       /\ p4 = p3 \o DocumentPart
        /\ p5 = p4 \o <<Unless("reviews")>>        /\ p6 = p5 \o ReviewPart
        /\ p7 = p6 \o <<Insert("notification", "sara")>>
  OBVIOUS
<1>5. Script = p7
  BY <1>4 DEF Script, KeyedPart, BookingPart, DocumentPart, ReviewPart
<1>6. /\ p1 \in Seq(X) /\ Len(KeyedPart) \in Nat /\ Len(p1) = ToBookings
      /\ \A i \in 1..Len(KeyedPart) : p1[i] = KeyedPart[i]
      /\ p1[ToBookings] = Unless("booking")
  BY <1>2, <1>3, <1>4, OneMore DEF ToBookings
<1>7. /\ p2 \in Seq(X) /\ Len(BookingPart) \in Nat /\ Len(p2) = ToBookings + Len(BookingPart)
      /\ \A i \in 1..Len(p1) : p2[i] = p1[i]
      /\ \A i \in 1..Len(BookingPart) : p2[ToBookings + i] = BookingPart[i]
  <2>1. p1 \in Seq(X) /\ BookingPart \in Seq(X) /\ p2 = p1 \o BookingPart
    BY <1>3, <1>4, <1>6
  <2>2. /\ p2 \in Seq(X) /\ Len(BookingPart) \in Nat /\ Len(p2) = Len(p1) + Len(BookingPart)
        /\ \A i \in 1..Len(p1) : p2[i] = p1[i]
        /\ \A i \in 1..Len(BookingPart) : p2[Len(p1) + i] = BookingPart[i]
    BY <2>1, Joined
  <2>3. QED
    BY <1>6, <2>2
<1>8. /\ p3 \in Seq(X) /\ Len(p3) = ToDocuments
      /\ \A i \in 1..Len(p2) : p3[i] = p2[i]
      /\ p3[ToDocuments] = Unless("document")
  BY <1>2, <1>4, <1>7, OneMore DEF ToDocuments
<1>9. /\ p4 \in Seq(X) /\ Len(DocumentPart) \in Nat /\ Len(p4) = ToDocuments + Len(DocumentPart)
      /\ \A i \in 1..Len(p3) : p4[i] = p3[i]
      /\ \A i \in 1..Len(DocumentPart) : p4[ToDocuments + i] = DocumentPart[i]
  <2>1. p3 \in Seq(X) /\ DocumentPart \in Seq(X) /\ p4 = p3 \o DocumentPart
    BY <1>3, <1>4, <1>8
  <2>2. /\ p4 \in Seq(X) /\ Len(DocumentPart) \in Nat /\ Len(p4) = Len(p3) + Len(DocumentPart)
        /\ \A i \in 1..Len(p3) : p4[i] = p3[i]
        /\ \A i \in 1..Len(DocumentPart) : p4[Len(p3) + i] = DocumentPart[i]
    BY <2>1, Joined
  <2>3. QED
    BY <1>8, <2>2
<1>10. /\ p5 \in Seq(X) /\ Len(p5) = ToReviews
       /\ \A i \in 1..Len(p4) : p5[i] = p4[i]
       /\ p5[ToReviews] = Unless("reviews")
  BY <1>2, <1>4, <1>9, OneMore DEF ToReviews
<1>11. /\ p6 \in Seq(X) /\ Len(ReviewPart) \in Nat /\ Len(p6) = ToReviews + Len(ReviewPart)
       /\ \A i \in 1..Len(p5) : p6[i] = p5[i]
       /\ \A i \in 1..Len(ReviewPart) : p6[ToReviews + i] = ReviewPart[i]
  <2>1. p5 \in Seq(X) /\ ReviewPart \in Seq(X) /\ p6 = p5 \o ReviewPart
    BY <1>3, <1>4, <1>10
  <2>2. /\ p6 \in Seq(X) /\ Len(ReviewPart) \in Nat /\ Len(p6) = Len(p5) + Len(ReviewPart)
        /\ \A i \in 1..Len(p5) : p6[i] = p5[i]
        /\ \A i \in 1..Len(ReviewPart) : p6[Len(p5) + i] = ReviewPart[i]
    BY <2>1, Joined
  <2>3. QED
    BY <1>10, <2>2
<1>12. /\ p7 \in Seq(X) /\ Len(p7) = ToReviews + Len(ReviewPart) + 1
       /\ \A i \in 1..Len(p6) : p7[i] = p6[i]
       /\ p7[Len(p7)] = Insert("notification", "sara")
  BY <1>2, <1>4, <1>11, OneMore
<1>13. /\ ToBookings \in Nat \ {0} /\ ToDocuments \in Nat \ {0} /\ ToReviews \in Nat \ {0}
  BY <1>6, <1>7, <1>9 DEF ToBookings, ToDocuments, ToReviews
<1>14. \A i \in 1..ToReviews : p7[i] = p5[i]
  BY <1>10, <1>11, <1>12, <1>13
<1>15. \A i \in 1..(ToDocuments + Len(DocumentPart)) : p7[i] = p4[i]
  BY <1>9, <1>10, <1>13, <1>14 DEF ToReviews
<1>16. \A i \in 1..ToDocuments : p7[i] = p3[i]
  BY <1>8, <1>9, <1>13, <1>15
<1>17. \A i \in 1..(ToBookings + Len(BookingPart)) : p7[i] = p2[i]
  BY <1>7, <1>8, <1>13, <1>16 DEF ToDocuments
<1>18. \A i \in 1..ToBookings : p7[i] = p1[i]
  BY <1>6, <1>7, <1>13, <1>17
<1>19. \A k \in 1..Len(KeyedPart) : p7[k] = KeyedPart[k]
  BY <1>6, <1>13, <1>18 DEF ToBookings
<1>20. p7[ToBookings] = Unless("booking")
  BY <1>6, <1>13, <1>18
<1>21. \A k \in 1..Len(BookingPart) : p7[ToBookings + k] = BookingPart[k]
  BY <1>7, <1>13, <1>17
<1>22. p7[ToDocuments] = Unless("document")
  BY <1>8, <1>13, <1>16
<1>23. \A k \in 1..Len(DocumentPart) : p7[ToDocuments + k] = DocumentPart[k]
  BY <1>9, <1>13, <1>15
<1>24. p7[ToReviews] = Unless("reviews")
  BY <1>10, <1>13, <1>14
<1>25. \A k \in 1..Len(ReviewPart) : p7[ToReviews + k] = ReviewPart[k]
  BY <1>11, <1>12, <1>13
<1>26. QED
  BY <1>1, <1>5, <1>6, <1>7, <1>9, <1>11, <1>12, <1>19, <1>20, <1>21, <1>22, <1>23, <1>24, <1>25

LEMMA Places ==
  /\ ToBookings \in Nat /\ ToDocuments \in Nat /\ ToReviews \in Nat /\ Len(Script) \in Nat
  /\ 0 < ToBookings /\ ToBookings + 1 < ToDocuments /\ ToDocuments + 1 < ToReviews
  /\ ToReviews + 1 < Len(Script)
  /\ \A k \in 1..(ToBookings - 1) : Script[k] \in KeyedLines
  /\ \A k \in (ToBookings + 1)..(ToDocuments - 1) : Script[k] \in BookingLines
  /\ \A k \in (ToDocuments + 1)..(ToReviews - 1) : Script[k] \in DocumentLines
  /\ \A k \in (ToReviews + 1)..(Len(Script) - 1) : Script[k] \in ReviewLines
  /\ Script[ToBookings + 1] = Insert("booking", 1)
  /\ Script[ToReviews + 1] = [do |-> "reviews", of |-> 1]
<1>1. /\ Len(BookingPart) # 0 /\ Len(DocumentPart) # 0 /\ Len(ReviewPart) # 0
      /\ BookingPart[1] = Insert("booking", 1) /\ ReviewPart[1] = [do |-> "reviews", of |-> 1]
  BY BookingPartIs, DocumentPartIs, ReviewPartIs
<1>2. /\ ToBookings \in Nat /\ ToDocuments \in Nat /\ ToReviews \in Nat /\ Len(Script) \in Nat
      /\ 0 < ToBookings /\ ToBookings + 1 < ToDocuments /\ ToDocuments + 1 < ToReviews
      /\ ToReviews + 1 < Len(Script)
  BY <1>1, Layout DEF ToBookings, ToDocuments, ToReviews
<1>3. /\ \A k \in 1..Len(KeyedPart) : KeyedPart[k] \in KeyedLines
      /\ \A k \in 1..Len(BookingPart) : BookingPart[k] \in BookingLines
      /\ \A k \in 1..Len(DocumentPart) : DocumentPart[k] \in DocumentLines
      /\ \A k \in 1..Len(ReviewPart) : ReviewPart[k] \in ReviewLines
  BY KeyedPartIs, BookingPartIs, DocumentPartIs, ReviewPartIs, ElementOfSeq
<1>4. ASSUME NEW k \in 1..(ToBookings - 1) PROVE Script[k] \in KeyedLines
  <2>1. k \in 1..Len(KeyedPart)
    BY Layout DEF ToBookings
  <2>2. QED
    BY <1>3, <2>1, Layout
<1>5. ASSUME NEW k \in (ToBookings + 1)..(ToDocuments - 1) PROVE Script[k] \in BookingLines
  <2>1. k - ToBookings \in 1..Len(BookingPart) /\ ToBookings + (k - ToBookings) = k
    BY <1>2, Layout DEF ToDocuments
  <2>2. Script[ToBookings + (k - ToBookings)] = BookingPart[k - ToBookings]
    BY <2>1, Layout
  <2>3. QED
    BY <1>3, <2>1, <2>2
<1>6. ASSUME NEW k \in (ToDocuments + 1)..(ToReviews - 1) PROVE Script[k] \in DocumentLines
  <2>1. k - ToDocuments \in 1..Len(DocumentPart) /\ ToDocuments + (k - ToDocuments) = k
    BY <1>2, Layout DEF ToReviews
  <2>2. Script[ToDocuments + (k - ToDocuments)] = DocumentPart[k - ToDocuments]
    BY <2>1, Layout
  <2>3. QED
    BY <1>3, <2>1, <2>2
<1>7. ASSUME NEW k \in (ToReviews + 1)..(Len(Script) - 1) PROVE Script[k] \in ReviewLines
  <2>1. k - ToReviews \in 1..Len(ReviewPart) /\ ToReviews + (k - ToReviews) = k
    BY <1>2, Layout
  <2>2. Script[ToReviews + (k - ToReviews)] = ReviewPart[k - ToReviews]
    BY <2>1, Layout
  <2>3. QED
    BY <1>3, <2>1, <2>2
<1>8. 1 \in 1..Len(BookingPart) /\ 1 \in 1..Len(ReviewPart)
  BY <1>1, Layout
<1>9. Script[ToBookings + 1] = Insert("booking", 1) /\ Script[ToReviews + 1] = [do |-> "reviews", of |-> 1]
  BY <1>1, <1>8, Layout
<1>10. QED
  BY <1>2, <1>4, <1>5, <1>6, <1>7, <1>9

\* The lines of the sections are lines of the script.
LEMMA Spots ==
  /\ \A k \in 1..Len(BookingPart) :
       ToBookings + k \in Lines /\ Script[ToBookings + k] = BookingPart[k]
  /\ \A k \in 1..Len(DocumentPart) :
       ToDocuments + k \in Lines /\ Script[ToDocuments + k] = DocumentPart[k]
<1>1. /\ ToBookings \in Nat /\ ToDocuments \in Nat /\ ToReviews \in Nat /\ Len(Script) \in Nat
      /\ Len(BookingPart) \in Nat /\ Len(DocumentPart) \in Nat
      /\ ToDocuments = ToBookings + Len(BookingPart) + 1
      /\ ToReviews = ToDocuments + Len(DocumentPart) + 1
      /\ 0 < ToBookings /\ ToReviews < Len(Script)
  BY Places, Layout DEF ToDocuments, ToReviews
<1>2. \A k \in 1..Len(BookingPart) : ToBookings + k \in Lines
  BY <1>1 DEF Lines
<1>3. \A k \in 1..Len(DocumentPart) : ToDocuments + k \in Lines
  BY <1>1 DEF Lines
<1>4. QED
  BY <1>2, <1>3, Layout

LEMMA Kinds ==
  /\ \A x \in KeyedLines : x.do = "keyed" /\ x.row \notin {"booking", "document", "reviews"}
  /\ \A x \in BookingLines : \/ x.do = "insert" /\ x.row \in {"booking", "escrow"}
                             \/ x = [do |-> "budget", of |-> 2] /\ x.do = "budget" /\ x.of = 2
  /\ \A x \in DocumentLines : x.do = "insert" /\ x.row = "document"
  /\ \A x \in ReviewLines : x.do = "reviews" /\ x.of \in 1..6
  /\ \A row : Unless(row).do = "unless" /\ Unless(row).row = row
  /\ \A row, of : Insert(row, of).do = "insert" /\ Insert(row, of).row = row /\ Insert(row, of).of = of
<1>1. \A x \in KeyedLines : x.do = "keyed" /\ x.row \notin {"booking", "document", "reviews"}
  BY DEF KeyedLines, Keyed
<1>2. \A x \in BookingLines : \/ x.do = "insert" /\ x.row \in {"booking", "escrow"}
                              \/ x = [do |-> "budget", of |-> 2] /\ x.do = "budget" /\ x.of = 2
  BY DEF BookingLines, Insert
<1>3. \A x \in DocumentLines : x.do = "insert" /\ x.row = "document"
  BY DEF DocumentLines, DocLine
<1>4. \A x \in ReviewLines : x.do = "reviews" /\ x.of \in 1..6
  BY DEF ReviewLines
<1>5. QED
  BY <1>1, <1>2, <1>3, <1>4 DEF Unless, Insert

\* Every line of the script stands before the sections, opens one or is in one.
LEMMA LineIs ==
  ASSUME NEW k \in Lines
  PROVE  \/ k < ToBookings /\ Script[k].do = "keyed"
              /\ Script[k].row \notin {"booking", "document", "reviews"}
         \/ k = ToBookings /\ Script[k] = Unless("booking")
         \/ /\ ToBookings < k /\ k < ToDocuments
            /\ \/ Script[k].do = "insert" /\ Script[k].row \in {"booking", "escrow"}
               \/ Script[k].do = "budget" /\ Script[k].of = 2
         \/ k = ToDocuments /\ Script[k] = Unless("document")
         \/ /\ ToDocuments < k /\ k < ToReviews
            /\ Script[k].do = "insert" /\ Script[k].row = "document"
            /\ Script[k] \in DocumentLines
         \/ k = ToReviews /\ Script[k] = Unless("reviews")
         \/ ToReviews < k /\ k < Len(Script) /\ Script[k].do = "reviews" /\ Script[k].of \in 1..6
         \/ ToReviews < k /\ k = Len(Script) /\ Script[k].do = "insert" /\ Script[k].row = "notification"
<1>1. k \in Nat /\ 1 <= k /\ k <= Len(Script)
  BY Places DEF Lines
<1>2. CASE k < ToBookings
  <2>1. k \in 1..(ToBookings - 1)
    BY <1>1, <1>2, Places
  <2>2. QED
    BY <1>2, <2>1, Places, Kinds
<1>3. CASE k = ToBookings
  BY <1>3, Layout
<1>4. CASE ToBookings < k /\ k < ToDocuments
  <2>1. k \in (ToBookings + 1)..(ToDocuments - 1)
    BY <1>1, <1>4, Places
  <2>2. QED
    BY <1>4, <2>1, Places, Kinds
<1>5. CASE k = ToDocuments
  BY <1>5, Layout
<1>6. CASE ToDocuments < k /\ k < ToReviews
  <2>1. k \in (ToDocuments + 1)..(ToReviews - 1)
    BY <1>1, <1>6, Places
  <2>2. QED
    BY <1>6, <2>1, Places, Kinds
<1>7. CASE k = ToReviews
  BY <1>7, Layout
<1>8. CASE ToReviews < k /\ k < Len(Script)
  <2>1. k \in (ToReviews + 1)..(Len(Script) - 1)
    BY <1>1, <1>8, Places
  <2>2. QED
    BY <1>8, <2>1, Places, Kinds
<1>9. CASE ToReviews < k /\ k = Len(Script)
  <2>1. Script[k] = Insert("notification", "sara")
    BY <1>9, Layout
  <2>2. QED
    BY <1>9, <2>1, Kinds
<1>10. QED
  BY <1>1, <1>2, <1>3, <1>4, <1>5, <1>6, <1>7, <1>8, <1>9, Places

----------------------------------------------------------------------------
(* The guarded sections.                                                   *)

Guards     == {g \in Lines : Script[g].do = "unless"}
Section(g) == (g + 1)..(AfterSection(g) - 1)

LEMMA GuardsAre ==
  /\ Guards = {ToBookings, ToDocuments, ToReviews}
  /\ Script[ToBookings].row = "booking" /\ Script[ToDocuments].row = "document"
  /\ Script[ToReviews].row = "reviews"
<1>1. ToBookings \in Lines /\ ToDocuments \in Lines /\ ToReviews \in Lines
  BY Places DEF Lines
<1>2. /\ Script[ToBookings] = Unless("booking") /\ Script[ToDocuments] = Unless("document")
      /\ Script[ToReviews] = Unless("reviews")
  BY Layout
<1>3. /\ Script[ToBookings].do = "unless" /\ Script[ToDocuments].do = "unless"
      /\ Script[ToReviews].do = "unless"
      /\ Script[ToBookings].row = "booking" /\ Script[ToDocuments].row = "document"
      /\ Script[ToReviews].row = "reviews"
  BY <1>2, Kinds
<1>4. \A k \in Lines : Script[k].do = "unless" => k \in {ToBookings, ToDocuments, ToReviews}
  BY LineIs
<1>5. QED
  BY <1>1, <1>3, <1>4 DEF Guards

\* A skipped section ends at the next guard, the last one at the end of the script.
LEMMA NextGuard ==
  ASSUME NEW k \in Lines, NEW g \in Lines, Script[g].do = "unless", k < g,
         \A j \in Lines : Script[j].do = "unless" => j <= k \/ g <= j
  PROVE  AfterSection(k) = g
<1> DEFINE guards == {j \in (k + 1)..Len(Script) : Script[j].do = "unless"}
<1>1. k \in Nat /\ g \in Nat /\ 1 <= k /\ g <= Len(Script) /\ Len(Script) \in Nat
  BY Places DEF Lines
<1>2. g \in guards
  BY <1>1
<1>3. \A j \in guards : j \in Lines /\ j \in Nat /\ k < j
  BY <1>1 DEF Lines
<1>4. \A j \in guards : g <= j
  BY <1>1, <1>3
<1>5. AfterSection(k) = CHOOSE j \in guards : \A i \in guards : j <= i
  <2>1. guards # {}
    BY <1>2
  <2>2. QED
    BY <2>1 DEF AfterSection
<1> HIDE DEF guards
<1>6. \A j \in guards : (\A i \in guards : j <= i) => j = g
  BY <1>1, <1>2, <1>3, <1>4
<1>7. QED
  BY <1>2, <1>4, <1>5, <1>6

LEMMA AfterAre ==
  /\ AfterSection(ToBookings) = ToDocuments
  /\ AfterSection(ToDocuments) = ToReviews
  /\ AfterSection(ToReviews) = Len(Script) + 1
<1>1. \A j \in Lines : Script[j].do = "unless" <=> j \in {ToBookings, ToDocuments, ToReviews}
  BY GuardsAre DEF Guards
<1>2. ToBookings \in Lines /\ ToDocuments \in Lines /\ ToReviews \in Lines
  BY Places DEF Lines
<1>3. AfterSection(ToBookings) = ToDocuments
  <2>1. ASSUME NEW j \in Lines, Script[j].do = "unless" PROVE j <= ToBookings \/ ToDocuments <= j
    <3>1. j \in {ToBookings, ToDocuments, ToReviews}
      BY <1>1, <2>1
    <3>2. QED
      BY <3>1, Places
  <2>2. QED
    BY <1>1, <1>2, <2>1, Places, NextGuard
<1>4. AfterSection(ToDocuments) = ToReviews
  <2>1. ASSUME NEW j \in Lines, Script[j].do = "unless" PROVE j <= ToDocuments \/ ToReviews <= j
    <3>1. j \in {ToBookings, ToDocuments, ToReviews}
      BY <1>1, <2>1
    <3>2. QED
      BY <3>1, Places
  <2>2. QED
    BY <1>1, <1>2, <2>1, Places, NextGuard
<1>5. AfterSection(ToReviews) = Len(Script) + 1
  <2>1. {j \in (ToReviews + 1)..Len(Script) : Script[j].do = "unless"} = {}
    <3>1. \A j \in (ToReviews + 1)..Len(Script) : j \in Lines /\ ToReviews < j
      BY Places DEF Lines
    <3>2. QED
      BY <1>1, <3>1, Places
  <2>2. QED
    BY <2>1 DEF AfterSection, End
<1>6. QED
  BY <1>3, <1>4, <1>5

LEMMA SectionsAre ==
  /\ Section(ToBookings) = {k \in Lines : ToBookings < k /\ k < ToDocuments}
  /\ Section(ToDocuments) = {k \in Lines : ToDocuments < k /\ k < ToReviews}
  /\ Section(ToReviews) = {k \in Lines : ToReviews < k}
BY Places, AfterAre DEF Section, Lines

\* What the steps of a section need: sections hold no guard, a section's first line
\* makes the row its guard looks for, all such rows are made in the section, and
\* only sections insert without a key.
LEMMA SectionFacts ==
  ASSUME NEW g \in Guards
  PROVE  /\ g \in Lines /\ g + 1 \in Lines /\ AfterSection(g) \in 1..End
         /\ g + 1 < AfterSection(g) /\ g + 1 \in Section(g)
         /\ Section(g) = {k \in Lines : g < k /\ k < AfterSection(g)}
         /\ AfterSection(g) \in Lines => AfterSection(g) \in Guards
         /\ Section(g) \cap Guards = {}
         /\ \A k \in Section(g) : Script[k].do \in {"insert", "budget", "reviews"}
         /\ g + 1 \in LinesOf(Script[g].row) /\ LinesOf(Script[g].row) \subseteq Section(g)
         /\ \/ Script[g + 1].do = "insert"
            \/ /\ Script[g + 1].do = "reviews" /\ Script[g + 1].of = 1 /\ ToBookings < g
<1>1. /\ Script[ToBookings + 1].do = "insert" /\ Script[ToBookings + 1].row = "booking"
      /\ Script[ToDocuments + 1].do = "insert" /\ Script[ToDocuments + 1].row = "document"
      /\ Script[ToReviews + 1].do = "reviews" /\ Script[ToReviews + 1].of = 1
  <2>1. ToDocuments + 1 \in (ToDocuments + 1)..(ToReviews - 1)
    BY Places
  <2>2. Script[ToDocuments + 1] \in DocumentLines
    BY <2>1, Places
  <2>3. QED
    BY <2>2, Places, Kinds
<1>2. ToBookings + 1 \in Lines /\ ToDocuments + 1 \in Lines /\ ToReviews + 1 \in Lines
  BY Places DEF Lines
<1>3. /\ ToBookings + 1 \in LinesOf("booking") /\ ToDocuments + 1 \in LinesOf("document")
      /\ ToReviews + 1 \in LinesOf("reviews")
  BY <1>1, <1>2 DEF LinesOf
<1>4. /\ LinesOf("booking") \subseteq Section(ToBookings)
      /\ LinesOf("document") \subseteq Section(ToDocuments)
      /\ LinesOf("reviews") \subseteq Section(ToReviews)
  <2>1. ASSUME NEW k \in LinesOf("booking") PROVE k \in Section(ToBookings)
    BY LineIs, Kinds, SectionsAre DEF LinesOf
  <2>2. ASSUME NEW k \in LinesOf("document") PROVE k \in Section(ToDocuments)
    BY LineIs, Kinds, SectionsAre DEF LinesOf
  <2>3. ASSUME NEW k \in LinesOf("reviews") PROVE k \in Section(ToReviews)
    BY LineIs, Kinds, SectionsAre DEF LinesOf
  <2>4. QED
    BY <2>1, <2>2, <2>3
<1>5. ASSUME NEW k \in Lines, k > ToBookings, k \notin Guards
      PROVE  Script[k].do \in {"insert", "budget", "reviews"}
  <2>1. k \in Nat /\ ~ (k < ToBookings) /\ k # ToBookings /\ k # ToDocuments /\ k # ToReviews
    BY <1>5, GuardsAre, Places DEF Lines
  <2>2. QED
    BY <2>1, LineIs
<1>6. CASE g = ToBookings
  <2>1. \A k \in Section(g) : k \notin Guards /\ k > ToBookings
    <3>1. \A k \in Section(g) : k \in Nat /\ ToBookings < k /\ k < ToDocuments
      BY <1>6, SectionsAre, Places DEF Lines
    <3>2. QED
      BY <3>1, GuardsAre, Places
  <2>2. \A k \in Section(g) : Script[k].do \in {"insert", "budget", "reviews"}
    BY <1>5, <1>6, <2>1, SectionsAre
  <2>3. QED
    BY <1>1, <1>2, <1>3, <1>4, <1>6, <2>1, <2>2, SectionsAre, GuardsAre, AfterAre, Places DEF Lines, End
<1>7. CASE g = ToDocuments
  <2>1. \A k \in Section(g) : k \notin Guards /\ k > ToBookings
    <3>1. \A k \in Section(g) : k \in Nat /\ ToDocuments < k /\ k < ToReviews
      BY <1>7, SectionsAre, Places DEF Lines
    <3>2. QED
      BY <3>1, GuardsAre, Places
  <2>2. \A k \in Section(g) : Script[k].do \in {"insert", "budget", "reviews"}
    BY <1>5, <1>7, <2>1, SectionsAre
  <2>3. QED
    BY <1>1, <1>2, <1>3, <1>4, <1>7, <2>1, <2>2, SectionsAre, GuardsAre, AfterAre, Places DEF Lines, End
<1>8. CASE g = ToReviews
  <2>1. \A k \in Section(g) : k \notin Guards /\ k > ToBookings
    <3>1. \A k \in Section(g) : k \in Nat /\ ToReviews < k
      BY <1>8, SectionsAre, Places DEF Lines
    <3>2. QED
      BY <3>1, GuardsAre, Places
  <2>2. \A k \in Section(g) : Script[k].do \in {"insert", "budget", "reviews"}
    BY <1>5, <1>8, <2>1, SectionsAre
  <2>3. QED
    BY <1>1, <1>2, <1>3, <1>4, <1>8, <2>1, <2>2, SectionsAre, GuardsAre, AfterAre, Places DEF Lines, End
<1>9. QED
  BY <1>6, <1>7, <1>8, GuardsAre

\* What inserts without a key is in a section, what has a key stands before them all.
LEMMA WhereLinesStand ==
  ASSUME NEW k \in Lines
  PROVE  /\ Script[k].do \in {"insert", "budget", "reviews"} => \E g \in Guards : k \in Section(g)
         /\ Script[k].do = "keyed" => \A g \in Guards : k < g
         /\ Script[k].do \in {"keyed", "unless", "insert", "budget", "reviews"}
         /\ Script[k].do = "budget" => Script[k].of = 2
<1>1. Script[k].do = "unless" <=> k \in {ToBookings, ToDocuments, ToReviews}
  BY GuardsAre DEF Guards
<1>2. Script[k].do = "keyed" => k < ToBookings
  BY <1>1, LineIs
<1>3. Script[k].do \in {"insert", "budget", "reviews"} => ToBookings < k /\ k # ToDocuments /\ k # ToReviews
  <2>1. Script[k].do \in {"insert", "budget", "reviews"} => Script[k].do # "unless" /\ Script[k].do # "keyed"
    OBVIOUS
  <2>2. k \in Nat
    BY Places DEF Lines
  <2>3. ToBookings < k \/ k = ToBookings \/ Script[k].do = "keyed"
    BY <2>2, LineIs, Places
  <2>4. QED
    BY <1>1, <2>1, <2>3
<1>4. Script[k].do \in {"insert", "budget", "reviews"} =>
        k \in Section(ToBookings) \cup Section(ToDocuments) \cup Section(ToReviews)
  BY <1>3, SectionsAre, Places DEF Lines
<1>5. Script[k].do \in {"keyed", "unless", "insert", "budget", "reviews"}
  BY <1>1, LineIs
<1>6. Script[k].do = "budget" => Script[k].of = 2
  BY <1>1, LineIs
<1>7. QED
  BY <1>2, <1>4, <1>5, <1>6, GuardsAre, Places DEF Lines

----------------------------------------------------------------------------
(* The invariant of the runs of the script.                                *)

SeedTypes ==
  /\ rowCount \in [Lines -> 0..1]
  /\ at \in 0..End
  /\ wentThrough \in BOOLEAN /\ stopped \in BOOLEAN

\* A section that left any row left the row its guard looks for.
FirstRowFirst == \A g \in Guards : \A k \in Section(g) : rowCount[k] > 0 => rowCount[g + 1] > 0

\* A section is only entered when all of it is still to do.
NothingAhead == \A g \in Guards : at \in Section(g) => \A k \in Section(g) : k >= at => rowCount[k] = 0

\* Past the first line of a section its row is there, made by this run or found.
HeadsPassed == \A g \in Guards : at > g + 1 => rowCount[g + 1] > 0

KeyedPassed == \A k \in Lines : Script[k].do = "keyed" /\ k < at => rowCount[k] > 0

\* The lines before n have been carried out.
Written(n) ==
  \A k \in Lines : k < n =>
    /\ Script[k].do = "insert" => rowCount[k] > 0
    /\ Script[k].do = "budget" => budgetUsed = Plans[2].subsidy

\* The first run, as long as it was not stopped, has skipped nothing.
FirstRun ==
  ~ stopped /\ ~ wentThrough =>
    /\ Written(at)
    /\ \A k \in Lines : k >= at => rowCount[k] = 0

SeedInv ==
  /\ SeedTypes /\ FirstRowFirst /\ NothingAhead /\ HeadsPassed /\ KeyedPassed
  /\ FirstRun
  /\ wentThrough => Written(End)

LEMMA NumbersAre ==
  /\ Len(Script) \in Nat /\ End = Len(Script) + 1
  /\ \A k \in Lines : k \in Nat /\ 0 < k /\ k < End
  /\ \A g \in Guards : g \in Nat /\ 0 < g /\ g \in Lines /\ AfterSection(g) \in Nat
BY SectionFacts, GuardsAre, Places DEF Lines, End

LEMMA SeedInvInit == SeedInit => SeedInv
<1> SUFFICES ASSUME SeedInit PROVE SeedInv
  OBVIOUS
<1>1. SeedTypes
  <2>1. rowCount \in [Lines -> 0..1]
    BY DEF SeedInit
  <2>2. at \in 0..End
    BY NumbersAre DEF SeedInit
  <2>3. wentThrough \in BOOLEAN /\ stopped \in BOOLEAN
    BY DEF SeedInit
  <2>4. QED
    BY <2>1, <2>2, <2>3 DEF SeedTypes
<1>2. \A g \in Guards : g \in Nat /\ 0 < g
  BY GuardsAre, Places
<1>3. FirstRowFirst
  BY SectionFacts DEF SeedInit, FirstRowFirst
<1>4. NothingAhead
  BY SectionFacts DEF SeedInit, NothingAhead
<1>5. HeadsPassed
  BY <1>2 DEF SeedInit, HeadsPassed
<1>6. \A k \in Lines : ~ (k < at)
  BY Places DEF SeedInit, Lines
<1>7. KeyedPassed /\ FirstRun
  BY <1>6 DEF SeedInit, KeyedPassed, FirstRun, Written
<1>8. QED
  BY <1>1, <1>3, <1>4, <1>5, <1>7 DEF SeedInv, SeedInit

\* The line after k is in a section only when k opens it or is in it.
LEMMA Onward ==
  ASSUME NEW k \in Lines, NEW g \in Guards, k + 1 \in Section(g)
  PROVE  k = g \/ k \in Section(g)
<1>1. g < k + 1 /\ k + 1 < AfterSection(g)
  BY SectionFacts
<1>2. g \in Nat /\ k \in Nat /\ AfterSection(g) \in Nat
  BY NumbersAre
<1>3. QED
  BY <1>1, <1>2, SectionFacts

LEMMA StartKeepsSeedInv ==
  ASSUME SeedInv, SeedStarts
  PROVE  SeedInv'
<1>1. at = 0 /\ at' = 1 /\ UNCHANGED <<rowCount, budgetUsed, wentThrough, stopped>>
  BY DEF SeedStarts
<1>2. SeedTypes'
  BY <1>1, NumbersAre DEF SeedInv, SeedTypes
<1>3. FirstRowFirst'
  BY <1>1 DEF SeedInv, FirstRowFirst
<1>4. NothingAhead'
  <2>1. \A g \in Guards : 1 \notin Section(g)
    BY SectionFacts, NumbersAre
  <2>2. QED
    BY <1>1, <2>1 DEF NothingAhead
<1>5. HeadsPassed'
  BY <1>1, NumbersAre DEF HeadsPassed
<1>6. \A k \in Lines : ~ (k < at') /\ k >= at
  BY <1>1, NumbersAre
<1>7. KeyedPassed' /\ FirstRun'
  BY <1>1, <1>6 DEF SeedInv, KeyedPassed, FirstRun, Written
<1>8. QED
  BY <1>1, <1>2, <1>3, <1>4, <1>5, <1>7 DEF SeedInv, Written

LEMMA HaltKeepsSeedInv ==
  ASSUME SeedInv, SeedEnds \/ SeedStops
  PROVE  SeedInv'
<1>1. at' = 0 /\ UNCHANGED <<rowCount, budgetUsed>>
  BY DEF SeedEnds, SeedStops
<1>2. SeedTypes'
  <2>1. rowCount' \in [Lines -> 0..1] /\ at' \in 0..End
    BY <1>1, NumbersAre DEF SeedInv, SeedTypes
  <2>2. wentThrough' \in BOOLEAN /\ stopped' \in BOOLEAN
    BY Zenon DEF SeedInv, SeedTypes, SeedEnds, SeedStops
  <2>3. QED
    BY <2>1, <2>2 DEF SeedTypes
<1>3. FirstRowFirst'
  BY <1>1 DEF SeedInv, FirstRowFirst
<1>4. NothingAhead'
  <2>1. \A g \in Guards : 0 \notin Section(g)
    BY SectionFacts, NumbersAre
  <2>2. QED
    BY <1>1, <2>1 DEF NothingAhead
<1>5. HeadsPassed'
  BY <1>1, NumbersAre DEF HeadsPassed
<1>6. KeyedPassed'
  BY <1>1, NumbersAre DEF KeyedPassed
<1>7. FirstRun'
  BY DEF SeedInv, SeedTypes, FirstRun, SeedEnds, SeedStops
<1>8. wentThrough' => Written(End)
  BY DEF SeedInv, SeedTypes, FirstRun, SeedEnds, SeedStops
<1>9. wentThrough' => Written(End)'
  BY <1>1, <1>8 DEF Written
<1>10. QED
  BY <1>2, <1>3, <1>4, <1>5, <1>6, <1>7, <1>9 DEF SeedInv

LEMMA KeyedKeepsSeedInv ==
  ASSUME SeedInv, InsertKeyed
  PROVE  SeedInv'
<1>1. /\ at \in Lines /\ Script[at].do = "keyed" /\ at' = at + 1
      /\ rowCount' = [rowCount EXCEPT ![at] = IF @ = 0 THEN 1 ELSE @]
      /\ UNCHANGED <<budgetUsed, wentThrough, stopped>>
  BY DEF InsertKeyed, Does
<1>2. /\ rowCount' \in [Lines -> 0..1] /\ rowCount'[at] = 1
      /\ \A k \in Lines : k # at => rowCount'[k] = rowCount[k]
  BY <1>1 DEF SeedInv, SeedTypes
<1>3. \A g \in Guards : at < g
  BY <1>1, WhereLinesStand
<1>4. SeedTypes'
  BY <1>1, <1>2, NumbersAre DEF SeedInv, SeedTypes
<1>5. \A g \in Guards : \A k \in Section(g) : k \in Lines /\ k # at
  BY <1>3, SectionFacts, NumbersAre
<1>6. FirstRowFirst'
  BY <1>2, <1>5, SectionFacts DEF SeedInv, FirstRowFirst
<1>7. NothingAhead'
  <2>1. \A g \in Guards : at + 1 \notin Section(g)
    BY <1>1, <1>3, <1>5, Onward, NumbersAre
  <2>2. QED
    BY <1>1, <2>1 DEF NothingAhead
<1>8. HeadsPassed'
  <2>1. \A g \in Guards : ~ (at + 1 > g + 1)
    BY <1>1, <1>3, NumbersAre
  <2>2. QED
    BY <1>1, <2>1 DEF HeadsPassed
<1>9. \A k \in Lines : (k < at + 1 <=> k < at \/ k = at) /\ (k >= at + 1 => k >= at /\ k # at)
  BY <1>1, NumbersAre
<1>10. KeyedPassed'
  BY <1>1, <1>2, <1>9 DEF SeedInv, KeyedPassed
<1>11. FirstRun'
  BY <1>1, <1>2, <1>9 DEF SeedInv, FirstRun, Written
<1>12. wentThrough' => Written(End)'
  BY <1>1, <1>2 DEF SeedInv, Written
<1>13. QED
  BY <1>4, <1>6, <1>7, <1>8, <1>10, <1>11, <1>12 DEF SeedInv

LEMMA EnterKeepsSeedInv ==
  ASSUME SeedInv, EnterSection
  PROVE  SeedInv'
<1>1. /\ at \in Lines /\ Script[at].do = "unless"
      /\ at' = IF RowsOf(Script[at].row) = {} THEN at + 1 ELSE AfterSection(at)
      /\ UNCHANGED <<rowCount, budgetUsed, wentThrough, stopped>>
  BY DEF EnterSection, Does
<1>2. at \in Guards
  BY <1>1 DEF Guards
<1>3. at' \in Nat /\ at' <= AfterSection(at) /\ AfterSection(at) <= End /\ at < at'
  BY <1>1, <1>2, SectionFacts, NumbersAre
<1>4. SeedTypes'
  BY <1>1, <1>3, NumbersAre DEF SeedInv, SeedTypes
<1>5. FirstRowFirst'
  BY <1>1 DEF SeedInv, FirstRowFirst
<1>6. \A k \in Lines : k < at' /\ Script[k].do \in {"keyed", "insert", "budget"} /\ at' = at + 1 => k < at
  <2>1. \A k \in Lines : Script[k].do \in {"keyed", "insert", "budget"} => k # at
    BY <1>1
  <2>2. QED
    BY <1>1, <2>1, NumbersAre
<1>7. KeyedPassed'
  <2>1. \A k \in Lines : Script[k].do = "keyed" => k < at
    BY <1>2, WhereLinesStand
  <2>2. QED
    BY <1>1, <2>1 DEF SeedInv, KeyedPassed
<1>8. ASSUME NEW h \in Guards, h < at PROVE rowCount[h + 1] > 0
  <2>1. h + 1 # at
    BY <1>2, SectionFacts
  <2>2. at > h + 1
    BY <1>1, <1>8, <2>1, NumbersAre
  <2>3. QED
    BY <2>2 DEF SeedInv, HeadsPassed
<1>9. \A h \in Guards : at < h => ~ (at' > h + 1)
  <2>1. ASSUME NEW h \in Guards, at < h PROVE ~ (at' > h + 1)
    <3>1. h \notin Section(at)
      BY <1>2, SectionFacts
    <3>2. AfterSection(at) <= h
      BY <1>2, <2>1, <3>1, SectionFacts, NumbersAre
    <3>3. QED
      BY <1>2, <1>3, <3>2, NumbersAre
  <2>2. QED
    BY <2>1
<1>10. CASE RowsOf(Script[at].row) = {}
  <2>1. at' = at + 1
    BY <1>1, <1>10
  <2>2. \A k \in Section(at) : rowCount[k] = 0
    <3>1. at + 1 \in LinesOf(Script[at].row) /\ at + 1 \in Lines
      BY <1>2, SectionFacts
    <3>2. ~ (rowCount[at + 1] > 0)
      BY <1>10, <3>1 DEF RowsOf
    <3>3. \A k \in Section(at) : ~ (rowCount[k] > 0) /\ rowCount[k] \in 0..1
      BY <1>2, <3>2, SectionFacts DEF SeedInv, SeedTypes, FirstRowFirst
    <3>4. QED
      BY <3>3
  <2>3. NothingAhead'
    <3>1. ASSUME NEW h \in Guards, at + 1 \in Section(h) PROVE h = at
      BY <1>1, <1>2, <3>1, Onward, SectionFacts
    <3>2. QED
      BY <1>1, <2>1, <2>2, <3>1 DEF NothingAhead
  <2>4. HeadsPassed'
    <3>1. \A h \in Guards : at + 1 > h + 1 => h < at
      BY <1>1, NumbersAre
    <3>2. QED
      BY <1>1, <1>8, <2>1, <3>1 DEF HeadsPassed
  <2>5. FirstRun'
    <3>1. \A k \in Lines : k >= at' => k >= at
      BY <1>1, <2>1, NumbersAre
    <3>2. QED
      BY <1>1, <1>6, <2>1, <3>1 DEF SeedInv, FirstRun, Written
  <2>6. QED
    BY <1>1, <1>4, <1>5, <1>7, <2>3, <2>4, <2>5 DEF SeedInv, Written
<1>11. CASE RowsOf(Script[at].row) # {}
  <2>1. at' = AfterSection(at)
    BY <1>1, <1>11
  <2>2. PICK k \in RowsOf(Script[at].row) : TRUE
    BY <1>11
  <2>3. k \in Section(at) /\ k \in Lines /\ rowCount[k] > 0
    BY <1>2, <2>2, SectionFacts DEF RowsOf
  <2>4. rowCount[at + 1] > 0
    BY <1>2, <2>3 DEF SeedInv, FirstRowFirst
  <2>5. NothingAhead'
    <3>1. ASSUME NEW h \in Guards PROVE AfterSection(at) \notin Section(h)
      BY <1>2, SectionFacts
    <3>2. QED
      BY <2>1, <3>1 DEF NothingAhead
  <2>6. HeadsPassed'
    <3>1. ASSUME NEW h \in Guards, at' > h + 1 PROVE rowCount[h + 1] > 0
      <4>1. h < at \/ h = at \/ at < h
        BY <1>1, NumbersAre
      <4>2. QED
        BY <1>8, <1>9, <2>4, <3>1, <4>1
    <3>2. QED
      BY <1>1, <3>1 DEF HeadsPassed
  <2>7. FirstRun'
    <3>1. k >= at
      BY <1>1, <1>2, <2>3, SectionFacts, NumbersAre
    <3>2. stopped \/ wentThrough
      BY <2>3, <3>1, NumbersAre DEF SeedInv, FirstRun
    <3>3. QED
      BY <1>1, <3>2 DEF FirstRun
  <2>8. QED
    BY <1>1, <1>4, <1>5, <1>7, <2>5, <2>6, <2>7 DEF SeedInv, Written
<1>12. QED
  BY <1>10, <1>11

\* A line of a section, carried out: its row, if it makes one, was not there yet.
SectionLine ==
  /\ at \in Lines /\ Script[at].do \in {"insert", "budget", "reviews"}
  /\ at' = at + 1
  /\ UNCHANGED <<wentThrough, stopped>>
  /\ rowCount' = rowCount \/ rowCount' = [rowCount EXCEPT ![at] = @ + 1]
  /\ Script[at].do = "insert" => rowCount' = [rowCount EXCEPT ![at] = @ + 1]
  /\ (\E g \in Guards : at = g + 1) => rowCount' = [rowCount EXCEPT ![at] = @ + 1]
  /\ budgetUsed' = IF Script[at].do = "budget" THEN Plans[2].subsidy ELSE budgetUsed

LEMMA SectionLineKeepsSeedInv ==
  ASSUME SeedInv, SectionLine
  PROVE  SeedInv'
<1>1. PICK s \in Guards : at \in Section(s)
  BY WhereLinesStand DEF SectionLine
<1>2. at \in Lines /\ rowCount[at] = 0
  BY <1>1, NumbersAre DEF SeedInv, NothingAhead, SectionLine
<1>3. /\ rowCount' \in [Lines -> 0..1]
      /\ \A k \in Lines : k # at => rowCount'[k] = rowCount[k]
      /\ \A k \in Lines : rowCount[k] > 0 => rowCount'[k] > 0
      /\ Script[at].do = "insert" => rowCount'[at] > 0
      /\ (\E g \in Guards : at = g + 1) => rowCount'[at] > 0
  <2>1. rowCount \in [Lines -> 0..1]
    BY DEF SeedInv, SeedTypes
  <2>2. CASE rowCount' = rowCount
    <3>1. rowCount' # [rowCount EXCEPT ![at] = @ + 1]
      BY <1>2, <2>1, <2>2
    <3>2. QED
      BY <2>1, <2>2, <3>1 DEF SectionLine
  <2>3. CASE rowCount' = [rowCount EXCEPT ![at] = @ + 1]
    BY <1>2, <2>1, <2>3
  <2>4. QED
    BY <2>2, <2>3 DEF SectionLine
<1>4. at' = at + 1 /\ UNCHANGED <<wentThrough, stopped>>
  BY DEF SectionLine
<1>5. SeedTypes'
  BY <1>2, <1>3, <1>4, NumbersAre DEF SeedInv, SeedTypes
<1>6. \A g \in Guards : at > g + 1 => rowCount[g + 1] > 0
  BY DEF SeedInv, HeadsPassed
<1>7. FirstRowFirst'
  <2>1. ASSUME NEW g \in Guards, NEW k \in Section(g), rowCount'[k] > 0
        PROVE  rowCount'[g + 1] > 0
    <3>1. g + 1 \in Lines /\ k \in Lines
      BY SectionFacts
    <3>2. CASE k # at
      BY <1>3, <2>1, <3>1, <3>2 DEF SeedInv, FirstRowFirst
    <3>3. CASE k = at
      <4>1. at = g + 1 \/ at > g + 1
        BY <3>3, SectionFacts, NumbersAre
      <4>2. QED
        BY <1>3, <1>6, <3>1, <4>1
    <3>4. QED
      BY <3>2, <3>3
  <2>2. QED
    BY <2>1 DEF FirstRowFirst
<1>8. \A k \in Lines : (k < at + 1 <=> k < at \/ k = at) /\ (k >= at + 1 => k >= at /\ k # at)
  BY <1>2, NumbersAre
<1>9. NothingAhead'
  <2>1. ASSUME NEW g \in Guards, at + 1 \in Section(g), NEW k \in Section(g), k >= at + 1
        PROVE  rowCount'[k] = 0
    <3>1. at # g /\ k \in Lines
      BY <1>1, SectionFacts
    <3>2. at \in Section(g)
      BY <1>2, <2>1, <3>1, Onward
    <3>3. k >= at /\ k # at
      BY <1>8, <2>1, <3>1
    <3>4. QED
      BY <1>3, <3>1, <3>2, <3>3 DEF SeedInv, NothingAhead
  <2>2. QED
    BY <1>4, <2>1 DEF NothingAhead
<1>10. HeadsPassed'
  <2>1. ASSUME NEW g \in Guards, at + 1 > g + 1 PROVE rowCount'[g + 1] > 0
    <3>1. g + 1 \in Lines
      BY SectionFacts
    <3>2. at = g \/ at = g + 1 \/ at > g + 1
      BY <1>2, <2>1, NumbersAre
    <3>3. at # g
      BY <1>1, SectionFacts
    <3>4. QED
      BY <1>3, <1>6, <3>1, <3>2, <3>3
  <2>2. QED
    BY <1>4, <2>1 DEF HeadsPassed
<1>11. KeyedPassed'
  <2>1. Script[at].do # "keyed"
    BY DEF SectionLine
  <2>2. QED
    BY <1>3, <1>4, <1>8, <2>1 DEF SeedInv, KeyedPassed
<1>12. ASSUME NEW n, Written(n)
       PROVE  Written(n)'
  <2>1. \A k \in Lines : k < n /\ Script[k].do = "budget" => budgetUsed' = Plans[2].subsidy
    BY <1>12 DEF SectionLine, Written
  <2>2. QED
    BY <1>3, <1>12, <2>1 DEF Written
<1>13. FirstRun'
  <2>1. ASSUME ~ stopped, ~ wentThrough
        PROVE  Written(at)' /\ \A k \in Lines : k >= at' => rowCount'[k] = 0
    <3>1. Written(at) /\ \A k \in Lines : k >= at => rowCount[k] = 0
      BY <2>1 DEF SeedInv, FirstRun
    <3>2. ASSUME NEW k \in Lines, k < at + 1
          PROVE  /\ Script[k].do = "insert" => rowCount'[k] > 0
                 /\ Script[k].do = "budget" => budgetUsed' = Plans[2].subsidy
      <4>1. CASE k = at
        BY <1>3, <4>1 DEF SectionLine
      <4>2. CASE k < at
        BY <1>3, <3>1, <4>2 DEF SectionLine, Written
      <4>3. QED
        BY <1>8, <3>2, <4>1, <4>2
    <3>3. \A k \in Lines : k >= at + 1 => rowCount'[k] = 0
      BY <1>3, <1>8, <3>1
    <3>4. QED
      BY <1>4, <3>2, <3>3 DEF Written
  <2>2. QED
    BY <1>4, <2>1 DEF FirstRun
<1>14. wentThrough' => Written(End)'
  BY <1>4, <1>12 DEF SeedInv
<1>15. QED
  BY <1>5, <1>7, <1>9, <1>10, <1>11, <1>13, <1>14 DEF SeedInv

LEMMA InsertKeepsSeedInv ==
  ASSUME SeedInv, InsertRow
  PROVE  SeedInv'
<1>1. SectionLine
  BY DEF InsertRow, Does, SectionLine
<1>2. QED
  BY <1>1, SectionLineKeepsSeedInv

\* The first booking is completed, and made before any review is looked at.
LEMMA ReviewsKeepSeedInv ==
  ASSUME SeedInv, InsertReviews
  PROVE  SeedInv'
<1>1. at \in Lines /\ Script[at].do = "reviews" /\ at' = at + 1
  BY DEF InsertReviews, Does
<1>2. UNCHANGED <<budgetUsed, wentThrough, stopped>>
  BY DEF InsertReviews
<1>3. PICK found \in BOOLEAN :
        /\ found <=> /\ Plans[Script[at].of].status = "completed"
                     /\ \E k \in RowsOf("booking") : Script[k].of = Script[at].of
        /\ rowCount' = [rowCount EXCEPT ![at] = IF found THEN @ + 1 ELSE @]
  BY DEF InsertReviews
<1>4. found => rowCount' = [rowCount EXCEPT ![at] = @ + 1]
  BY <1>3
<1>5. ~ found => rowCount' = rowCount
  <2>1. rowCount \in [Lines -> 0..1]
    BY DEF SeedInv, SeedTypes
  <2>2. QED
    BY <1>1, <1>3, <2>1
<1>6. ASSUME NEW g \in Guards, at = g + 1 PROVE found
  <2>1. Script[at].of = 1 /\ ToBookings < g
    BY <1>1, <1>6, SectionFacts
  <2>2. ToBookings \in Guards /\ at > ToBookings + 1
    BY <1>6, <2>1, GuardsAre, NumbersAre
  <2>3. rowCount[ToBookings + 1] > 0
    BY <2>2 DEF SeedInv, HeadsPassed
  <2>4. ToBookings + 1 \in LinesOf("booking")
    BY <2>2, SectionFacts, GuardsAre
  <2>5. Script[ToBookings + 1].of = 1
    BY Places, Kinds
  <2>6. ToBookings + 1 \in RowsOf("booking")
    BY <2>3, <2>4 DEF RowsOf
  <2>7. Plans[1].status = "completed"
    BY DEF Plans
  <2>8. QED
    BY <1>3, <2>1, <2>5, <2>6, <2>7
<1>7. SectionLine
  BY <1>1, <1>2, <1>4, <1>5, <1>6 DEF SectionLine
<1>8. QED
  BY <1>7, SectionLineKeepsSeedInv

LEMMA BudgetKeepsSeedInv ==
  ASSUME SeedInv, SetBudget
  PROVE  SeedInv'
<1>1. at \in Lines /\ Script[at].do = "budget" /\ Script[at].of = 2
  BY WhereLinesStand DEF SetBudget, Does
<1>2. \A g \in Guards : at # g + 1
  BY <1>1, SectionFacts
<1>3. SectionLine
  BY <1>1, <1>2 DEF SetBudget, SectionLine
<1>4. QED
  BY <1>3, SectionLineKeepsSeedInv

\* However often the script is started, and wherever it is stopped: a section is
\* only entered when none of its rows is there, which its first row tells.
THEOREM SeedInvariant == SeedSpec => []SeedInv
<1>1. SeedInv /\ [SeedNext]_seedVars => SeedInv'
  <2> SUFFICES ASSUME SeedInv, [SeedNext]_seedVars PROVE SeedInv'
    OBVIOUS
  <2>1. CASE SeedStarts
    BY <2>1, StartKeepsSeedInv
  <2>2. CASE InsertKeyed
    BY <2>2, KeyedKeepsSeedInv
  <2>3. CASE EnterSection
    BY <2>3, EnterKeepsSeedInv
  <2>4. CASE InsertRow
    BY <2>4, InsertKeepsSeedInv
  <2>5. CASE InsertReviews
    BY <2>5, ReviewsKeepSeedInv
  <2>6. CASE SetBudget
    BY <2>6, BudgetKeepsSeedInv
  <2>7. CASE SeedEnds \/ SeedStops
    BY <2>7, HaltKeepsSeedInv
  <2>8. CASE UNCHANGED seedVars
    BY <2>8 DEF seedVars, SeedInv, SeedTypes, FirstRowFirst, NothingAhead, HeadsPassed,
                KeyedPassed, FirstRun, Written
  <2>9. QED
    BY <2>1, <2>2, <2>3, <2>4, <2>5, <2>6, <2>7, <2>8 DEF SeedNext
<1>2. QED
  BY <1>1, SeedInvInit, PTL DEF SeedSpec

\* "Re-running is safe": however often seed.ts is stopped and started again, no
\* statement has inserted its rows twice.
THEOREM ReRunningIsSafe == SeedSpec => []NoRowTwice
<1>1. SeedInv => NoRowTwice
  BY DEF SeedInv, SeedTypes, NoRowTwice
<1>2. QED
  BY <1>1, SeedInvariant, PTL

\* When everything was written, a caregiver's seeded documents are those of its level.
LEMMA DocumentsStand ==
  ASSUME Written(End), NEW u \in Caregivers
  PROVE  SeededDocs(u) = DocsOf(u)
<1>1. ASSUME NEW k \in RowsOf("document"), Script[k].of = u PROVE Script[k].doc \in DocsOf(u)
  <2>1. k \in Section(ToDocuments) /\ k \in Lines
    BY SectionFacts, GuardsAre DEF RowsOf
  <2>2. k \in (ToDocuments + 1)..(ToReviews - 1)
    BY <2>1, SectionsAre, Places DEF Lines
  <2>3. Script[k] \in DocumentLines
    BY <2>2, Places
  <2>4. Script[k] = DocLine(u, Script[k].doc)
    BY <1>1, <2>3 DEF DocumentLines, DocLine
  <2>5. k - ToDocuments \in 1..Len(DocumentPart) /\ ToDocuments + (k - ToDocuments) = k
    <3>1. /\ ToDocuments \in Nat /\ Len(DocumentPart) \in Nat
          /\ ToReviews = ToDocuments + Len(DocumentPart) + 1
      BY Layout, Places DEF ToReviews
    <3>2. QED
      BY <2>2, <3>1
  <2>6. DocumentPart[k - ToDocuments] = Script[k]
    BY <2>5, Layout
  <2>7. PICK doc : doc = Script[k].doc
    OBVIOUS
  <2>8. DocumentPart[k - ToDocuments] = DocLine(u, doc)
    BY <2>4, <2>6, <2>7
  <2>9. QED
    BY <2>5, <2>7, <2>8, DocumentPartIs
<1>2. ASSUME NEW doc \in DocsOf(u)
      PROVE  \E k \in RowsOf("document") : Script[k].of = u /\ Script[k].doc = doc
  <2>1. PICK k \in 1..Len(DocumentPart) : DocumentPart[k] = DocLine(u, doc)
    BY DocumentPartIs
  <2>2. Script[ToDocuments + k] = DocLine(u, doc) /\ ToDocuments + k \in Lines
    BY <2>1, Spots
  <2>3. /\ Script[ToDocuments + k].do = "insert" /\ Script[ToDocuments + k].row = "document"
        /\ Script[ToDocuments + k].of = u /\ Script[ToDocuments + k].doc = doc
    BY <2>2 DEF DocLine
  <2>4. rowCount[ToDocuments + k] > 0
    BY <2>2, <2>3, NumbersAre DEF Written
  <2>5. ToDocuments + k \in RowsOf("document")
    BY <2>2, <2>3, <2>4 DEF RowsOf, LinesOf
  <2>6. QED
    BY <2>3, <2>5
<1>3. QED
  BY <1>1, <1>2 DEF SeededDocs

\* Every run that ends has written all keyed rows; and once a run has ended that no
\* earlier one was stopped before, the documents of every caregiver compute to the
\* level its profile claims, every booking past its request has its escrow, and the
\* employer's total is its subsidy.
THEOREM SeedIsConsistent == SeedSpec => []Seeded
<1>1. SeedInv => Seeded
  <2> SUFFICES ASSUME SeedInv PROVE Seeded
    OBVIOUS
  <2>1. ASSUME at = End, NEW k \in Lines, Script[k].do = "keyed" PROVE rowCount[k] = 1
    <3>1. rowCount[k] > 0 /\ rowCount[k] \in 0..1
      BY <2>1, NumbersAre DEF SeedInv, SeedTypes, KeyedPassed
    <3>2. QED
      BY <3>1
  <2>2. ASSUME wentThrough, NEW i \in 1..Len(CaregiverUsers)
        PROVE  ComputeLevel(SeededDocs(CaregiverUsers[i])) = ClaimedLevel[CaregiverUsers[i]]
    <3>1. CaregiverUsers[i] \in Caregivers /\ Written(End)
      BY <2>2, UsersAre DEF SeedInv
    <3>2. QED
      BY <3>1, DocumentsStand, ClaimIsBacked
  <2>3. Len(Plans) = 6
    BY DEF Plans
  <2>4. ASSUME wentThrough, NEW i \in 1..6, Plans[i].status # "requested"
        PROVE  \E k \in RowsOf("escrow") : Script[k].of = i
    <3>1. PICK k \in 1..Len(BookingPart) : BookingPart[k] = Insert("escrow", i)
      BY <2>4, BookingPartIs
    <3>2. Script[ToBookings + k] = Insert("escrow", i) /\ ToBookings + k \in Lines
      BY <3>1, Spots
    <3>3. /\ Script[ToBookings + k].do = "insert" /\ Script[ToBookings + k].row = "escrow"
          /\ Script[ToBookings + k].of = i
      BY <3>2, Kinds
    <3>4. rowCount[ToBookings + k] > 0
      BY <2>4, <3>2, <3>3, NumbersAre DEF SeedInv, Written
    <3>5. QED
      BY <3>2, <3>3, <3>4 DEF RowsOf, LinesOf
  <2>5. ASSUME wentThrough, NEW i \in 1..6, Plans[i].subsidy > 0
        PROVE  budgetUsed = Plans[i].subsidy
    <3>1. i = 2
      BY <2>5, BookingPartIs
    <3>2. PICK k \in 1..Len(BookingPart) : BookingPart[k] = [do |-> "budget", of |-> 2]
      BY <2>5, BookingPartIs
    <3>3. Script[ToBookings + k] = BookingPart[k] /\ ToBookings + k \in Lines
      BY Spots
    <3>4. Script[ToBookings + k].do = "budget"
      BY <3>2, <3>3
    <3>5. QED
      BY <2>5, <3>1, <3>3, <3>4, NumbersAre DEF SeedInv, Written
  <2>6. QED
    BY <2>1, <2>2, <2>3, <2>4, <2>5 DEF Seeded
<1>2. QED
  BY <1>1, SeedInvariant, PTL

=============================================================================
