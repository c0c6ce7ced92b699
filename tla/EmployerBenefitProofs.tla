----------------------- MODULE EmployerBenefitProofs -----------------------
(***************************************************************************)
(* Proofs about EmployerBenefit and the arithmetic of EscrowAmounts, for   *)
(* any employers, families and bookings, any rates, durations, policy and  *)
(* benefits.  What the folds over sets of bookings add up to is proved     *)
(* first, from a smallest set that would be a counterexample.              *)
(***************************************************************************)
EXTENDS EmployerBenefit, FiniteSetTheorems, NaturalsInduction, WellFoundedInduction, TLAPS

----------------------------------------------------------------------------
(* Sums over a finite set.                                                 *)

\* A set of numbers has a least one.
LEMMA Least ==
  ASSUME NEW S \in SUBSET Nat, S # {}
  PROVE  \E n \in S : \A m \in S : n <= m
<1>1. PICK n \in S : \A m \in S : <<m, n>> \notin OpToRel(<, Nat)
  BY WFMin, NatLessThanWellFounded, Zenon
<1>2. \A m \in S : ~ (m < n)
  BY <1>1, Zenon DEF OpToRel
<1>3. QED
  BY <1>2

\* Among sets of members of a finite set there is a smallest.
LEMMA Smallest ==
  ASSUME NEW T, IsFiniteSet(T), NEW Bad \in SUBSET (SUBSET T), Bad # {}
  PROVE  \E s \in Bad : \A r \in Bad : Cardinality(s) <= Cardinality(r)
<1>1. \A s \in Bad : Cardinality(s) \in Nat
  BY FS_Subset, FS_CardinalityType
<1>2. PICK sizes : sizes = {Cardinality(s) : s \in Bad}
  OBVIOUS
<1>3. sizes \in SUBSET Nat /\ sizes # {}
  BY <1>1, <1>2
<1>4. PICK n \in sizes : \A m \in sizes : n <= m
  BY <1>3, Least
<1>5. QED
  BY <1>2, <1>4

\* A member less makes a set smaller.
LEMMA OneLess ==
  ASSUME NEW T, IsFiniteSet(T), NEW s \in SUBSET T, NEW x \in s
  PROVE  /\ s \ {x} \in SUBSET T
         /\ Cardinality(s) \in Nat /\ Cardinality(s \ {x}) \in Nat
         /\ Cardinality(s \ {x}) = Cardinality(s) - 1
<1>1. IsFiniteSet(s)
  BY FS_Subset
<1>2. QED
  BY <1>1, FS_RemoveElement, FS_CardinalityType

\* The member a sum takes first.
First(s) == CHOOSE x \in s : TRUE

\* What it is to be the sums of f over the subsets of T.
Sums(f, T, sum) ==
  sum = [s \in SUBSET T |-> IF s = {} THEN 0 ELSE f[First(s)] + sum[s \ {First(s)}]]

\* A sum is defined: there are sums over all subsets.
LEMMA SumsExist ==
  ASSUME NEW T, IsFiniteSet(T), NEW f
  PROVE  \E sum : Sums(f, T, sum)
<1> DEFINE Of(sum, s) == IF s = {} THEN 0 ELSE f[First(s)] + sum[s \ {First(s)}]
           UpTo(n, sum) == \A s \in SUBSET T : Cardinality(s) <= n => sum[s] = Of(sum, s)
           Bad == {n \in Nat : ~ \E sum : UpTo(n, sum)}
<1>1. ASSUME Bad # {} PROVE FALSE
  <2>1. PICK k \in Bad : \A m \in Bad : k <= m
    BY <1>1, Least
  <2>2. CASE k = 0
    <3>1. UpTo(0, [s \in SUBSET T |-> 0])
      <4>1. ASSUME NEW s \in SUBSET T, Cardinality(s) <= 0 PROVE s = {}
        BY <4>1, FS_Subset, FS_CardinalityType, FS_EmptySet
      <4>2. QED
        BY <4>1
    <3>2. QED
      BY <2>1, <2>2, <3>1
  <2>3. CASE k # 0
    <3>1. k - 1 \in Nat /\ k \in Nat
      BY <2>1, <2>3
    <3>2. k - 1 \notin Bad
      <4>1. ~ (k <= k - 1)
        BY <3>1
      <4> HIDE DEF Bad
      <4>2. QED
        BY <2>1, <4>1
    <3>3. PICK g : UpTo(k - 1, g)
      BY <3>1, <3>2
    <3>4. PICK h : h = [s \in SUBSET T |-> IF Cardinality(s) <= k - 1 THEN g[s] ELSE Of(g, s)]
      OBVIOUS
    <3>5. ASSUME NEW s \in SUBSET T, Cardinality(s) <= k PROVE h[s] = Of(h, s)
      <4>1. CASE s = {}
        <5>1. Cardinality(s) <= k - 1
          BY <3>1, <4>1, FS_EmptySet
        <5>2. QED
          BY <3>3, <3>4, <4>1, <5>1
      <4>2. CASE s # {}
        <5>1. First(s) \in s
          BY <4>2 DEF First
        <5>2. /\ s \ {First(s)} \in SUBSET T
              /\ Cardinality(s) \in Nat /\ Cardinality(s \ {First(s)}) = Cardinality(s) - 1
          BY <5>1, OneLess
        <5>3. h[s \ {First(s)}] = g[s \ {First(s)}]
          BY <3>1, <3>4, <3>5, <5>2
        <5>4. h[s] = Of(g, s)
          BY <3>3, <3>4
        <5>5. QED
          BY <4>2, <5>3, <5>4
      <4>3. QED
        BY <4>1, <4>2
    <3>6. QED
      BY <2>1, <3>1, <3>5
  <2>4. QED
    BY <2>2, <2>3
<1>2. Cardinality(T) \in Nat
  BY FS_CardinalityType
<1>3. PICK g : UpTo(Cardinality(T), g)
  BY <1>1, <1>2
<1>4. \A s \in SUBSET T : g[s] = Of(g, s)
  BY <1>3, FS_Subset
<1>5. PICK sum : sum = [s \in SUBSET T |-> g[s]]
  OBVIOUS
<1>6. \A s \in SUBSET T : sum[s] = Of(sum, s)
  <2>1. ASSUME NEW s \in SUBSET T, s # {} PROVE s \ {First(s)} \in SUBSET T
    OBVIOUS
  <2>2. QED
    BY <1>4, <1>5, <2>1
<1>7. QED
  BY <1>5, <1>6 DEF Sums

LEMMA SumUnfolds ==
  ASSUME NEW T, IsFiniteSet(T), NEW f
  PROVE  \E sum : Sums(f, T, sum) /\ SumFunctionOnSet(f, T) = sum[T]
<1> DEFINE c == CHOOSE iter : iter = [s \in SUBSET T |->
                  IF s = {} THEN 0
                  ELSE f[CHOOSE x \in s : TRUE] + iter[s \ {CHOOSE x \in s : TRUE}]]
<1>1. Sums(f, T, c)
  <2>1. PICK sum : Sums(f, T, sum)
    BY SumsExist
  <2>2. QED
    BY <2>1 DEF Sums, First
<1>2. SumFunctionOnSet(f, T) = c[T]
  BY DEF SumFunctionOnSet, FoldFunctionOnSet, MapThenFoldSet
<1>3. QED
  BY <1>1, <1>2


\* The sums over the subsets of S are sums over subsets of T as well.
LEMMA SumsAgree ==
  ASSUME NEW T, IsFiniteSet(T), NEW S \in SUBSET T, NEW f, NEW sum, NEW total,
         Sums(f, S, sum), Sums(f, T, total)
  PROVE  sum[S] = total[S]
<1> DEFINE Bad == {s \in SUBSET S : sum[s] # total[s]}
<1>1. SUFFICES ASSUME Bad # {} PROVE FALSE
  OBVIOUS
<1>2. PICK s \in Bad : \A r \in Bad : Cardinality(s) <= Cardinality(r)
  <2>1. IsFiniteSet(S) /\ Bad \in SUBSET (SUBSET S)
    BY FS_Subset
  <2> HIDE DEF Bad
  <2>2. QED
    BY <1>1, <2>1, Smallest
<1>3. /\ sum[s] = IF s = {} THEN 0 ELSE f[First(s)] + sum[s \ {First(s)}]
      /\ total[s] = IF s = {} THEN 0 ELSE f[First(s)] + total[s \ {First(s)}]
  BY DEF Sums
<1>4. s # {}
  BY <1>3
<1>5. First(s) \in s
  BY <1>4 DEF First
<1>6. s \ {First(s)} \in SUBSET S /\ s \ {First(s)} \notin Bad
  <2>1. /\ s \ {First(s)} \in SUBSET T /\ Cardinality(s) \in Nat
        /\ Cardinality(s \ {First(s)}) = Cardinality(s) - 1
    BY <1>5, OneLess
  <2>2. ~ (Cardinality(s) <= Cardinality(s \ {First(s)}))
    BY <2>1
  <2>3. s \ {First(s)} \in SUBSET S
    OBVIOUS
  <2> HIDE DEF Bad
  <2>4. QED
    BY <1>2, <2>2, <2>3
<1>7. QED
  BY <1>3, <1>4, <1>6

\* The recursion a sum obeys.
LEMMA SumRecurs ==
  ASSUME NEW S, IsFiniteSet(S), NEW f
  PROVE  /\ SumFunctionOnSet(f, {}) = 0
         /\ S # {} => SumFunctionOnSet(f, S)
                        = f[First(S)] + SumFunctionOnSet(f, S \ {First(S)})
<1>1. SumFunctionOnSet(f, {}) = 0
  <2>1. IsFiniteSet({})
    BY FS_EmptySet
  <2>2. PICK sum : Sums(f, {}, sum) /\ SumFunctionOnSet(f, {}) = sum[{}]
    BY <2>1, SumUnfolds
  <2>3. QED
    BY <2>2 DEF Sums
<1>2. ASSUME S # {}
      PROVE  SumFunctionOnSet(f, S) = f[First(S)] + SumFunctionOnSet(f, S \ {First(S)})
  <2>1. PICK rest : rest = S \ {First(S)}
    OBVIOUS
  <2>2. rest \in SUBSET S /\ IsFiniteSet(rest)
    BY <2>1, FS_Subset
  <2>3. PICK total : Sums(f, S, total) /\ SumFunctionOnSet(f, S) = total[S]
    BY SumUnfolds
  <2>4. PICK sum : Sums(f, rest, sum) /\ SumFunctionOnSet(f, rest) = sum[rest]
    BY <2>2, SumUnfolds
  <2>5. sum[rest] = total[rest]
    BY <2>2, <2>3, <2>4, SumsAgree
  <2>6. total[S] = f[First(S)] + total[rest]
    BY <1>2, <2>1, <2>3 DEF Sums
  <2>7. QED
    BY <2>1, <2>3, <2>4, <2>5, <2>6
<1>3. QED
  BY <1>1, <1>2

\* A sum of numbers is a number.
LEMMA SumNat ==
  ASSUME NEW T, IsFiniteSet(T), NEW f, NEW S \in SUBSET T, \A x \in T : f[x] \in Nat
  PROVE  SumFunctionOnSet(f, S) \in Nat
<1> DEFINE Bad == {s \in SUBSET T : SumFunctionOnSet(f, s) \notin Nat}
<1>1. SUFFICES ASSUME Bad # {} PROVE FALSE
  OBVIOUS
<1>2. PICK s \in Bad : \A r \in Bad : Cardinality(s) <= Cardinality(r)
  <2>1. Bad \in SUBSET (SUBSET T)
    OBVIOUS
  <2> HIDE DEF Bad
  <2>2. QED
    BY <1>1, <2>1, Smallest
<1>3. IsFiniteSet(s)
  BY FS_Subset
<1>4. s # {}
  BY <1>3, SumRecurs
<1>5. First(s) \in s
  BY <1>4 DEF First
<1>6. s \ {First(s)} \in SUBSET T /\ s \ {First(s)} \notin Bad
  <2>1. /\ s \ {First(s)} \in SUBSET T /\ Cardinality(s) \in Nat
        /\ Cardinality(s \ {First(s)}) = Cardinality(s) - 1
    BY <1>5, OneLess
  <2>2. ~ (Cardinality(s) <= Cardinality(s \ {First(s)}))
    BY <2>1
  <2> HIDE DEF Bad
  <2>3. QED
    BY <1>2, <2>1, <2>2
<1>7. SumFunctionOnSet(f, s) = f[First(s)] + SumFunctionOnSet(f, s \ {First(s)})
  BY <1>3, <1>4, SumRecurs
<1>8. f[First(s)] \in Nat
  BY <1>5
<1>9. QED
  BY <1>6, <1>7, <1>8

\* A sum may take any member out.
LEMMA SumTakesOut ==
  ASSUME NEW T, IsFiniteSet(T), NEW f, \A x \in T : f[x] \in Nat,
         NEW S \in SUBSET T, NEW x \in S
  PROVE  SumFunctionOnSet(f, S) = f[x] + SumFunctionOnSet(f, S \ {x})
<1> DEFINE Sum(s) == SumFunctionOnSet(f, s)
           Bad == {s \in SUBSET T : \E y \in s : Sum(s) # f[y] + Sum(s \ {y})}
<1>1. SUFFICES ASSUME Bad # {} PROVE FALSE
  OBVIOUS
<1>2. PICK s \in Bad : \A r \in Bad : Cardinality(s) <= Cardinality(r)
  <2>1. Bad \in SUBSET (SUBSET T)
    OBVIOUS
  <2> HIDE DEF Bad
  <2>2. QED
    BY <1>1, <2>1, Smallest
<1>3. PICK y \in s : Sum(s) # f[y] + Sum(s \ {y})
  OBVIOUS
<1>4. IsFiniteSet(s) /\ s \in SUBSET T
  BY FS_Subset
<1>5. PICK z : z = First(s)
  OBVIOUS
<1>6. z \in s /\ Sum(s) = f[z] + Sum(s \ {z})
  BY <1>4, <1>5, SumRecurs DEF First
<1>7. ASSUME NEW w \in s, NEW v \in s \ {w}
      PROVE  Sum(s \ {w}) = f[v] + Sum((s \ {w}) \ {v})
  <2>1. /\ s \ {w} \in SUBSET T /\ Cardinality(s) \in Nat
        /\ Cardinality(s \ {w}) = Cardinality(s) - 1
    BY <1>4, OneLess
  <2>2. ~ (Cardinality(s) <= Cardinality(s \ {w}))
    BY <2>1
  <2>3. s \ {w} \notin Bad
    <3> HIDE DEF Bad
    <3>1. QED
      BY <1>2, <2>1, <2>2
  <2>4. QED
    BY <2>1, <2>3
<1>8. y # z
  BY <1>3, <1>6
<1>9. /\ Sum(s \ {z}) = f[y] + Sum((s \ {z}) \ {y})
      /\ Sum(s \ {y}) = f[z] + Sum((s \ {y}) \ {z})
  BY <1>6, <1>7, <1>8
<1>10. (s \ {z}) \ {y} = (s \ {y}) \ {z}
  OBVIOUS
<1>11. f[y] \in Nat /\ f[z] \in Nat /\ Sum((s \ {y}) \ {z}) \in Nat
  <2>1. (s \ {y}) \ {z} \in SUBSET T
    BY <1>4
  <2>2. QED
    BY <1>4, <1>6, <2>1, SumNat
<1> HIDE DEF Sum
<1>12. QED
  BY <1>3, <1>6, <1>9, <1>10, <1>11


\* Equal terms, equal sums.
LEMMA SumOfSame ==
  ASSUME NEW T, IsFiniteSet(T), NEW f, NEW g, NEW S \in SUBSET T,
         \A x \in S : f[x] = g[x]
  PROVE  SumFunctionOnSet(f, S) = SumFunctionOnSet(g, S)
<1> DEFINE Bad == {s \in SUBSET S : SumFunctionOnSet(f, s) # SumFunctionOnSet(g, s)}
<1>1. SUFFICES ASSUME Bad # {} PROVE FALSE
  OBVIOUS
<1>2. IsFiniteSet(S)
  BY FS_Subset
<1>3. PICK s \in Bad : \A r \in Bad : Cardinality(s) <= Cardinality(r)
  <2>1. Bad \in SUBSET (SUBSET S)
    OBVIOUS
  <2> HIDE DEF Bad
  <2>2. QED
    BY <1>1, <1>2, <2>1, Smallest
<1>4. IsFiniteSet(s)
  BY <1>2, FS_Subset
<1>5. s # {}
  BY <1>4, SumRecurs
<1>6. First(s) \in s
  BY <1>5 DEF First
<1>7. s \ {First(s)} \in SUBSET S /\ s \ {First(s)} \notin Bad
  <2>1. /\ s \ {First(s)} \in SUBSET S /\ Cardinality(s) \in Nat
        /\ Cardinality(s \ {First(s)}) = Cardinality(s) - 1
    BY <1>2, <1>6, OneLess
  <2>2. ~ (Cardinality(s) <= Cardinality(s \ {First(s)}))
    BY <2>1
  <2> HIDE DEF Bad
  <2>3. QED
    BY <1>3, <2>1, <2>2
<1>8. /\ SumFunctionOnSet(f, s) = f[First(s)] + SumFunctionOnSet(f, s \ {First(s)})
      /\ SumFunctionOnSet(g, s) = g[First(s)] + SumFunctionOnSet(g, s \ {First(s)})
  BY <1>4, <1>5, SumRecurs
<1>9. f[First(s)] = g[First(s)]
  BY <1>6
<1>10. QED
  BY <1>7, <1>8, <1>9

\* A sum over more is no less.
LEMMA SumGrows ==
  ASSUME NEW T, IsFiniteSet(T), NEW f, \A x \in T : f[x] \in Nat,
         NEW S \in SUBSET T, NEW R \in SUBSET S
  PROVE  SumFunctionOnSet(f, R) <= SumFunctionOnSet(f, S)
<1> DEFINE Sum(s) == SumFunctionOnSet(f, s)
           Bad == {s \in SUBSET T : R \subseteq s /\ ~ (Sum(R) <= Sum(s))}
<1>1. SUFFICES ASSUME Bad # {} PROVE FALSE
  OBVIOUS
<1>2. PICK s \in Bad : \A r \in Bad : Cardinality(s) <= Cardinality(r)
  <2>1. Bad \in SUBSET (SUBSET T)
    OBVIOUS
  <2> HIDE DEF Bad
  <2>2. QED
    BY <1>1, <2>1, Smallest
<1>3. Sum(R) \in Nat /\ Sum(s) \in Nat
  BY SumNat
<1>4. PICK x \in s : x \notin R
  BY <1>3
<1>5. s \ {x} \in SUBSET T /\ R \subseteq s \ {x} /\ s \ {x} \notin Bad
  <2>1. /\ s \ {x} \in SUBSET T /\ Cardinality(s) \in Nat
        /\ Cardinality(s \ {x}) = Cardinality(s) - 1
    BY OneLess
  <2>2. ~ (Cardinality(s) <= Cardinality(s \ {x}))
    BY <2>1
  <2>3. R \subseteq s \ {x}
    BY <1>4
  <2> HIDE DEF Bad
  <2>4. QED
    BY <1>2, <2>1, <2>2, <2>3
<1>6. Sum(s) = f[x] + Sum(s \ {x})
  BY SumTakesOut
<1>7. f[x] \in Nat /\ Sum(s \ {x}) \in Nat
  BY <1>5, SumNat
<1>8. Sum(R) <= Sum(s \ {x})
  BY <1>5
<1> HIDE DEF Sum
<1>9. Sum(R) <= Sum(s)
  BY <1>3, <1>6, <1>7, <1>8
<1>10. QED
  BY <1>9

----------------------------------------------------------------------------
(* The money of one booking.                                               *)

LEMMA RoundedNat ==
  ASSUME NEW amount \in Nat, NEW part \in Nat, NEW whole \in Nat \ {0}
  PROVE  Rounded(amount, part, whole) \in Nat
<1>1. amount * part \in Nat
  OBVIOUS
<1>2. 2 * amount * part + whole \in Nat /\ 2 * whole \in Nat \ {0}
  <2>1. 2 * amount * part = 2 * (amount * part)
    OBVIOUS
  <2>2. QED
    BY <1>1, <2>1
<1>3. \A n \in Nat, k \in Nat \ {0} : n \div k \in Nat
  OBVIOUS
<1>4. QED
  BY <1>2, <1>3 DEF Rounded

\* The two platform fees, of 12 and 8 percent, are never more than the price.
LEMMA FeesWithinGross ==
  ASSUME NEW gross \in Nat
  PROVE  /\ PlatformFeeFromFamily(gross) \in Nat
         /\ PlatformFeeFromCaregiver(gross) \in Nat
         /\ PlatformFeeFromCaregiver(gross) <= gross
<1>1. /\ PlatformFeeFromFamily(gross) = (24 * gross + 100) \div 200
      /\ PlatformFeeFromCaregiver(gross) = (16 * gross + 100) \div 200
  BY DEF PlatformFeeFromFamily, PlatformFeeFromCaregiver, Rounded, FamilyFeePercent,
         CaregiverFeePercent
<1>2. QED
  BY <1>1

\* An accepted split adds up, with nobody's part negative.
Sound(a) ==
  /\ a.familyPays + a.subsidy = a.caregiverPayout + a.familyFee + a.caregiverFee
  /\ a.familyPays >= 0 /\ a.caregiverPayout >= 0

LEMMA SplitSound ==
  ASSUME NEW gross \in Nat, NEW subsidy, SplitAccepts(gross, subsidy)
  PROVE  EscrowSplit(gross, subsidy) \in Amounts /\ Sound(EscrowSplit(gross, subsidy))
<1>1. subsidy \in Nat /\ subsidy <= gross + PlatformFeeFromFamily(gross)
  BY DEF SplitAccepts, IsMoney, FamilyGross
<1>2. QED
  BY <1>1, FeesWithinGross DEF EscrowSplit, Amounts, Sound, FamilyGross

\* The price of a booking, whatever the rate and the duration.
LEMMA GrossNat ==
  ASSUME rate \in Rates, NEW b \in Bookings
  PROVE  GrossForBooking(b) \in Nat
<1>1. rate \in [per : {"hour", "day", "none"}, amount : Nat] /\ Minutes[b] \in Nat
  BY MoneyAssumption, CalendarAssumption
<1>2. DayMinutes \in Nat \ {0} /\ Lesser(Minutes[b], DayMinutes) \in Nat
  BY <1>1 DEF DayMinutes, Lesser
<1>3. Rounded(rate.amount, Minutes[b], 60) \in Nat
  BY <1>1, RoundedNat
<1>4. Rounded(rate.amount, Lesser(Minutes[b], DayMinutes), DayMinutes) \in Nat
  BY <1>1, <1>2, RoundedNat
<1>5. QED
  BY <1>1, <1>3, <1>4 DEF GrossForBooking, BookingAmount

\* A cancellation fee is a number of centimes within the price.
LEMMA FeeWithin ==
  ASSUME NEW gross \in Nat, NEW minutesBefore
  PROVE  CancellationFee(Policy, gross, minutesBefore) \in Nat
<1>1. Policy.feePercent \in Int
  BY MoneyAssumption
<1>2. Lesser(100, Greater(0, Policy.feePercent)) \in Nat
  BY <1>1 DEF Lesser, Greater
<1>3. PICK percent : percent = Lesser(100, Greater(0, Policy.feePercent))
  OBVIOUS
<1>4. percent \in Nat /\ 100 \in Nat \ {0}
  BY <1>2, <1>3
<1>5. Rounded(gross, percent, 100) \in Nat
  BY <1>4, RoundedNat
<1>6. QED
  BY <1>3, <1>5 DEF CancellationFee, Lesser

----------------------------------------------------------------------------
(* The inductive invariant.                                                *)

\* What is typed without knowing what the sums are.
Typed ==
  /\ enrolled \subseteq Enrolments
  /\ used \in [Employers -> Nat]
  /\ rate \in Rates
  /\ booking \in [Bookings -> [status : {"none", "requested", "confirmed", "cancelled"},
                               employer : Employers \cup {NoEmployer}]]
  /\ escrow \in [Bookings -> Escrows \cup {NoEscrow}]
  /\ accept \in [Bookings -> Accepting \cup {NotAccepting}]
  /\ month \in 1..(LastMonth + 1)
  /\ DOMAIN invoice = Employers \X (1..LastMonth)
  /\ sweep = Asleep \/ (sweep.of \in 1..LastMonth /\ sweep.left \subseteq Employers)
  /\ sweep.at = "insert" => sweep.account \in Employers

SplitsSound ==
  /\ \A b \in Bookings : escrow[b] # NoEscrow =>
       Sound(escrow[b].amounts) /\ escrow[b].fee <= escrow[b].amounts.familyPays
  /\ \A b \in Bookings : accept[b].at = "insert" => Sound(accept[b].amounts)

MoneyInv == Typed /\ SplitsSound

LEMMA MoneyInit ==
  ASSUME Init
  PROVE  MoneyInv
<1>1. Typed
  BY CalendarAssumption, NoEmployerAssumption
     DEF Init, Typed, NotAccepting, Asleep
<1>2. SplitsSound
  BY DEF Init, SplitsSound, NotAccepting, NoEscrow
<1>3. QED
  BY <1>1, <1>2 DEF MoneyInv

\* An escrow that is there has amounts, and an authorization about to insert too.
LEMMA Shapes ==
  ASSUME Typed, NEW b \in Bookings
  PROVE  /\ escrow[b] # NoEscrow => escrow[b] \in Escrows
         /\ accept[b].at = "insert" => /\ accept[b] \in [at : {"insert"}, amounts : Amounts]
                                       /\ accept[b].amounts \in Amounts
         /\ NoEscrow \notin Escrows
BY DEF Typed, Accepting, NotAccepting, Escrows, NoEscrow

----------------------------------------------------------------------------
(* The steps.                                                              *)

LEMMA AuthorizeReadStep ==
  ASSUME MoneyInv, NEW b \in Bookings, AuthorizeEscrowRead(b)
  PROVE  MoneyInv'
<1>1. PICK subsidy :
        /\ SplitAccepts(GrossForBooking(b), subsidy)
        /\ accept' = [accept EXCEPT
             ![b] = [at |-> "insert", amounts |-> EscrowSplit(GrossForBooking(b), subsidy)]]
  BY DEF AuthorizeEscrowRead
<1>2. GrossForBooking(b) \in Nat
  BY GrossNat DEF MoneyInv, Typed
<1>3. PICK a : a = EscrowSplit(GrossForBooking(b), subsidy)
  OBVIOUS
<1>4. a \in Amounts /\ Sound(a)
  BY <1>1, <1>2, <1>3, SplitSound
<1>5. accept' = [accept EXCEPT ![b] = [at |-> "insert", amounts |-> a]]
  BY <1>1, <1>3
<1>6. [at |-> "insert", amounts |-> a] \in Accepting
  BY <1>4 DEF Accepting
<1>7. accept' \in [Bookings -> Accepting \cup {NotAccepting}]
  BY <1>5, <1>6 DEF MoneyInv, Typed
<1>8. UNCHANGED <<enrolled, used, rate, booking, escrow, month, invoice, sweep>>
  BY DEF AuthorizeEscrowRead
<1>9. Typed'
  BY <1>7, <1>8 DEF MoneyInv, Typed
<1>10. \A c \in Bookings : accept'[c].at = "insert" => Sound(accept'[c].amounts)
  BY <1>4, <1>5 DEF MoneyInv, Typed, SplitsSound
<1>11. SplitsSound'
  BY <1>8, <1>10 DEF MoneyInv, SplitsSound
<1>12. QED
  BY <1>9, <1>11 DEF MoneyInv

LEMMA AuthorizeWriteStep ==
  ASSUME MoneyInv, NEW b \in Bookings, AuthorizeEscrowWrite(b)
  PROVE  MoneyInv'
<1>1. PICK a : a = accept[b].amounts
  OBVIOUS
<1>2. a \in Amounts /\ Sound(a)
  BY <1>1, Shapes DEF AuthorizeEscrowWrite, MoneyInv, SplitsSound
<1>3. PICK x : x = [amounts |-> a, status |-> "authorized", fee |-> 0, authorizedIn |-> month]
  OBVIOUS
<1>4. x \in Escrows /\ x.amounts = a /\ x.fee = 0
  BY <1>2, <1>3 DEF Escrows, MoneyInv, Typed
<1>5. /\ escrow' = [escrow EXCEPT ![b] = x]
      /\ accept' = [accept EXCEPT ![b] = NotAccepting]
      /\ UNCHANGED <<enrolled, rate, booking, month, invoice, sweep>>
  BY <1>1, <1>3 DEF AuthorizeEscrowWrite
<1>6. used' \in [Employers -> Nat]
  <2>1. a.subsidy \in Nat
    BY <1>2 DEF Amounts
  <2>2. CASE booking[b].employer = NoEmployer
    BY <2>2 DEF AuthorizeEscrowWrite, MoneyInv, Typed
  <2>3. CASE booking[b].employer # NoEmployer
    <3>1. used' = [used EXCEPT ![booking[b].employer] = @ + a.subsidy]
      BY <1>1, <2>3 DEF AuthorizeEscrowWrite
    <3>2. booking[b].employer \in Employers
      BY <2>3 DEF MoneyInv, Typed
    <3>3. used[booking[b].employer] + a.subsidy \in Nat
      BY <2>1, <3>2 DEF MoneyInv, Typed
    <3>4. QED
      BY <3>1, <3>3 DEF MoneyInv, Typed
  <2>4. QED
    BY <2>2, <2>3
<1>7. escrow' \in [Bookings -> Escrows \cup {NoEscrow}]
  BY <1>4, <1>5 DEF MoneyInv, Typed
<1>8. accept' \in [Bookings -> Accepting \cup {NotAccepting}]
  BY <1>5 DEF MoneyInv, Typed
<1>9. Typed'
  BY <1>5, <1>6, <1>7, <1>8 DEF MoneyInv, Typed
<1>10. ASSUME NEW c \in Bookings, escrow'[c] # NoEscrow
       PROVE  Sound(escrow'[c].amounts) /\ escrow'[c].fee <= escrow'[c].amounts.familyPays
  <2>1. CASE c = b
    <3>1. escrow'[c] = x
      BY <1>5, <2>1 DEF MoneyInv, Typed
    <3>2. a.familyPays >= 0 /\ 0 <= a.familyPays
      BY <1>2 DEF Sound, Amounts
    <3>3. QED
      BY <1>2, <1>4, <3>1, <3>2
  <2>2. CASE c # b
    BY <1>5, <1>10, <2>2 DEF MoneyInv, Typed, SplitsSound
  <2>3. QED
    BY <2>1, <2>2
<1>11. \A c \in Bookings : accept'[c].at = "insert" => Sound(accept'[c].amounts)
  BY <1>5 DEF MoneyInv, Typed, SplitsSound, NotAccepting
<1>12. SplitsSound'
  BY <1>10, <1>11 DEF SplitsSound
<1>13. QED
  BY <1>9, <1>12 DEF MoneyInv

LEMMA CancelStep ==
  ASSUME MoneyInv, NEW b \in Bookings, NEW minutesBefore, CancelBooking(b, minutesBefore)
  PROVE  MoneyInv'
<1>1. /\ booking' = [booking EXCEPT ![b].status = "cancelled"]
      /\ UNCHANGED <<enrolled, used, rate, accept, month, invoice, sweep>>
  BY DEF CancelBooking
<1>2. booking' \in [Bookings -> [status : {"none", "requested", "confirmed", "cancelled"},
                                 employer : Employers \cup {NoEmployer}]]
  BY <1>1 DEF MoneyInv, Typed
<1>3. CASE escrow[b] = NoEscrow
  <2>1. escrow' = escrow
    BY <1>3 DEF CancelBooking
  <2>2. QED
    BY <1>1, <1>2, <2>1 DEF MoneyInv, Typed, SplitsSound
<1>4. CASE escrow[b] # NoEscrow
  <2>1. PICK fee : fee = Lesser(CancellationFee(Policy, GrossForBooking(b), minutesBefore),
                                escrow[b].amounts.familyPays)
    OBVIOUS
  <2>2. escrow[b] \in Escrows /\ escrow[b].amounts.familyPays \in Nat
    BY <1>4, Shapes DEF MoneyInv, Escrows, Amounts
  <2>3. fee \in Nat /\ fee <= escrow[b].amounts.familyPays
    <3>1. CancellationFee(Policy, GrossForBooking(b), minutesBefore) \in Nat
      BY GrossNat, FeeWithin DEF MoneyInv, Typed
    <3>2. QED
      BY <2>1, <2>2, <3>1 DEF Lesser
  <2>4. escrow' = [escrow EXCEPT ![b].status = "refunded", ![b].fee = fee]
    BY <1>4, <2>1 DEF CancelBooking
  <2>5. /\ escrow'[b] \in Escrows /\ escrow'[b].amounts = escrow[b].amounts
        /\ escrow'[b].fee = fee
        /\ \A c \in Bookings \ {b} : escrow'[c] = escrow[c]
        /\ escrow' \in [Bookings -> Escrows \cup {NoEscrow}]
    BY <2>2, <2>3, <2>4 DEF MoneyInv, Typed, Escrows
  <2>6. Typed'
    BY <1>1, <1>2, <2>5 DEF MoneyInv, Typed
  <2>7. SplitsSound'
    BY <1>1, <1>4, <2>3, <2>5 DEF MoneyInv, SplitsSound
  <2>8. QED
    BY <2>6, <2>7 DEF MoneyInv
<1>5. QED
  BY <1>3, <1>4

LEMMA BookingSteps ==
  ASSUME MoneyInv, NEW b \in Bookings,
         RequestBooking(b) \/ AcceptBooking(b) \/ AuthorizeFails(b)
  PROVE  MoneyInv'
<1>1. UNCHANGED <<enrolled, used, rate, escrow, month, invoice, sweep>>
  BY DEF RequestBooking, AcceptBooking, AuthorizeFails
<1>2. booking' \in [Bookings -> [status : {"none", "requested", "confirmed", "cancelled"},
                                 employer : Employers \cup {NoEmployer}]]
  <2>1. CASE RequestBooking(b)
    <3>1. PICK e \in Employers \cup {NoEmployer} :
            booking' = [booking EXCEPT ![b] = [status |-> "requested", employer |-> e]]
      <4>1. \A n \in Linked : n.employer \in Employers
        BY DEF MoneyInv, Typed, Enrolments, Linked
      <4>2. QED
        BY <2>1, <4>1 DEF RequestBooking
    <3>2. QED
      BY <3>1 DEF MoneyInv, Typed
  <2>2. CASE AcceptBooking(b)
    BY <2>2 DEF AcceptBooking, MoneyInv, Typed
  <2>3. CASE AuthorizeFails(b)
    BY <2>3 DEF AuthorizeFails, MoneyInv, Typed
  <2>4. QED
    BY <2>1, <2>2, <2>3
<1>3. /\ accept' \in [Bookings -> Accepting \cup {NotAccepting}]
      /\ \A c \in Bookings : accept'[c] = accept[c] \/ accept'[c].at # "insert"
  BY DEF RequestBooking, AcceptBooking, AuthorizeFails, MoneyInv, Typed, Accepting, NotAccepting
<1>4. QED
  BY <1>1, <1>2, <1>3 DEF MoneyInv, Typed, SplitsSound

LEMMA OtherSteps ==
  ASSUME MoneyInv,
         \/ \E n \in Enrolments : Enroll(n) \/ LinkByHand(n)
         \/ ChangeRate \/ MonthPasses \/ SweepStarts
         \/ \E e \in Employers : SweepRead(e)
         \/ SweepInsert \/ SweepEnds
  PROVE  MoneyInv'
<1> USE CalendarAssumption DEF MoneyInv, Typed, SplitsSound, Asleep
<1>1. CASE \E n \in Enrolments : Enroll(n) \/ LinkByHand(n)
  <2>1. PICK n \in Enrolments : Enroll(n) \/ LinkByHand(n)
    BY <1>1
  <2>2. [n EXCEPT !.linked = TRUE] \in Enrolments
    BY <2>1 DEF Enrolments
  <2>3. enrolled' \subseteq Enrolments
    BY <2>1, <2>2 DEF Enroll, LinkByHand
  <2>4. QED
    BY <2>1, <2>3 DEF Enroll, LinkByHand
<1>2. CASE ChangeRate
  BY <1>2 DEF ChangeRate
<1>3. CASE MonthPasses
  BY <1>3 DEF MonthPasses
<1>4. CASE SweepStarts
  BY <1>4 DEF SweepStarts
<1>5. CASE \E e \in Employers : SweepRead(e)
  <2>1. PICK e \in Employers : SweepRead(e)
    BY <1>5
  <2>2. /\ UNCHANGED <<enrolled, used, rate, booking, escrow, accept, month, invoice>>
        /\ sweep.of \in 1..LastMonth /\ sweep.left \subseteq Employers
    BY <2>1 DEF SweepRead
  <2>3. /\ sweep'.of = sweep.of /\ sweep'.left = sweep.left \ {e}
        /\ sweep'.at = "insert" => sweep'.account = e
    BY <2>1 DEF SweepRead
  <2>4. QED
    BY <2>2, <2>3
<1>6. CASE SweepInsert
  BY <1>6 DEF SweepInsert
<1>7. CASE SweepEnds
  BY <1>7 DEF SweepEnds
<1>8. QED
  BY <1>1, <1>2, <1>3, <1>4, <1>5, <1>6, <1>7

LEMMA MoneyStep ==
  ASSUME MoneyInv, [Next]_vars
  PROVE  MoneyInv'
<1>1. CASE Next
  BY <1>1, AuthorizeReadStep, AuthorizeWriteStep, CancelStep, BookingSteps, OtherSteps DEF Next
<1>2. CASE UNCHANGED vars
  BY <1>2 DEF vars, MoneyInv, Typed, SplitsSound
<1>3. QED
  BY <1>1, <1>2

----------------------------------------------------------------------------
\* The invariant holds in every behaviour.
THEOREM MoneyInvariant == Spec => []MoneyInv
<1>1. QED
  BY MoneyInit, MoneyStep, PTL DEF Spec

\* computeEscrowAmounts under authorizeEscrowForBooking: for every price, benefit and
\* rounding, the parts of every escrow add up and none is negative, and a
\* cancellation fee never passes what the family paid.
THEOREM EverySplitAddsUp == Spec => []SplitAddsUp
<1>1. MoneyInv => SplitAddsUp
  BY DEF MoneyInv, SplitsSound, Sound, SplitAddsUp
<1>2. QED
  BY <1>1, MoneyInvariant, PTL

\* Nothing that happens later changes the amounts an escrow was authorized with, or
\* an invoice once issued.
THEOREM SettledForGood == Spec => SettledStaysSettled
<1> DEFINE Kept ==
      /\ \A b \in Bookings : escrow[b] # NoEscrow =>
           escrow'[b] # NoEscrow /\ escrow'[b].amounts = escrow[b].amounts
      /\ \A p \in DOMAIN invoice : invoice[p] # NoInvoice => invoice'[p] = invoice[p]
<1>1. ASSUME MoneyInv, [Next]_vars PROVE [Kept]_vars
  <2>1. CASE UNCHANGED <<escrow, invoice>>
    BY <2>1
  <2>2. CASE \E b \in Bookings : AuthorizeEscrowWrite(b)
    BY <1>1, <2>2 DEF AuthorizeEscrowWrite, MoneyInv, Typed
  <2>3. CASE \E b \in Bookings, m \in {0, 60 * Policy.freeHours} : CancelBooking(b, m)
    <3>1. PICK b \in Bookings, m \in {0, 60 * Policy.freeHours} : CancelBooking(b, m)
      BY <2>3
    <3>2. CASE escrow[b] = NoEscrow
      BY <3>1, <3>2 DEF CancelBooking
    <3>3. CASE escrow[b] # NoEscrow
      <4>1. escrow[b] \in Escrows /\ NoEscrow \notin Escrows
        BY <1>1, <3>3, Shapes DEF MoneyInv
      <4>2. /\ escrow'[b] # NoEscrow /\ escrow'[b].amounts = escrow[b].amounts
            /\ \A c \in Bookings \ {b} : escrow'[c] = escrow[c]
            /\ invoice' = invoice
        BY <1>1, <3>1, <3>3, <4>1 DEF CancelBooking, MoneyInv, Typed, Escrows, NoEscrow
      <4>3. QED
        BY <4>2
    <3>4. QED
      BY <3>2, <3>3
  <2>4. CASE SweepInsert
    BY <1>1, <2>4 DEF SweepInsert, MoneyInv, Typed
  <2>5. QED
    BY <1>1, <2>1, <2>2, <2>3, <2>4
       DEF Next, vars, Enroll, LinkByHand, ChangeRate, RequestBooking, AcceptBooking,
           AuthorizeEscrowRead, AuthorizeFails, MonthPasses, SweepStarts, SweepRead, SweepEnds
<1>2. QED
  BY <1>1, MoneyInvariant, PTL DEF Spec, SettledStaysSettled

----------------------------------------------------------------------------
(* What the subsidies add up to.                                           *)

\* The subsidy of every booking.
Terms == [b \in Bookings |-> Subsidy(b)]

\* The bookings an employer pays a part of, whatever the month.
Paid(e) == {b \in Bookings : booking[b].employer = e /\ escrow[b] # NoEscrow}

\* Those of a month whose authorization was in time for its invoice.
InTime(e, m) == {b \in PaidFor(e, m) : escrow[b].authorizedIn <= m}

\* A booking nobody asked for has no escrow and none is on its way.
NotYetAsked == \A b \in Bookings :
  booking[b].status = "none" => escrow[b] = NoEscrow /\ accept[b] = NotAccepting

BudgetKept == \A e \in Employers : used[e] = SumFunctionOnSet(Terms, Paid(e))

\* An enrolment of the family with the employer grants the amount.
Grants(e, f, amount) ==
  amount = 0 \/ \E n \in enrolled : n.employer = e /\ n.family = f /\ amount <= n.benefit

WithinBenefit == \A e \in Employers, f \in Families \ overlapped, m \in 1..LastMonth :
  Grants(e, f, SumFunctionOnSet(Terms, MonthOfFamily(e, f, m)))

\* Of a family whose authorizations never overlapped one at most is about to insert.
OneAtATime == \A b \in Bookings, c \in Bookings :
  /\ accept[b].at = "insert" /\ accept[c].at = "insert" /\ FamilyOf[b] = FamilyOf[c]
  /\ FamilyOf[b] \notin overlapped
  => b = c

\* A subsidy for b that its month has not used of the benefit with the employer e.
Fits(b, e, subsidy) ==
  \/ subsidy = 0
  \/ Grants(e, FamilyOf[b],
            SumFunctionOnSet(Terms, MonthOfFamily(e, FamilyOf[b], MonthOf[b])) + subsidy)

\* What is about to be inserted fits.
InsertFits == \A b \in Bookings :
  accept[b].at = "insert" /\ FamilyOf[b] \notin overlapped =>
    Fits(b, booking[b].employer, accept[b].amounts.subsidy)

\* A total read for the invoice of a month that is over.
Covers(total, e, m) ==
  /\ m < month
  /\ total \in SumFunctionOnSet(Terms, InTime(e, m))..SumFunctionOnSet(Terms, PaidFor(e, m))

InvoicesCover ==
  /\ \A e \in Employers, m \in 1..LastMonth : invoice[<<e, m>>] # NoInvoice =>
       Covers(invoice[<<e, m>>].total, e, m)
  /\ sweep # Asleep => sweep.of < month
  /\ sweep.at = "insert" => Covers(sweep.total, sweep.account, sweep.of)

BenefitInv ==
  /\ MoneyInv /\ TypeOK
  /\ NotYetAsked
  /\ BudgetKept
  /\ OneAtATime /\ InsertFits /\ WithinBenefit
  /\ InvoicesCover

LEMMA TermsNat ==
  ASSUME Typed
  PROVE  /\ \A b \in Bookings : Terms[b] \in Nat
         /\ \A S \in SUBSET Bookings : SumFunctionOnSet(Terms, S) \in Nat
<1>1. \A b \in Bookings : Terms[b] \in Nat
  BY Shapes DEF Terms, Subsidy, Escrows, Amounts
<1>2. QED
  BY <1>1, BookingsAssumption, SumNat

LEMMA BenefitInit ==
  ASSUME Init
  PROVE  BenefitInv
<1>1. MoneyInv
  BY MoneyInit
<1>2. TypeOK
  BY CalendarAssumption, NoEmployerAssumption DEF Init, TypeOK, NotAccepting, Asleep, NoInvoice
<1>3. /\ \A e : Paid(e) = {}
      /\ \A e, f, m : MonthOfFamily(e, f, m) = {}
  BY DEF Init, Paid, MonthOfFamily, PaidFor
<1>4. SumFunctionOnSet(Terms, {}) = 0
  BY FS_EmptySet, SumRecurs
<1>5. BudgetKept
  BY <1>3, <1>4 DEF Init, BudgetKept
<1>6. WithinBenefit
  BY <1>3, <1>4 DEF WithinBenefit, Grants
<1>7. NotYetAsked /\ OneAtATime /\ InsertFits
  BY DEF Init, NotYetAsked, OneAtATime, InsertFits, NotAccepting
<1>8. InvoicesCover
  BY DEF Init, InvoicesCover, Asleep
<1>9. QED
  BY <1>1, <1>2, <1>5, <1>6, <1>7, <1>8 DEF BenefitInv

----------------------------------------------------------------------------
(* The steps that authorize nothing.                                       *)

\* A booking once asked for keeps its employer, and an escrow its amounts and month.
Kept(c) ==
  /\ booking[c].status # "none" => /\ booking'[c].status # "none"
                                   /\ booking'[c].employer = booking[c].employer
  /\ escrow[c] # NoEscrow => /\ escrow'[c] # NoEscrow
                             /\ escrow'[c].amounts = escrow[c].amounts
                             /\ escrow'[c].authorizedIn = escrow[c].authorizedIn

LEMMA QuietStep ==
  ASSUME BenefitInv, [Next]_vars, ~ \E b \in Bookings : AuthorizeEscrowWrite(b),
         NEW c \in Bookings
  PROVE  Kept(c) /\ (escrow[c] = NoEscrow => escrow'[c] = NoEscrow)
<1>1. booking \in [Bookings -> [status : {"none", "requested", "confirmed", "cancelled"},
                                employer : Employers \cup {NoEmployer}]]
  BY DEF BenefitInv, MoneyInv, Typed
<1>2. escrow \in [Bookings -> Escrows \cup {NoEscrow}]
  BY DEF BenefitInv, MoneyInv, Typed
<1>3. CASE UNCHANGED <<booking, escrow>>
  BY <1>3 DEF Kept
<1>4. CASE \E b \in Bookings : RequestBooking(b)
  <2>1. PICK b \in Bookings : RequestBooking(b)
    BY <1>4
  <2>2. escrow' = escrow /\ (c # b => booking'[c] = booking[c]) /\ booking[b].status = "none"
    BY <1>1, <2>1 DEF RequestBooking
  <2>3. QED
    BY <2>2 DEF Kept
<1>5. CASE \E b \in Bookings : AcceptBooking(b)
  BY <1>1, <1>5 DEF AcceptBooking, Kept
<1>6. CASE \E b \in Bookings, t \in {0, 60 * Policy.freeHours} : CancelBooking(b, t)
  <2>1. PICK b \in Bookings, t \in {0, 60 * Policy.freeHours} : CancelBooking(b, t)
    BY <1>6
  <2>2. /\ booking'[c].employer = booking[c].employer
        /\ booking'[c].status = IF c = b THEN "cancelled" ELSE booking[c].status
    BY <1>1, <2>1 DEF CancelBooking
  <2>3. CASE escrow[b] = NoEscrow
    BY <2>1, <2>2, <2>3 DEF CancelBooking, Kept
  <2>4. CASE escrow[b] # NoEscrow
    <3>1. escrow[b] \in Escrows
      BY <1>2, <2>4
    <3>2. PICK fee : fee = Lesser(CancellationFee(Policy, GrossForBooking(b), t),
                                  escrow[b].amounts.familyPays)
      OBVIOUS
    <3>3. escrow' = [escrow EXCEPT ![b].status = "refunded", ![b].fee = fee]
      BY <2>1, <2>4, <3>2 DEF CancelBooking
    <3>4. /\ c # b => escrow'[c] = escrow[c]
          /\ escrow'[b].amounts = escrow[b].amounts
          /\ escrow'[b].authorizedIn = escrow[b].authorizedIn
          /\ escrow'[b] # NoEscrow
      BY <1>2, <3>1, <3>3 DEF Escrows, NoEscrow
    <3>5. QED
      BY <2>2, <2>4, <3>4 DEF Kept
  <2>5. QED
    BY <2>3, <2>4
<1>7. QED
  BY <1>3, <1>4, <1>5, <1>6
     DEF Next, vars, Enroll, LinkByHand, ChangeRate, AuthorizeEscrowRead, AuthorizeFails,
         MonthPasses, SweepStarts, SweepRead, SweepInsert, SweepEnds

\* Where every booking is kept, so are the sets of them and what they add up to.
LEMMA QuietSums ==
  ASSUME BenefitInv,
         \A c \in Bookings : Kept(c) /\ (escrow[c] = NoEscrow => escrow'[c] = NoEscrow)
  PROVE  /\ Terms' = Terms
         /\ \A e : Paid(e)' = Paid(e)
         /\ \A e, m : PaidFor(e, m)' = PaidFor(e, m) /\ InTime(e, m)' = InTime(e, m)
         /\ \A e, f, m : MonthOfFamily(e, f, m)' = MonthOfFamily(e, f, m)
<1>1. Terms' = Terms
  <2>1. \A c \in Bookings : Subsidy(c)' = Subsidy(c)
    BY DEF Kept, Subsidy
  <2>2. QED
    BY <2>1 DEF Terms
<1>2. \A c \in Bookings : escrow[c] # NoEscrow => booking[c].status # "none"
  BY DEF BenefitInv, NotYetAsked
<1>3. \A e, m : PaidFor(e, m)' = PaidFor(e, m)
  BY <1>2 DEF Kept, PaidFor
<1>4. QED
  BY <1>1, <1>2, <1>3 DEF Kept, Paid, PaidFor, InTime, MonthOfFamily

----------------------------------------------------------------------------
(* The step that authorizes.                                               *)

LEMMA WriteSums ==
  ASSUME BenefitInv, NEW b \in Bookings, AuthorizeEscrowWrite(b)
  PROVE  /\ accept[b].amounts.subsidy \in Nat
         /\ \A S \in SUBSET (Bookings \ {b}) :
              /\ SumFunctionOnSet(Terms', S) = SumFunctionOnSet(Terms, S)
              /\ SumFunctionOnSet(Terms', S \cup {b})
                   = accept[b].amounts.subsidy + SumFunctionOnSet(Terms, S)
<1>1. escrow[b] = NoEscrow /\ accept[b].amounts \in Amounts
  BY Shapes DEF AuthorizeEscrowWrite, BenefitInv, MoneyInv
<1>2. PICK a : a = accept[b].amounts.subsidy
  OBVIOUS
<1>3. a \in Nat
  BY <1>1, <1>2 DEF Amounts
<1>4. PICK x : x = [amounts |-> accept[b].amounts, status |-> "authorized", fee |-> 0,
                    authorizedIn |-> month]
  OBVIOUS
<1>5. escrow' = [escrow EXCEPT ![b] = x] /\ x # NoEscrow /\ x.amounts.subsidy = a
  BY <1>2, <1>4 DEF AuthorizeEscrowWrite, NoEscrow
<1>6. PICK f, g : f = Terms /\ g = Terms'
  OBVIOUS
<1>7. g[b] = a /\ \A c \in Bookings \ {b} : g[c] = f[c]
  <2>1. DOMAIN escrow = Bookings
    BY DEF BenefitInv, MoneyInv, Typed
  <2>2. \A c \in Bookings : Subsidy(c)' = IF c = b THEN a ELSE Subsidy(c)
    BY <1>5, <2>1 DEF Subsidy
  <2>3. QED
    BY <1>6, <2>2 DEF Terms
<1>8. \A c \in Bookings : f[c] \in Nat /\ g[c] \in Nat
  BY <1>3, <1>6, <1>7, TermsNat DEF BenefitInv, MoneyInv
<1>9. ASSUME NEW S \in SUBSET (Bookings \ {b})
      PROVE  /\ SumFunctionOnSet(g, S) = SumFunctionOnSet(f, S)
             /\ SumFunctionOnSet(g, S \cup {b}) = a + SumFunctionOnSet(f, S)
  <2>1. S \in SUBSET Bookings /\ \A c \in S : g[c] = f[c]
    BY <1>7
  <2>2. SumFunctionOnSet(g, S) = SumFunctionOnSet(f, S)
    BY <2>1, BookingsAssumption, SumOfSame
  <2>3. PICK R \in SUBSET Bookings : R = S \cup {b}
    BY <2>1
  <2>4. b \in R /\ R \ {b} = S
    BY <2>3
  <2>5. SumFunctionOnSet(g, R) = g[b] + SumFunctionOnSet(g, R \ {b})
    BY <1>8, <2>4, BookingsAssumption, SumTakesOut
  <2>6. QED
    BY <1>7, <2>2, <2>3, <2>4, <2>5
<1>10. QED
  BY <1>2, <1>3, <1>6, <1>9

LEMMA WriteSets ==
  ASSUME BenefitInv, NEW b \in Bookings, AuthorizeEscrowWrite(b)
  PROVE  /\ \A e : /\ Paid(e) \in SUBSET (Bookings \ {b})
                   /\ Paid(e)' = IF e = booking[b].employer THEN Paid(e) \cup {b} ELSE Paid(e)
         /\ \A e, m : /\ PaidFor(e, m) \in SUBSET (Bookings \ {b})
                      /\ PaidFor(e, m)' = IF e = booking[b].employer /\ m = MonthOf[b]
                                          THEN PaidFor(e, m) \cup {b} ELSE PaidFor(e, m)
         /\ \A e, f, m :
              /\ MonthOfFamily(e, f, m) \in SUBSET (Bookings \ {b})
              /\ MonthOfFamily(e, f, m)'
                   = IF e = booking[b].employer /\ m = MonthOf[b] /\ f = FamilyOf[b]
                     THEN MonthOfFamily(e, f, m) \cup {b} ELSE MonthOfFamily(e, f, m)
         /\ \A e : \A m \in 1..LastMonth : m < month => InTime(e, m)' = InTime(e, m)
<1>1. DOMAIN escrow = Bookings /\ escrow[b] = NoEscrow
  BY DEF AuthorizeEscrowWrite, BenefitInv, MoneyInv, Typed
<1>2. PICK x : x = [amounts |-> accept[b].amounts, status |-> "authorized", fee |-> 0,
                    authorizedIn |-> month]
  OBVIOUS
<1>3. /\ escrow' = [escrow EXCEPT ![b] = x] /\ x # NoEscrow /\ x.authorizedIn = month
      /\ booking' = booking
  BY <1>2 DEF AuthorizeEscrowWrite, NoEscrow
<1>4. \A c \in Bookings : escrow'[c] = IF c = b THEN x ELSE escrow[c]
  BY <1>1, <1>3
<1>5. \A e : /\ Paid(e) \in SUBSET (Bookings \ {b})
             /\ Paid(e)' = IF e = booking[b].employer THEN Paid(e) \cup {b} ELSE Paid(e)
  BY <1>1, <1>3, <1>4 DEF Paid
<1>6. \A e, m : /\ PaidFor(e, m) \in SUBSET (Bookings \ {b})
                /\ PaidFor(e, m)' = IF e = booking[b].employer /\ m = MonthOf[b]
                                    THEN PaidFor(e, m) \cup {b} ELSE PaidFor(e, m)
  BY <1>1, <1>3, <1>4 DEF PaidFor
<1>7. \A e, f, m :
        /\ MonthOfFamily(e, f, m) \in SUBSET (Bookings \ {b})
        /\ MonthOfFamily(e, f, m)'
             = IF e = booking[b].employer /\ m = MonthOf[b] /\ f = FamilyOf[b]
               THEN MonthOfFamily(e, f, m) \cup {b} ELSE MonthOfFamily(e, f, m)
  BY <1>6 DEF MonthOfFamily
<1>8. month \in Nat
  BY CalendarAssumption DEF BenefitInv, MoneyInv, Typed
<1>9. ASSUME NEW e, NEW m \in 1..LastMonth, m < month PROVE InTime(e, m)' = InTime(e, m)
  <2>1. ~ (month <= m)
    BY <1>8, <1>9, CalendarAssumption
  <2>2. QED
    BY <1>3, <1>4, <1>6, <2>1 DEF InTime
<1>10. QED
  BY <1>5, <1>6, <1>7, <1>9

----------------------------------------------------------------------------
(* Every step.                                                             *)

LEMMA TypeStep ==
  ASSUME BenefitInv, [Next]_vars, MoneyInv'
  PROVE  TypeOK'
<1> USE CalendarAssumption DEF BenefitInv
<1>1. ASSUME NEW e, NEW m
      PROVE  SubsidyOf(PaidFor(e, m)) \in Int /\ Cardinality(PaidFor(e, m)) \in Int
  <2>1. PaidFor(e, m) \in SUBSET Bookings
    BY DEF PaidFor
  <2>2. SumFunctionOnSet(Terms, PaidFor(e, m)) \in Nat
    BY <2>1, TermsNat DEF MoneyInv
  <2>3. Cardinality(PaidFor(e, m)) \in Nat
    BY <2>1, BookingsAssumption, FS_Subset, FS_CardinalityType
  <2>4. QED
    BY <2>2, <2>3 DEF SubsidyOf, Terms
<1>2. sweep' \in Sweeping \cup {Asleep}
  <2>1. CASE sweep' = sweep
    BY <2>1 DEF TypeOK
  <2>2. CASE SweepStarts
    BY <2>2 DEF SweepStarts, TypeOK, Sweeping
  <2>3. CASE \E e \in Employers : SweepRead(e)
    <3>1. PICK e \in Employers : SweepRead(e)
      BY <2>3
    <3>2. sweep.of \in 1..LastMonth /\ sweep.left \in SUBSET Employers
      BY <3>1 DEF SweepRead, TypeOK, Sweeping, Asleep
    <3>3. PICK total, count : /\ total = SubsidyOf(PaidFor(e, sweep.of))
                              /\ count = Cardinality(PaidFor(e, sweep.of))
      OBVIOUS
    <3>4. total \in Int /\ count \in Int
      BY <1>1, <3>3
    <3>5. \/ sweep' = [at |-> "next", of |-> sweep.of, left |-> sweep.left \ {e}]
          \/ sweep' = [at |-> "insert", of |-> sweep.of, left |-> sweep.left \ {e},
                       account |-> e, total |-> total, bookingCount |-> count]
      BY <3>1, <3>3 DEF SweepRead
    <3>6. QED
      BY <3>2, <3>4, <3>5 DEF Sweeping
  <2>4. CASE SweepInsert
    BY <2>4 DEF SweepInsert, TypeOK, Sweeping, Asleep
  <2>5. CASE SweepEnds
    BY <2>5 DEF SweepEnds
  <2>6. QED
    BY <2>1, <2>2, <2>3, <2>4, <2>5
       DEF Next, vars, Enroll, LinkByHand, ChangeRate, RequestBooking, AcceptBooking,
           AuthorizeEscrowRead, AuthorizeEscrowWrite, AuthorizeFails, CancelBooking, MonthPasses
<1>3. invoice' \in [Employers \X (1..LastMonth) -> Invoices \cup {NoInvoice}]
  <2>1. CASE invoice' = invoice
    BY <2>1 DEF TypeOK
  <2>2. CASE SweepInsert
    <3>1. sweep.total \in Int /\ sweep.bookingCount \in Int
      BY <2>2 DEF SweepInsert, TypeOK, Sweeping, Asleep
    <3>2. [status |-> "issued", total |-> sweep.total, bookingCount |-> sweep.bookingCount]
            \in Invoices
      BY <3>1 DEF Invoices
    <3>3. QED
      BY <2>2, <3>2 DEF SweepInsert, TypeOK
  <2>3. QED
    BY <2>1, <2>2
       DEF Next, vars, Enroll, LinkByHand, ChangeRate, RequestBooking, AcceptBooking,
           AuthorizeEscrowRead, AuthorizeEscrowWrite, AuthorizeFails, CancelBooking, MonthPasses,
           SweepStarts, SweepRead, SweepEnds
<1>4. overlapped' \subseteq Families
  <2>1. CASE overlapped' = overlapped
    BY <2>1 DEF TypeOK
  <2>2. CASE \E b \in Bookings : AuthorizeEscrowRead(b)
    BY <2>2 DEF AuthorizeEscrowRead, TypeOK
  <2>3. QED
    BY <2>1, <2>2
       DEF Next, vars, Enroll, LinkByHand, ChangeRate, RequestBooking, AcceptBooking,
           AuthorizeEscrowWrite, AuthorizeFails, CancelBooking, MonthPasses,
           SweepStarts, SweepRead, SweepInsert, SweepEnds
<1>5. QED
  BY <1>2, <1>3, <1>4 DEF MoneyInv, Typed, TypeOK

LEMMA NotYetAskedStep ==
  ASSUME BenefitInv, [Next]_vars
  PROVE  NotYetAsked'
<1> USE DEF BenefitInv, MoneyInv, Typed, NotYetAsked
<1>1. CASE UNCHANGED <<booking, escrow, accept>>
  BY <1>1
<1>2. CASE \E b \in Bookings : RequestBooking(b)
  BY <1>2 DEF RequestBooking
<1>3. CASE \E b \in Bookings : AcceptBooking(b)
  BY <1>3 DEF AcceptBooking
<1>4. CASE \E b \in Bookings : AuthorizeEscrowRead(b) \/ AuthorizeEscrowWrite(b)
  <2>1. PICK b \in Bookings : AuthorizeEscrowRead(b) \/ AuthorizeEscrowWrite(b)
    BY <1>4
  <2>2. /\ booking' = booking /\ booking[b].status # "none"
        /\ \A c \in Bookings \ {b} : escrow'[c] = escrow[c] /\ accept'[c] = accept[c]
    BY <2>1 DEF AuthorizeEscrowRead, AuthorizeEscrowWrite, NotAccepting
  <2>3. QED
    BY <2>2
<1>5. CASE \E b \in Bookings : AuthorizeFails(b)
  BY <1>5 DEF AuthorizeFails
<1>6. CASE \E b \in Bookings, t \in {0, 60 * Policy.freeHours} : CancelBooking(b, t)
  <2>1. PICK b \in Bookings, t \in {0, 60 * Policy.freeHours} : CancelBooking(b, t)
    BY <1>6
  <2>2. /\ accept' = accept /\ booking'[b].status = "cancelled"
        /\ \A c \in Bookings \ {b} : booking'[c] = booking[c] /\ escrow'[c] = escrow[c]
    BY <2>1 DEF CancelBooking
  <2>3. QED
    BY <2>2
<1>7. QED
  BY <1>1, <1>2, <1>3, <1>4, <1>5, <1>6
     DEF Next, vars, Enroll, LinkByHand, ChangeRate, MonthPasses, SweepStarts, SweepRead,
         SweepInsert, SweepEnds

\* A step that authorizes nothing leaves the sums alone; one that does is of one booking.
LEMMA QuietOrWrite ==
  ASSUME BenefitInv, [Next]_vars
  PROVE  \/ \E b \in Bookings : AuthorizeEscrowWrite(b)
         \/ /\ Terms' = Terms
            /\ \A e : Paid(e)' = Paid(e)
            /\ \A e, m : PaidFor(e, m)' = PaidFor(e, m) /\ InTime(e, m)' = InTime(e, m)
            /\ \A e, f, m : MonthOfFamily(e, f, m)' = MonthOfFamily(e, f, m)
            /\ \A c \in Bookings : Kept(c)
<1>1. SUFFICES ASSUME ~ \E b \in Bookings : AuthorizeEscrowWrite(b)
               PROVE  /\ Terms' = Terms
                      /\ \A e : Paid(e)' = Paid(e)
                      /\ \A e, m : PaidFor(e, m)' = PaidFor(e, m) /\ InTime(e, m)' = InTime(e, m)
                      /\ \A e, f, m : MonthOfFamily(e, f, m)' = MonthOfFamily(e, f, m)
                      /\ \A c \in Bookings : Kept(c)
  OBVIOUS
<1>2. \A c \in Bookings : Kept(c) /\ (escrow[c] = NoEscrow => escrow'[c] = NoEscrow)
  BY <1>1, QuietStep
<1>3. QED
  BY <1>2, QuietSums

LEMMA BudgetStep ==
  ASSUME BenefitInv, [Next]_vars
  PROVE  BudgetKept'
<1> USE DEF BenefitInv, BudgetKept
<1>1. CASE \E b \in Bookings : AuthorizeEscrowWrite(b)
  <2>1. PICK b \in Bookings : AuthorizeEscrowWrite(b)
    BY <1>1
  <2>2. PICK a : a = accept[b].amounts.subsidy
    OBVIOUS
  <2>3. a \in Nat
    BY <2>1, <2>2, WriteSums
  <2>4. ASSUME NEW e \in Employers PROVE used'[e] = SumFunctionOnSet(Terms', Paid(e)')
    <3>1. used[e] = SumFunctionOnSet(Terms, Paid(e)) /\ used[e] \in Nat
      BY DEF MoneyInv, Typed
    <3>2. Paid(e) \in SUBSET (Bookings \ {b})
      BY <2>1, WriteSets
    <3>3. CASE e = booking[b].employer
      <4>1. used' = [used EXCEPT ![booking[b].employer] = @ + accept[b].amounts.subsidy]
        BY <2>1, <3>3, NoEmployerAssumption DEF AuthorizeEscrowWrite
      <4>2. used'[e] = used[e] + a
        BY <2>2, <3>3, <4>1 DEF MoneyInv, Typed
      <4>3. Paid(e)' = Paid(e) \cup {b}
        BY <2>1, <3>3, WriteSets
      <4>4. SumFunctionOnSet(Terms', Paid(e) \cup {b}) = a + SumFunctionOnSet(Terms, Paid(e))
        BY <2>1, <2>2, <3>2, WriteSums
      <4>5. QED
        BY <2>3, <3>1, <4>2, <4>3, <4>4
    <3>4. CASE e # booking[b].employer
      <4>1. used'[e] = used[e]
        BY <2>1, <3>4 DEF AuthorizeEscrowWrite, MoneyInv, Typed
      <4>2. Paid(e)' = Paid(e)
        BY <2>1, <3>4, WriteSets
      <4>3. SumFunctionOnSet(Terms', Paid(e)) = SumFunctionOnSet(Terms, Paid(e))
        BY <2>1, <3>2, WriteSums
      <4>4. QED
        BY <3>1, <4>1, <4>2, <4>3
    <3>5. QED
      BY <3>3, <3>4
  <2>5. QED
    BY <2>4
<1>2. CASE ~ \E b \in Bookings : AuthorizeEscrowWrite(b)
  <2>1. Terms' = Terms /\ \A e : Paid(e)' = Paid(e)
    BY <1>2, QuietOrWrite
  <2>2. used' = used
    BY <1>2
       DEF Next, vars, Enroll, LinkByHand, ChangeRate, RequestBooking, AcceptBooking,
           AuthorizeEscrowRead, AuthorizeFails, CancelBooking, MonthPasses,
           SweepStarts, SweepRead, SweepInsert, SweepEnds
  <2>3. QED
    BY <2>1, <2>2
<1>3. QED
  BY <1>1, <1>2

\* What an invoice covers, and what the job has read for one, it goes on covering.
LEMMA CoversStep ==
  ASSUME BenefitInv, [Next]_vars, NEW e, NEW m \in 1..LastMonth, NEW total, Covers(total, e, m)
  PROVE  Covers(total, e, m)'
<1>1. m < month' /\ m \in Nat
  <2>1. month' = month \/ month' = month + 1
    BY DEF Next, vars, Enroll, LinkByHand, ChangeRate, RequestBooking, AcceptBooking,
           AuthorizeEscrowRead, AuthorizeEscrowWrite, AuthorizeFails, CancelBooking, MonthPasses,
           SweepStarts, SweepRead, SweepInsert, SweepEnds
  <2>2. month \in Nat /\ m \in Nat /\ m < month
    BY CalendarAssumption DEF BenefitInv, MoneyInv, Typed, Covers
  <2>3. QED
    BY <2>1, <2>2
<1>2. PICK low, high : /\ low = SumFunctionOnSet(Terms, InTime(e, m))
                       /\ high = SumFunctionOnSet(Terms, PaidFor(e, m))
  OBVIOUS
<1>3. PICK early, paid : early = InTime(e, m) /\ paid = PaidFor(e, m)
  OBVIOUS
<1>4. early \in SUBSET Bookings /\ paid \in SUBSET Bookings /\ early \subseteq paid
  BY <1>3 DEF InTime, PaidFor
<1>5. low \in Nat /\ high \in Nat /\ total \in low..high
  BY <1>2, <1>3, <1>4, TermsNat DEF BenefitInv, MoneyInv, Covers
<1>6. CASE \E b \in Bookings : AuthorizeEscrowWrite(b)
  <2>1. PICK b \in Bookings : AuthorizeEscrowWrite(b)
    BY <1>6
  <2>2. PICK a : a = accept[b].amounts.subsidy
    OBVIOUS
  <2>3. a \in Nat
    BY <2>1, <2>2, WriteSums
  <2>4. paid \in SUBSET (Bookings \ {b}) /\ early \in SUBSET (Bookings \ {b})
    BY <1>3, <1>4, <2>1, WriteSets
  <2>5. InTime(e, m)' = early
    BY <1>3, <2>1, WriteSets DEF Covers
  <2>6. PaidFor(e, m)' = paid \/ PaidFor(e, m)' = paid \cup {b}
    BY <1>3, <2>1, WriteSets
  <2>7. /\ SumFunctionOnSet(Terms', early) = low
        /\ SumFunctionOnSet(Terms', paid) = high
        /\ SumFunctionOnSet(Terms', paid \cup {b}) = a + high
    BY <1>2, <1>3, <2>1, <2>2, <2>4, WriteSums
  <2>8. PICK more : more = SumFunctionOnSet(Terms', PaidFor(e, m)')
    OBVIOUS
  <2>9. more = high \/ more = a + high
    BY <2>6, <2>7, <2>8
  <2>10. total \in low..more
    BY <1>5, <2>3, <2>9
  <2>11. QED
    BY <1>1, <2>5, <2>7, <2>8, <2>10 DEF Covers
<1>7. CASE ~ \E b \in Bookings : AuthorizeEscrowWrite(b)
  <2>1. Terms' = Terms /\ PaidFor(e, m)' = PaidFor(e, m) /\ InTime(e, m)' = InTime(e, m)
    BY <1>7, QuietOrWrite
  <2>2. QED
    BY <1>1, <2>1 DEF Covers
<1>8. QED
  BY <1>6, <1>7

\* A total the job reads now covers what it has to.
LEMMA ReadCovers ==
  ASSUME BenefitInv, NEW e, NEW m \in 1..LastMonth, m < month
  PROVE  Covers(SubsidyOf(PaidFor(e, m)), e, m)
<1>1. PICK early, paid : early = InTime(e, m) /\ paid = PaidFor(e, m)
  OBVIOUS
<1>2. paid \in SUBSET Bookings /\ early \in SUBSET paid /\ early \in SUBSET Bookings
  BY <1>1 DEF InTime, PaidFor
<1>3. \A c \in Bookings : Terms[c] \in Nat
  BY TermsNat DEF BenefitInv, MoneyInv
<1>4. PICK f : f = Terms
  OBVIOUS
<1>5. SumFunctionOnSet(f, early) <= SumFunctionOnSet(f, paid)
  BY <1>2, <1>3, <1>4, BookingsAssumption, SumGrows
<1>6. SumFunctionOnSet(f, early) \in Nat /\ SumFunctionOnSet(f, paid) \in Nat
  BY <1>2, <1>4, TermsNat DEF BenefitInv, MoneyInv
<1>7. SubsidyOf(PaidFor(e, m)) = SumFunctionOnSet(f, paid)
  BY <1>1, <1>4 DEF SubsidyOf, Terms
<1>8. QED
  BY <1>1, <1>4, <1>5, <1>6, <1>7 DEF Covers

LEMMA InvoicesStep ==
  ASSUME BenefitInv, [Next]_vars
  PROVE  InvoicesCover'
<1> USE CalendarAssumption
<1>1. ASSUME NEW e \in Employers, NEW m \in 1..LastMonth, NEW total,
             \/ invoice[<<e, m>>] # NoInvoice /\ total = invoice[<<e, m>>].total
             \/ /\ sweep.at = "insert"
                /\ e = sweep.account /\ m = sweep.of /\ total = sweep.total
      PROVE  Covers(total, e, m)'
  <2>1. Covers(total, e, m)
    BY <1>1 DEF BenefitInv, InvoicesCover
  <2>2. QED
    BY <2>1, CoversStep
<1>2. month \in Nat /\ (month' = month \/ month' = month + 1)
  <2>1. month \in Nat
    BY DEF BenefitInv, MoneyInv, Typed
  <2>2. QED
    BY <2>1
       DEF Next, vars, Enroll, LinkByHand, ChangeRate, RequestBooking, AcceptBooking,
           AuthorizeEscrowRead, AuthorizeEscrowWrite, AuthorizeFails, CancelBooking, MonthPasses,
           SweepStarts, SweepRead, SweepInsert, SweepEnds
<1>3. sweep # Asleep => sweep.of \in 1..LastMonth /\ sweep.of < month /\ sweep.of < month'
  BY <1>2 DEF BenefitInv, MoneyInv, Typed, InvoicesCover
<1>4. ASSUME NEW e \in Employers, NEW m \in 1..LastMonth, invoice'[<<e, m>>] # NoInvoice
      PROVE  Covers(invoice[<<e, m>>].total, e, m)'
  <2>1. PICK total : total = invoice'[<<e, m>>].total
    OBVIOUS
  <2>2. \/ invoice[<<e, m>>] # NoInvoice /\ total = invoice[<<e, m>>].total
        \/ sweep.at = "insert" /\ e = sweep.account /\ m = sweep.of /\ total = sweep.total
    <3>1. CASE invoice'[<<e, m>>] = invoice[<<e, m>>]
      BY <1>4, <2>1, <3>1
    <3>2. CASE SweepInsert
      <4>1. PICK period : period = <<sweep.account, sweep.of>>
        OBVIOUS
      <4>2. DOMAIN invoice = Employers \X (1..LastMonth) /\ <<e, m>> \in Employers \X (1..LastMonth)
        BY DEF BenefitInv, MoneyInv, Typed
      <4>3. CASE invoice[period] # NoInvoice
        BY <1>4, <2>1, <3>2, <4>1, <4>3 DEF SweepInsert
      <4>4. CASE invoice[period] = NoInvoice
        <5>1. invoice' = [invoice EXCEPT ![period] =
                           [status |-> "issued", total |-> sweep.total,
                            bookingCount |-> sweep.bookingCount]]
          BY <3>2, <4>1, <4>4 DEF SweepInsert
        <5>2. CASE period = <<e, m>>
          BY <2>1, <3>2, <4>1, <4>2, <5>1, <5>2 DEF SweepInsert
        <5>3. CASE period # <<e, m>>
          BY <1>4, <2>1, <4>2, <5>1, <5>3
        <5>4. QED
          BY <5>2, <5>3
      <4>5. QED
        BY <4>3, <4>4
    <3>3. QED
      BY <3>1, <3>2
         DEF Next, vars, Enroll, LinkByHand, ChangeRate, RequestBooking, AcceptBooking,
             AuthorizeEscrowRead, AuthorizeEscrowWrite, AuthorizeFails, CancelBooking, MonthPasses,
             SweepStarts, SweepRead, SweepEnds
  <2>3. Covers(total, e, m)'
    BY <1>1, <2>2
  <2>4. QED
    BY <2>1, <2>3 DEF Covers
<1>5. /\ sweep' # Asleep => sweep'.of < month'
      /\ sweep'.at = "insert" => Covers(sweep.total, sweep.account, sweep.of)'
  <2>1. CASE sweep' = sweep
    <3>1. ASSUME sweep.at = "insert" PROVE Covers(sweep.total, sweep.account, sweep.of)'
      <4>1. sweep.account \in Employers /\ sweep.of \in 1..LastMonth
        BY <1>3, <3>1 DEF BenefitInv, MoneyInv, Typed, Asleep
      <4>2. PICK total, e, m : e = sweep.account /\ m = sweep.of /\ total = sweep.total
        OBVIOUS
      <4>3. Covers(total, e, m)'
        BY <1>1, <3>1, <4>1, <4>2
      <4>4. QED
        BY <2>1, <4>2, <4>3 DEF Covers
    <3>2. QED
      BY <1>3, <2>1, <3>1
  <2>2. CASE SweepStarts
    BY <1>2, <2>2 DEF SweepStarts, Asleep
  <2>3. CASE \E e \in Employers : SweepRead(e)
    <3>1. PICK e \in Employers : SweepRead(e)
      BY <2>3
    <3>2. sweep # Asleep
      BY <3>1 DEF SweepRead, Asleep
    <3>3. PICK total, m : total = SubsidyOf(PaidFor(e, m)) /\ m = sweep.of
      OBVIOUS
    <3>4. Covers(total, e, m)
      BY <1>3, <3>2, <3>3, ReadCovers
    <3>5. Covers(total, e, m)'
      BY <1>3, <3>2, <3>3, <3>4, CoversStep
    <3>6. /\ sweep'.of = m
          /\ sweep'.at = "insert" => sweep'.account = e /\ sweep'.total = total
      BY <3>1, <3>3 DEF SweepRead
    <3>7. sweep'.of < month'
      BY <1>3, <3>2, <3>3, <3>6
    <3>8. QED
      BY <3>5, <3>6, <3>7 DEF Covers
  <2>4. CASE SweepInsert
    <3>1. sweep # Asleep /\ sweep'.of = sweep.of /\ sweep'.at = "next"
      BY <2>4 DEF SweepInsert, Asleep
    <3>2. QED
      BY <1>3, <3>1
  <2>5. CASE SweepEnds
    BY <2>5 DEF SweepEnds, Asleep
  <2>6. QED
    BY <2>1, <2>2, <2>3, <2>4, <2>5
       DEF Next, vars, Enroll, LinkByHand, ChangeRate, RequestBooking, AcceptBooking,
           AuthorizeEscrowRead, AuthorizeEscrowWrite, AuthorizeFails, CancelBooking, MonthPasses
<1>6. QED
  BY <1>4, <1>5 DEF InvoicesCover

----------------------------------------------------------------------------
(* The benefit.                                                            *)

\* A row of the enrolments keeps its employer, its family and its benefit.
LEMMA EnrolmentsStay ==
  ASSUME BenefitInv, [Next]_vars, NEW n \in enrolled
  PROVE  \E k \in enrolled' :
           k.employer = n.employer /\ k.family = n.family /\ k.benefit = n.benefit
<1>1. n \in Enrolments
  BY DEF BenefitInv, MoneyInv, Typed
<1>2. CASE n \in enrolled'
  BY <1>2
<1>3. CASE \E k \in Enrolments : LinkByHand(k)
  <2>1. PICK k \in Enrolments : LinkByHand(k)
    BY <1>3
  <2>2. PICK l : l = [k EXCEPT !.linked = TRUE]
    OBVIOUS
  <2>3. l \in enrolled' /\ (n = k \/ n \in enrolled')
    BY <2>1, <2>2 DEF LinkByHand
  <2>4. l.employer = k.employer /\ l.family = k.family /\ l.benefit = k.benefit
    BY <2>2 DEF Enrolments
  <2>5. QED
    BY <2>3, <2>4
<1>4. QED
  BY <1>2, <1>3
     DEF Next, vars, Enroll, ChangeRate, RequestBooking, AcceptBooking,
         AuthorizeEscrowRead, AuthorizeEscrowWrite, AuthorizeFails, CancelBooking, MonthPasses,
         SweepStarts, SweepRead, SweepInsert, SweepEnds

LEMMA GrantsStay ==
  ASSUME BenefitInv, [Next]_vars, NEW e, NEW f, NEW amount, Grants(e, f, amount)
  PROVE  Grants(e, f, amount)'
<1>1. CASE amount = 0
  BY <1>1 DEF Grants
<1>2. CASE amount # 0
  <2>1. PICK n \in enrolled : n.employer = e /\ n.family = f /\ amount <= n.benefit
    BY <1>2 DEF Grants
  <2>2. PICK k \in enrolled' :
          k.employer = n.employer /\ k.family = n.family /\ k.benefit = n.benefit
    BY EnrolmentsStay
  <2>3. QED
    BY <2>1, <2>2 DEF Grants
<1>3. QED
  BY <1>1, <1>2

\* Only a read puts an authorization at its insert, and it says so when it overlaps.
LEMMA InsertsKept ==
  ASSUME BenefitInv, [Next]_vars, NEW c \in Bookings, accept'[c].at = "insert"
  PROVE  /\ overlapped \subseteq overlapped'
         /\ \/ AuthorizeEscrowRead(c)
            \/ accept[c].at = "insert" /\ accept'[c] = accept[c]
<1> USE DEF BenefitInv, MoneyInv, Typed
<1>1. CASE \E b \in Bookings : AuthorizeEscrowRead(b)
  BY <1>1 DEF AuthorizeEscrowRead
<1>2. CASE \E b \in Bookings : AcceptBooking(b)
  BY <1>2 DEF AcceptBooking
<1>3. CASE \E b \in Bookings : AuthorizeEscrowWrite(b) \/ AuthorizeFails(b)
  BY <1>3 DEF AuthorizeEscrowWrite, AuthorizeFails, NotAccepting
<1>4. QED
  BY <1>1, <1>2, <1>3
     DEF Next, vars, Enroll, LinkByHand, ChangeRate, RequestBooking, CancelBooking, MonthPasses,
         SweepStarts, SweepRead, SweepInsert, SweepEnds

LEMMA OneAtATimeStep ==
  ASSUME BenefitInv, [Next]_vars
  PROVE  OneAtATime'
<1>1. SUFFICES ASSUME NEW b \in Bookings, NEW c \in Bookings,
                      accept'[b].at = "insert", accept'[c].at = "insert",
                      FamilyOf[b] = FamilyOf[c], FamilyOf[b] \notin overlapped', b # c
               PROVE  FALSE
  BY DEF OneAtATime
<1>2. FamilyOf[b] \notin overlapped
  BY <1>1, InsertsKept
<1>3. ASSUME NEW d \in Bookings, NEW g \in Bookings, d # g, AuthorizeEscrowRead(d),
             accept'[g].at = "insert", FamilyOf[d] = FamilyOf[g], FamilyOf[d] \notin overlapped'
      PROVE  FALSE
  <2>1. accept[g].at = "insert"
    <3>1. \A h \in Bookings \ {d} : accept'[h] = accept[h]
      BY <1>3 DEF AuthorizeEscrowRead, BenefitInv, MoneyInv, Typed
    <3>2. QED
      BY <1>3, <3>1
  <2>2. InFlightWith(d) # {}
    BY <1>3, <2>1 DEF InFlightWith
  <2>3. QED
    BY <1>3, <2>2 DEF AuthorizeEscrowRead
<1>4. ~ AuthorizeEscrowRead(b) /\ ~ AuthorizeEscrowRead(c)
  BY <1>1, <1>3
<1>5. accept[b].at = "insert" /\ accept[c].at = "insert"
  BY <1>1, <1>4, InsertsKept
<1>6. QED
  BY <1>1, <1>2, <1>5 DEF BenefitInv, OneAtATime

\* resolveEmployerSubsidy: what it grants fits in what an enrolment has left.
LEMMA SubsidyFits ==
  ASSUME BenefitInv, NEW b \in Bookings, NEW gross \in Nat,
         NEW subsidy \in ResolveSubsidies(b, gross)
  PROVE  Fits(b, booking[b].employer, subsidy)
<1>1. CASE EnrolmentsFor(b) = {}
  BY <1>1 DEF ResolveSubsidies, Fits
<1>2. CASE EnrolmentsFor(b) # {}
  <2>1. PICK n \in EnrolmentsFor(b) :
          subsidy = CapSubsidy(RemainingBenefit(n, b), RemainingBenefit(n, b), gross)
    BY <1>2 DEF ResolveSubsidies
  <2>2. /\ n \in enrolled /\ n \in Enrolments
        /\ n.employer = booking[b].employer /\ n.family = FamilyOf[b]
    BY <2>1 DEF EnrolmentsFor, Linked, BenefitInv, MoneyInv, Typed
  <2>3. n.benefit \in Nat
    BY <2>2, MoneyAssumption DEF Enrolments
  <2>4. PICK before : before = UsedBenefit(b)
    OBVIOUS
  <2>5. /\ before = SumFunctionOnSet(Terms,
                      MonthOfFamily(booking[b].employer, FamilyOf[b], MonthOf[b]))
        /\ before \in Nat
    <3>1. MonthOfFamily(booking[b].employer, FamilyOf[b], MonthOf[b]) \in SUBSET Bookings
      BY DEF MonthOfFamily, PaidFor
    <3>2. before = SumFunctionOnSet(Terms,
                      MonthOfFamily(booking[b].employer, FamilyOf[b], MonthOf[b]))
      BY <2>4 DEF UsedBenefit, SubsidyOf, Terms, MonthOfFamily
    <3>3. QED
      BY <3>1, <3>2, TermsNat DEF BenefitInv, MoneyInv
  <2>6. PICK left : left = RemainingBenefit(n, b)
    OBVIOUS
  <2>7. left = Greater(0, n.benefit - before) /\ subsidy = CapSubsidy(left, left, gross)
    BY <2>1, <2>4, <2>6 DEF RemainingBenefit
  <2>8. subsidy = 0 \/ before + subsidy <= n.benefit
    BY <2>3, <2>5, <2>7 DEF CapSubsidy, Greater, Lesser
  <2>9. QED
    BY <2>2, <2>5, <2>8 DEF Fits, Grants
<1>3. QED
  BY <1>1, <1>2

LEMMA InsertFitsStep ==
  ASSUME BenefitInv, [Next]_vars
  PROVE  InsertFits'
<1>1. ASSUME NEW c \in Bookings, accept'[c].at = "insert", FamilyOf[c] \notin overlapped',
             NEW e, NEW subsidy,
             e = booking'[c].employer, subsidy = accept'[c].amounts.subsidy
      PROVE  Fits(c, e, subsidy)'
  <2>1. FamilyOf[c] \notin overlapped
    BY <1>1, InsertsKept
  <2>2. CASE subsidy = 0
    BY <2>2 DEF Fits
  <2>3. CASE subsidy # 0
    <3>1. Fits(c, e, subsidy)
      <4>1. CASE AuthorizeEscrowRead(c)
        <5>1. PICK x \in ResolveSubsidies(c, FamilyGross(GrossForBooking(c))) :
                accept' = [accept EXCEPT
                  ![c] = [at |-> "insert", amounts |-> EscrowSplit(GrossForBooking(c), x)]]
          BY <4>1 DEF AuthorizeEscrowRead
        <5>2. FamilyGross(GrossForBooking(c)) \in Nat
          BY GrossNat, FeesWithinGross DEF FamilyGross, BenefitInv, MoneyInv, Typed
        <5>3. EscrowSplit(GrossForBooking(c), x).subsidy = x
          BY DEF EscrowSplit
        <5>4. subsidy = x /\ e = booking[c].employer
          BY <1>1, <4>1, <5>1, <5>3 DEF AuthorizeEscrowRead, BenefitInv, MoneyInv, Typed
        <5>5. QED
          BY <5>2, <5>4, SubsidyFits
      <4>2. CASE accept[c].at = "insert" /\ accept'[c] = accept[c]
        <5>1. booking[c].status # "none"
          BY <4>2 DEF BenefitInv, NotYetAsked, NotAccepting
        <5>2. booking'[c].employer = booking[c].employer
          <6>1. CASE \E b \in Bookings : AuthorizeEscrowWrite(b)
            BY <6>1 DEF AuthorizeEscrowWrite
          <6>2. CASE ~ \E b \in Bookings : AuthorizeEscrowWrite(b)
            BY <5>1, <6>2, QuietOrWrite DEF Kept
          <6>3. QED
            BY <6>1, <6>2
        <5>3. QED
          BY <1>1, <2>1, <4>2, <5>2 DEF BenefitInv, InsertFits
      <4>3. QED
        BY <1>1, <4>1, <4>2, InsertsKept
    <3>2. PICK f, m : f = FamilyOf[c] /\ m = MonthOf[c]
      OBVIOUS
    <3>3. PICK S, total : S = MonthOfFamily(e, f, m) /\ total = SumFunctionOnSet(Terms, S)
      OBVIOUS
    <3>4. MonthOfFamily(e, f, m)' = S /\ SumFunctionOnSet(Terms', S) = total
      <4>1. CASE \E b \in Bookings : AuthorizeEscrowWrite(b)
        <5>1. PICK b \in Bookings : AuthorizeEscrowWrite(b)
          BY <4>1
        <5>2. accept' = [accept EXCEPT ![b] = NotAccepting] /\ accept[b].at = "insert"
          BY <5>1 DEF AuthorizeEscrowWrite
        <5>3. b # c /\ accept[c].at = "insert"
          BY <1>1, <5>2 DEF BenefitInv, MoneyInv, Typed, NotAccepting
        <5>4. FamilyOf[b] # f
          BY <2>1, <3>2, <5>2, <5>3 DEF BenefitInv, OneAtATime
        <5>5. MonthOfFamily(e, f, m)' = S /\ S \in SUBSET (Bookings \ {b})
          BY <3>3, <5>1, <5>4, WriteSets
        <5>6. QED
          BY <3>3, <5>1, <5>5, WriteSums
      <4>2. CASE ~ \E b \in Bookings : AuthorizeEscrowWrite(b)
        BY <3>3, <4>2, QuietOrWrite
      <4>3. QED
        BY <4>1, <4>2
    <3>5. PICK amount : amount = total + subsidy
      OBVIOUS
    <3>6. Grants(e, f, amount)
      BY <2>3, <3>1, <3>2, <3>3, <3>5 DEF Fits
    <3>7. Grants(e, f, amount)'
      BY <3>6, GrantsStay
    <3>8. QED
      BY <3>2, <3>4, <3>5, <3>7 DEF Fits, Grants
  <2>4. QED
    BY <2>2, <2>3
<1>2. QED
  BY <1>1 DEF InsertFits, Fits, Grants, MonthOfFamily, PaidFor

LEMMA WithinBenefitStep ==
  ASSUME BenefitInv, [Next]_vars
  PROVE  WithinBenefit'
<1>1. ASSUME NEW e \in Employers, NEW f \in Families, f \notin overlapped', NEW m \in 1..LastMonth
      PROVE  Grants(e, f, SumFunctionOnSet(Terms, MonthOfFamily(e, f, m)))'
  <2>1. f \notin overlapped
    BY <1>1
       DEF Next, vars, Enroll, LinkByHand, ChangeRate, RequestBooking, AcceptBooking,
           AuthorizeEscrowRead, AuthorizeEscrowWrite, AuthorizeFails, CancelBooking, MonthPasses,
           SweepStarts, SweepRead, SweepInsert, SweepEnds
  <2>2. PICK S, total : S = MonthOfFamily(e, f, m) /\ total = SumFunctionOnSet(Terms, S)
    OBVIOUS
  <2>3. Grants(e, f, total)
    BY <2>1, <2>2 DEF BenefitInv, WithinBenefit
  <2>4. CASE \E b \in Bookings : AuthorizeEscrowWrite(b)
    <3>1. PICK b \in Bookings : AuthorizeEscrowWrite(b)
      BY <2>4
    <3>2. PICK a : a = accept[b].amounts.subsidy
      OBVIOUS
    <3>3. /\ S \in SUBSET (Bookings \ {b})
          /\ SumFunctionOnSet(Terms', S) = total
          /\ SumFunctionOnSet(Terms', S \cup {b}) = a + total
      BY <2>2, <3>1, <3>2, WriteSets, WriteSums
    <3>4. CASE e = booking[b].employer /\ m = MonthOf[b] /\ f = FamilyOf[b]
      <4>1. Fits(b, e, a)
        BY <2>1, <3>1, <3>2, <3>4 DEF AuthorizeEscrowWrite, BenefitInv, InsertFits
      <4>2. a \in Nat /\ total \in Nat
        BY <2>2, <3>1, <3>2, <3>3, WriteSums, TermsNat DEF BenefitInv, MoneyInv
      <4>3. PICK amount : amount = a + total
        OBVIOUS
      <4>4. Grants(e, f, amount)
        <5>1. CASE a = 0
          BY <2>3, <4>2, <4>3, <5>1
        <5>2. CASE a # 0
          <6>1. Grants(e, f, total + a)
            BY <2>2, <3>4, <4>1, <5>2 DEF Fits
          <6>2. amount = total + a
            BY <4>2, <4>3
          <6>3. QED
            BY <6>1, <6>2
        <5>3. QED
          BY <5>1, <5>2
      <4>5. Grants(e, f, amount)'
        BY <4>4, GrantsStay
      <4>6. MonthOfFamily(e, f, m)' = S \cup {b}
        BY <2>2, <3>1, <3>4, WriteSets
      <4>7. QED
        BY <3>3, <4>3, <4>5, <4>6 DEF Grants
    <3>5. CASE ~ (e = booking[b].employer /\ m = MonthOf[b] /\ f = FamilyOf[b])
      <4>1. MonthOfFamily(e, f, m)' = S
        BY <2>2, <3>1, <3>5, WriteSets
      <4>2. Grants(e, f, total)'
        BY <2>3, GrantsStay
      <4>3. QED
        BY <3>3, <4>1, <4>2 DEF Grants
    <3>6. QED
      BY <3>4, <3>5
  <2>5. CASE ~ \E b \in Bookings : AuthorizeEscrowWrite(b)
    <3>1. MonthOfFamily(e, f, m)' = S /\ SumFunctionOnSet(Terms', S) = total
      BY <2>2, <2>5, QuietOrWrite
    <3>2. Grants(e, f, total)'
      BY <2>3, GrantsStay
    <3>3. QED
      BY <3>1, <3>2 DEF Grants
  <2>6. QED
    BY <2>4, <2>5
<1>2. QED
  BY <1>1 DEF WithinBenefit

LEMMA BenefitStep ==
  ASSUME BenefitInv, [Next]_vars
  PROVE  BenefitInv'
<1>1. MoneyInv'
  BY MoneyStep DEF BenefitInv
<1>2. QED
  BY <1>1, TypeStep, NotYetAskedStep, BudgetStep, OneAtATimeStep, InsertFitsStep,
     WithinBenefitStep, InvoicesStep DEF BenefitInv

----------------------------------------------------------------------------
\* The invariant holds in every behaviour.
THEOREM BenefitInvariant == Spec => []BenefitInv
<1>1. QED
  BY BenefitInit, BenefitStep, PTL DEF Spec

\* Every row, every amount and every total is what its type says.
THEOREM BenefitTypes == Spec => []TypeOK
<1>1. BenefitInv => TypeOK
  BY DEF BenefitInv
<1>2. QED
  BY <1>1, BenefitInvariant, PTL

\* total_budget_used is incremented in the transaction that inserts the escrow: for any
\* number of authorizations in flight, whichever fail, it is the sum of the subsidies.
THEOREM BudgetAlwaysTotal == Spec => []BudgetIsTotal
<1>1. BenefitInv => BudgetIsTotal
  <2>1. SUFFICES ASSUME BenefitInv, NEW e \in Employers
                 PROVE  used[e] = SubsidyOf(UNION {PaidFor(e, m) : m \in 1..LastMonth})
    BY DEF BudgetIsTotal
  <2>2. UNION {PaidFor(e, m) : m \in 1..LastMonth} = Paid(e)
    BY CalendarAssumption DEF PaidFor, Paid
  <2>3. QED
    BY <2>1, <2>2 DEF BenefitInv, BudgetKept, SubsidyOf, Terms
<1>2. QED
  BY <1>1, BenefitInvariant, PTL

\* resolveEmployerSubsidy caps by what the month has left: a family whose authorizations
\* never overlapped is granted no more in a month than an enrolment of its own allows.
THEOREM BenefitNeverPassed == Spec => []BenefitKeptInTurn
<1>1. BenefitInv => BenefitKeptInTurn
  <2>1. SUFFICES ASSUME BenefitInv, NEW e \in Employers, NEW f \in Families \ overlapped,
                        NEW m \in 1..LastMonth
                 PROVE  \/ SubsidyOf(MonthOfFamily(e, f, m)) = 0
                        \/ \E n \in enrolled :
                             /\ n.employer = e /\ n.family = f
                             /\ SubsidyOf(MonthOfFamily(e, f, m)) <= n.benefit
    BY DEF BenefitKeptInTurn
  <2>2. Grants(e, f, SumFunctionOnSet(Terms, MonthOfFamily(e, f, m)))
    BY <2>1 DEF BenefitInv, WithinBenefit
  <2>3. QED
    BY <2>2 DEF Grants, SubsidyOf, Terms
<1>2. QED
  BY <1>1, BenefitInvariant, PTL

\* The invoice job reads a month only when it is over: every invoice counts what was
\* authorized in its month, and nothing of another one.
THEOREM InvoicesAlwaysCover == Spec => []InvoiceCoversMonth
<1>1. BenefitInv => InvoiceCoversMonth
  <2>1. SUFFICES ASSUME BenefitInv, NEW e \in Employers, NEW m \in 1..LastMonth,
                        invoice[<<e, m>>] # NoInvoice
                 PROVE  invoice[<<e, m>>].total
                          \in SubsidyOf({b \in PaidFor(e, m) : escrow[b].authorizedIn <= m})
                                ..SubsidyOf(PaidFor(e, m))
    BY DEF InvoiceCoversMonth
  <2>2. Covers(invoice[<<e, m>>].total, e, m)
    BY <2>1 DEF BenefitInv, InvoicesCover
  <2>3. QED
    BY <2>2 DEF Covers, InTime, SubsidyOf, Terms
<1>2. QED
  BY <1>1, BenefitInvariant, PTL

============================================================================
